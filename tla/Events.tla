------------------------------- MODULE Events -------------------------------
(***************************************************************************)
(* Events: the conversion of the JSON that the server sends, and the       *)
(* requests that an event makes on behalf of the program.                  *)
(***************************************************************************)
EXTENDS Messages

CONSTANT Bot  \* the Bot that receives the events

(***************************************************************************)
(* The records inside an event; Null stands for an exception.              *)
(***************************************************************************)
\* Mutant: a permission is forgotten.
Mut_NoOwner(s) == IF s \in {"MEMBER", "ADMINISTRATOR"} THEN s ELSE Null

permission_from_string(s) == IF s \in {"MEMBER", "ADMINISTRATOR", "OWNER"} THEN s ELSE Null

Friend_from_json(json) == IF HasAll(json, {"id", "nickname", "remark"}) THEN json ELSE Null

Group_from_json(json) ==
  IF HasAll(json, {"id", "name", "permission"}) /\ permission_from_string(json.permission) # Null
  THEN json ELSE Null

Member_from_json(json) ==
  IF /\ HasAll(json, {"group", "id", "memberName", "permission"})
     /\ Group_from_json(json.group) # Null
     /\ permission_from_string(json.permission) # Null
  THEN json ELSE Null

\* A member of a struct of type T; one without conversion is taken as it is.
read(T, v) ==
  CASE T = "Permission" -> permission_from_string(v)
    [] T = "Friend" -> Friend_from_json(v)
    [] T = "Group" -> Group_from_json(v)
    [] T = "Member" -> Member_from_json(v)
    [] T = "SentMessage" -> sent_message_from_json(v)
    [] OTHER -> v

(***************************************************************************)
(* The fields that from_json of each class reads, and their types.         *)
(***************************************************************************)
MessageEventBase(Sender) == [messageChain |-> "SentMessage", sender |-> Sender]
GroupEventBase          == [group |-> "Group"]
ExecutorEventBase       == [operator |-> "Member"]
GroupExecutorEventBase  == GroupEventBase @@ [operator |-> "Member"]
MemberEventBase         == [member |-> "Member"]
MemberExecutorEventBase == MemberEventBase @@ [operator |-> "Member"]

Changes(T) == [origin |-> T, current |-> T]
Lasts      == [durationSeconds |-> "int"]
Recalled   == [authorId |-> "int", messageId |-> "int", time |-> "int"]
Request    == [eventId |-> "int", fromId |-> "int", groupId |-> "int",
               nick |-> "string", message |-> "string"]

MessageEvents ==
  [FriendMessage |-> MessageEventBase("Friend"),
   GroupMessage  |-> MessageEventBase("Member"),
   TempMessage   |-> MessageEventBase("Member")]

BotEvents ==
  [BotOnline |-> [qq |-> "int"], BotOffline |-> [qq |-> "int"],
   BotGroupPermissionChange |-> GroupEventBase @@ Changes("Permission"),
   BotMuted |-> ExecutorEventBase @@ Lasts, BotUnmuted |-> ExecutorEventBase,
   BotJoinGroup |-> GroupEventBase, BotQuit |-> GroupEventBase, BotKicked |-> GroupEventBase]

RecallEvents ==
  [GroupRecall |-> GroupExecutorEventBase @@ Recalled, FriendRecall |-> Recalled]

GroupEvents ==
  [GroupNameChange |-> GroupExecutorEventBase @@ Changes("string"),
   GroupEntranceAnnouncementChange |-> GroupExecutorEventBase @@ Changes("string"),
   GroupConfig |-> GroupExecutorEventBase @@ Changes("bool")]

MemberEvents ==
  [MemberJoin |-> MemberEventBase, MemberQuit |-> MemberEventBase,
   MemberKicked |-> MemberExecutorEventBase,
   MemberCardChange |-> MemberExecutorEventBase @@ Changes("string"),
   MemberSpecialTitleChange |-> MemberEventBase @@ Changes("string"),
   MemberPermissionChange |-> MemberEventBase @@ Changes("Permission"),
   MemberMuted |-> MemberExecutorEventBase @@ Lasts, MemberUnmuted |-> MemberExecutorEventBase]

RequestEvents ==
  [NewFriendRequest |-> Request,
   MemberJoinRequest |-> Request @@ [groupName |-> "string"],
   BotInvitedJoinGroupRequest |-> Request @@ [groupName |-> "string"]]

NoticeEvents == BotEvents @@ RecallEvents @@ GroupEvents @@ MemberEvents @@ RequestEvents

Fields(class) ==
  IF class \in DOMAIN MessageEvents THEN MessageEvents[class] ELSE NoticeEvents[class]

\* The class that Event::from_json chooses by the type in the JSON.
ClassTable ==
  [GroupMessage |-> "GroupMessage", FriendMessage |-> "FriendMessage", TempMessage |-> "TempMessage",
   BotOnlineEvent |-> "BotOnline", BotReloginEvent |-> "BotOnline",
   BotOfflineEventActive |-> "BotOffline", BotOfflineEventForce |-> "BotOffline",
   BotOfflineEventDropped |-> "BotOffline",
   BotGroupPermissionChangeEvent |-> "BotGroupPermissionChange",
   BotMuteEvent |-> "BotMuted", BotUnmuteEvent |-> "BotUnmuted",
   BotJoinGroupEvent |-> "BotJoinGroup", BotLeaveEventActive |-> "BotQuit",
   BotLeaveEventKick |-> "BotKicked",
   GroupRecallEvent |-> "GroupRecall", FriendRecallEvent |-> "FriendRecall",
   GroupNameChangeEvent |-> "GroupNameChange",
   GroupEntranceAnnouncementChangeEvent |-> "GroupEntranceAnnouncementChange",
   GroupMuteAllEvent |-> "GroupConfig", GroupAllowAnonymousChatEvent |-> "GroupConfig",
   GroupAllowConfessTalkEvent |-> "GroupConfig", GroupAllowMemberInviteEvent |-> "GroupConfig",
   MemberJoinEvent |-> "MemberJoin", MemberLeaveEventKick |-> "MemberKicked",
   MemberLeaveEventQuit |-> "MemberQuit", MemberCardChangeEvent |-> "MemberCardChange",
   MemberSpecialTitleChangeEvent |-> "MemberSpecialTitleChange",
   MemberPermissionChangeEvent |-> "MemberPermissionChange",
   MemberMuteEvent |-> "MemberMuted", MemberUnmuteEvent |-> "MemberUnmuted",
   NewFriendRequestEvent |-> "NewFriendRequest", MemberJoinRequestEvent |-> "MemberJoinRequest",
   BotInvitedJoinGroupRequestEvent |-> "BotInvitedJoinGroupRequest"]

OnlineSubType(type) == IF type = "BotOnlineEvent" THEN "login" ELSE "relogin"

OfflineSubType ==
  [BotOfflineEventActive |-> "active", BotOfflineEventForce |-> "forced",
   BotOfflineEventDropped |-> "dropped"]

ConfigSubType ==
  [GroupMuteAllEvent |-> "mute_all", GroupAllowAnonymousChatEvent |-> "anonymous_chat",
   GroupAllowConfessTalkEvent |-> "confess_talk", GroupAllowMemberInviteEvent |-> "member_invite"]

SubType(type) ==
  CASE ClassTable[type] = "BotOnline" -> OnlineSubType(type)
    [] ClassTable[type] = "BotOffline" -> OfflineSubType[type]
    [] ClassTable[type] = "GroupConfig" -> ConfigSubType[type]
    [] OTHER -> "none"

\* Event::from_json: an event that belongs to no Bot yet.
event_from_json(json) ==
  IF ~ Has(json, "type") \/ json.type \notin DOMAIN ClassTable THEN Null
  ELSE LET class == ClassTable[json.type]
           field(k) == IF Has(json, k) THEN read(Fields(class)[k], json[k]) ELSE Null
       IN IF \E k \in DOMAIN Fields(class) : field(k) = Null THEN Null
          ELSE [class |-> class, subtype |-> SubType(json.type), bot |-> Null,
                data |-> [k \in DOMAIN Fields(class) |-> field(k)]]

\* A reply without a code, or with the code 0, is no error.
check_json(json) == "code" \in DOMAIN json => json.code = 0

parse_event(json) ==
  LET ev == event_from_json(json) IN IF ev = Null THEN Null ELSE [ev EXCEPT !.bot = Bot]

\* All of them or an exception.
parse_events(jsons) ==
  LET evs == [i \in DOMAIN jsons |-> parse_event(jsons[i])]
  IN IF Null \in ToSet(evs) THEN Null ELSE evs

(***************************************************************************)
(* Requests.  A message goes to a user, a group, or a user in a group.     *)
(***************************************************************************)
User(uid)      == <<"/sendFriendMessage", uid>>
Group(gid)     == <<"/sendGroupMessage", gid>>
Temp(uid, gid) == <<"/sendTempMessage", uid, gid>>

MessageTarget(ev) ==
  CASE ev.class = "FriendMessage" -> User(ev.data.sender.id)
    [] ev.class = "GroupMessage" -> Group(ev.data.sender.group.id)
    [] ev.class = "TempMessage" -> Temp(ev.data.sender.id, ev.data.sender.group.id)

\* Where send_message (for member events send_message_async) sends.
send_target(ev) ==
  IF ev.class \in DOMAIN MessageEvents THEN MessageTarget(ev)
  ELSE IF "group" \in DOMAIN ev.data THEN Group(ev.data.group.id)
  ELSE IF "member" \in DOMAIN ev.data THEN Group(ev.data.member.group.id)
  ELSE User(ev.data.authorId)

\* What quote_reply quotes.
quoted(ev) ==
  IF ev.class \in DOMAIN MessageEvents THEN ev.data.messageChain.source ELSE ev.data.messageId

CanSend(ev) ==
  ev.class \in DOMAIN MessageEvents \/ "group" \in DOMAIN ev.data \/ "member" \in DOMAIN ev.data

CanQuote(ev) == ev.class \in DOMAIN MessageEvents \cup DOMAIN RecallEvents

send_message_body(ev, msg, quote) ==
  [to |-> send_target(ev), messageChain |-> message_as_json(msg),
   quote |-> IF quote THEN quoted(ev) ELSE Null]

CanRespond(ev) == ev.class \in DOMAIN RequestEvents

respond_body(ev, operate, reason) ==
  [to |-> <<ev.class, ev.data.eventId, ev.data.fromId, ev.data.groupId>>, operate |-> operate,
   message |-> JsonQuoted(reason)]
=============================================================================
