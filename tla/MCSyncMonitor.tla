--------------------------- MODULE MCSyncMonitor ---------------------------
(***************************************************************************)
(* A frame of every type that mirai-api-http sends, with what it means, and *)
(* the frames that go wrong.                                               *)
(***************************************************************************)
EXTENDS SyncMonitor

ToGroup == <<"/sendGroupMessage", 10>>
ToFriend == <<"/sendFriendMessage", 1>>
ToTemp == <<"/sendTempMessage", 2, 10>>

Fr == [id |-> 1, nickname |-> "nick", remark |-> "remark"]
Gr == [id |-> 10, name |-> "group", permission |-> "ADMINISTRATOR"]
Mem(id, p) == [id |-> id, memberName |-> "name", permission |-> p, group |-> Gr]

T(text) == [type |-> "Plain", text |-> text]
Src == [type |-> "Source", id |-> 7, time |-> 100]
Quo(origin) == [type |-> "Quote", id |-> 6, senderId |-> 1, origin |-> origin]
Img(id, url) == [type |-> "Image", imageId |-> id, url |-> url, path |-> Null]

\* Conversations that a chain of segments may come from.
OfFriend(chain) == [type |-> "FriendMessage", messageChain |-> chain, sender |-> Fr]
OfGroup(chain) == [type |-> "GroupMessage", messageChain |-> chain, sender |-> Mem(2, "OWNER")]
OfTemp(chain) == [type |-> "TempMessage", messageChain |-> chain, sender |-> Mem(2, "MEMBER")]

Means(class, subtype, origin) == [class |-> class, subtype |-> subtype, origin |-> origin]
FriendSays(chain) == <<OfFriend(chain), Means("FriendMessage", "none", ToFriend)>>
GroupSays(chain) == <<OfGroup(chain), Means("GroupMessage", "none", ToGroup)>>
TempSays(chain) == <<OfTemp(chain), Means("TempMessage", "none", ToTemp)>>

\* Events about the bot, a group, and a member.
OfBot(type, class, subtype) == <<[type |-> type, qq |-> 99], Means(class, subtype, Null)>>
InGroup(type, class, subtype, more) ==
  <<[type |-> type, group |-> Gr] @@ more, Means(class, subtype, ToGroup)>>
OnMember(type, class, more) ==
  <<[type |-> type, member |-> Mem(2, "MEMBER")] @@ more, Means(class, "none", ToGroup)>>
By == [operator |-> Mem(3, "OWNER")]
From(a, b) == [origin |-> a, current |-> b]
Asking == [eventId |-> 500, fromId |-> 1, groupId |-> 10, nick |-> "nick", message |-> "hello"]
Asks(type, class, more) == <<[type |-> type] @@ Asking @@ more, Means(class, "none", <<class, 500, 1, 10>>)>>

Says(chain) == [senderId |-> 1, time |-> 90, senderName |-> <<"a">>, messageChain |-> chain]
Fwd(nodes) ==
  [type |-> "Forward", title |-> <<"a">>, brief |-> <<"b">>, source |-> <<>>, summary |-> <<"a">>, nodeList |-> nodes]

\* The messages that are forwarded; the last one forwards the one before it.
Unescaped == <<T(<<"b">>), T(<<"quote">>)>>
Inner ==
  <<<<T(<<"a">>), T(<<"b">>)>>, <<[type |-> "Face", faceId |-> 5, name |-> <<"a">>]>>,
    <<[type |-> "File"]>>, Unescaped, <<Fwd(<<Says(Unescaped)>>)>>>>

Good ==
  [friend |-> FriendSays(<<Src, T(<<"a">>), T(<<"newline", "b">>)>>),
   group_quote |-> GroupSays(<<Src, T(<<"a", "quote">>)>>),
   group |-> GroupSays(<<Src, Quo(<<T(<<"b">>)>>), [type |-> "At", target |-> 1, display |-> <<"a">>], T(<<"b">>)>>),
   group_media |-> GroupSays(<<Img(<<"a">>, <<"quote">>), Img(Null, <<"b">>)>>),
   group_flash |-> GroupSays(<<[type |-> "FlashImage", url |-> <<"a">>, path |-> <<"b">>],
                              [type |-> "Voice", voiceId |-> <<"a">>]>>),
   group_rich |-> GroupSays(<<[type |-> "Xml", xml |-> <<"a">>], [type |-> "Json", json |-> <<"quote", "a", "quote">>]>>),
   group_app |-> GroupSays(<<[type |-> "App", content |-> <<"b">>], [type |-> "Poke", name |-> <<"a">>]>>),
   group_forward |-> GroupSays(<<Fwd(<<Says(Inner[1]), Says(Inner[2])>>)>>),
   friend_forward |-> FriendSays(<<Fwd(<<Says(Inner[5])>>)>>),
   temp |-> TempSays(<<Src, [type |-> "Face", faceId |-> Null, name |-> <<"a">>], [type |-> "AtAll"]>>),
   temp_backslash |-> TempSays(<<T(<<"backslash", "n">>)>>),
   online |-> OfBot("BotOnlineEvent", "BotOnline", "login"),
   relogin |-> OfBot("BotReloginEvent", "BotOnline", "relogin"),
   offline_active |-> OfBot("BotOfflineEventActive", "BotOffline", "active"),
   offline_force |-> OfBot("BotOfflineEventForce", "BotOffline", "forced"),
   offline_dropped |-> OfBot("BotOfflineEventDropped", "BotOffline", "dropped"),
   bot_permission |-> InGroup("BotGroupPermissionChangeEvent", "BotGroupPermissionChange", "none", From("MEMBER", "OWNER")),
   bot_mute |-> <<[type |-> "BotMuteEvent", durationSeconds |-> 60] @@ By, Means("BotMuted", "none", Null)>>,
   bot_unmute |-> <<[type |-> "BotUnmuteEvent"] @@ By, Means("BotUnmuted", "none", Null)>>,
   bot_join |-> InGroup("BotJoinGroupEvent", "BotJoinGroup", "none", <<>>),
   bot_leave |-> InGroup("BotLeaveEventActive", "BotQuit", "none", <<>>),
   bot_kick |-> InGroup("BotLeaveEventKick", "BotKicked", "none", <<>>),
   group_recall |-> InGroup("GroupRecallEvent", "GroupRecall", "none",
                            By @@ [authorId |-> 2, messageId |-> 8, time |-> 80]),
   friend_recall |-> <<[type |-> "FriendRecallEvent", authorId |-> 1, messageId |-> 9, time |-> 80],
                       Means("FriendRecall", "none", ToFriend)>>,
   group_name |-> InGroup("GroupNameChangeEvent", "GroupNameChange", "none", By @@ From("a", "b")),
   group_entrance |-> InGroup("GroupEntranceAnnouncementChangeEvent", "GroupEntranceAnnouncementChange", "none",
                              By @@ From("a", "b")),
   mute_all |-> InGroup("GroupMuteAllEvent", "GroupConfig", "mute_all", By @@ From(FALSE, TRUE)),
   bot_mutes_all |-> InGroup("GroupMuteAllEvent", "GroupConfig", "mute_all", [operator |-> Null] @@ From(FALSE, TRUE)),
   bot_kicks |-> OnMember("MemberLeaveEventKick", "MemberKicked", [operator |-> Null]),
   anonymous |-> InGroup("GroupAllowAnonymousChatEvent", "GroupConfig", "anonymous_chat", By @@ From(FALSE, TRUE)),
   confess |-> InGroup("GroupAllowConfessTalkEvent", "GroupConfig", "confess_talk", By @@ From(FALSE, TRUE)),
   invite |-> InGroup("GroupAllowMemberInviteEvent", "GroupConfig", "member_invite", By @@ From(FALSE, TRUE)),
   member_join |-> OnMember("MemberJoinEvent", "MemberJoin", <<>>),
   member_kick |-> OnMember("MemberLeaveEventKick", "MemberKicked", By),
   member_quit |-> OnMember("MemberLeaveEventQuit", "MemberQuit", <<>>),
   member_card |-> OnMember("MemberCardChangeEvent", "MemberCardChange", By @@ From("a", "b")),
   member_title |-> OnMember("MemberSpecialTitleChangeEvent", "MemberSpecialTitleChange", From("a", "b")),
   member_permission |-> OnMember("MemberPermissionChangeEvent", "MemberPermissionChange", From("MEMBER", "ADMINISTRATOR")),
   member_mute |-> OnMember("MemberMuteEvent", "MemberMuted", By @@ [durationSeconds |-> 60]),
   member_unmute |-> OnMember("MemberUnmuteEvent", "MemberUnmuted", By),
   new_friend |-> Asks("NewFriendRequestEvent", "NewFriendRequest", <<>>),
   join_request |-> Asks("MemberJoinRequestEvent", "MemberJoinRequest", [groupName |-> "group"]),
   invited |-> Asks("BotInvitedJoinGroupRequestEvent", "BotInvitedJoinGroupRequest", [groupName |-> "group"])]

\* No JSON, an error code, a type and a segment that Mirai++ does not know, in
\* the message or in what it quotes or forwards, and an unknown permission.
Bad ==
  [garbage |-> <<>>,
   code |-> [code |-> 3],
   unknown |-> [type |-> "NudgeEvent"],
   file |-> OfGroup(<<Src, T(<<"a">>), [type |-> "File"]>>),
   quoted_file |-> OfFriend(<<Src, Quo(<<[type |-> "File"]>>), T(<<"a">>)>>),
   forwarded_file |-> OfFriend(<<Fwd(<<Says(Inner[3])>>)>>),
   permission |-> [type |-> "MemberPermissionChangeEvent", member |-> Mem(2, "MEMBER")] @@ From("MEMBER", "GUEST")]

MCFrames == [n \in DOMAIN Good |-> Good[n][1]] @@ Bad
MCExpected == [n \in DOMAIN Good |-> Good[n][2]] @@ [n \in DOMAIN Bad |-> Null]
MCStored == {"group", "group_quote", "file"}
MCLists == {<<"friend", "mute_all">>, <<"group", "unknown">>}
MCExtra == T(<<"b">>)
MCAlphabet == {"a", "b", "n", "newline", "quote", "backslash"}
MCNested == ToSet(Inner)
MCDepth == [chain \in MCNested |-> IF chain = Inner[5] THEN 1 ELSE 0]
=============================================================================
