----------------------------- MODULE BotSession -----------------------------
(***************************************************************************)
(* The session of a Bot with mirai-api-http, and the requests made in it.  *)
(*                                                                         *)
(* A Bot holds bot_id_ and sess_key_.  authorize asks /auth for a session  *)
(* key and /verify to bind it to an account; release gives the session up; *)
(* the destructor releases a session that is still open.  Everything else  *)
(* is a request that carries the key the bot holds when the body is built. *)
(* Each request is one HTTP exchange on a connection of its own, and the   *)
(* coroutine is suspended from the request to the reply, so calls overlap  *)
(* and replies arrive in any order.  The synchronous variants are the same *)
(* steps made by a blocked thread.                                         *)
(*                                                                         *)
(* The server is external; it is modelled by what the requests expect.     *)
(***************************************************************************)
CONSTANTS
  Calls,     \* calls of the bot's member functions, other than the destructor
  Accounts,  \* QQ accounts that are logged in on the server
  Keys,      \* session keys the server can issue
  Failures,  \* what can go wrong: a subset of {"rejected", "unsent", "lost"}
  Overlap,   \* whether the program lets two calls of authorize overlap
  NoId,      \* UserId{}: not valid()
  NoKey      \* the empty string

ASSUME SessionAssumption ==
  /\ Failures \subseteq {"rejected", "unsent", "lost"}
  /\ Overlap \in BOOLEAN
  /\ NoId \notin Accounts
  /\ NoKey \notin Keys
  /\ "destructor" \notin Calls

Users == Calls \cup {"destructor"}

VARIABLES
  bot_id, sess_key,  \* the members bot_id_ and sess_key_
  life,              \* of the Bot object
  pc,                \* where each call is suspended, or how it ended
  account,           \* the id passed to authorize
  request,           \* what each call has put on the wire
  reply,             \* what has come back to it
  session,           \* server: the state of each key
  owner,             \* server: the account a key is bound to
  failed             \* history: the kinds of failure that have happened

botVars    == <<bot_id, sess_key, life>>
serverVars == <<session, owner, failed>>
vars == <<botVars, pc, account, request, reply, serverVars>>

None == [path |-> "none"]
Init ==
  /\ bot_id = NoId /\ sess_key = NoKey
  /\ life = "alive"
  /\ pc = [c \in Users |-> "idle"]
  /\ account = [c \in Users |-> NoId]
  /\ request = [c \in Users |-> None]
  /\ reply = [c \in Users |-> None]
  /\ session = [k \in Keys |-> "unused"]
  /\ owner = [k \in Keys |-> NoId]
  /\ failed = {}

authorized == bot_id # NoId
Suspended(c) == pc[c] \in {"auth", "verify", "release", "api"}

(***************************************************************************)
(* The request bodies: every one but /auth carries the session key.        *)
(***************************************************************************)
auth_body == [path |-> "/auth"]
verify_body(key, id) == [path |-> "/verify", key |-> key, qq |-> id]
\* Mutant: the account is left out of the release.
Mut_ReleaseBodyNoAccount == [path |-> "/release", key |-> sess_key, qq |-> NoId]

release_body == [path |-> "/release", key |-> sess_key, qq |-> bot_id]
keyed_body == [path |-> "/api", key |-> sess_key]

\* Send a request and suspend until the reply.
http_request(c, body, label) ==
  /\ request' = [request EXCEPT ![c] = body]
  /\ pc' = [pc EXCEPT ![c] = label]

(***************************************************************************)
(* Calls of the program.                                                   *)
(***************************************************************************)
\* Mutant: check_auth_gen_body does not look at bot_id_.
Mut_AuthorizeUnchecked(c, id) ==
  /\ life = "alive" /\ pc[c] = "idle"
  /\ Overlap \/ \A d \in Calls : pc[d] \notin {"auth", "verify"}
  /\ account' = [account EXCEPT ![c] = id]
  /\ http_request(c, auth_body, "auth")
  /\ UNCHANGED <<botVars, reply, serverVars>>

Authorize(c, id) ==
  /\ life = "alive" /\ pc[c] = "idle"
  /\ Overlap \/ \A d \in Calls : pc[d] \notin {"auth", "verify"}
  /\ ~authorized
  /\ account' = [account EXCEPT ![c] = id]
  /\ http_request(c, auth_body, "auth")
  /\ UNCHANGED <<botVars, reply, serverVars>>

\* check_auth_gen_body throws.
AuthorizeRefused(c) ==
  /\ life = "alive" /\ pc[c] = "idle"
  /\ authorized
  /\ pc' = [pc EXCEPT ![c] = "threw"]
  /\ UNCHANGED <<botVars, account, request, reply, serverVars>>

Release(c) ==
  /\ life = "alive" /\ pc[c] = "idle"
  /\ http_request(c, release_body, "release")
  /\ UNCHANGED <<botVars, account, reply, serverVars>>

\* A request in the session: the body, or the target of a GET, is built from
\* sess_key_ as it is now, without asking whether the bot is authorized.
Keyed(c) ==
  /\ life = "alive" /\ pc[c] = "idle"
  /\ http_request(c, keyed_body, "api")
  /\ UNCHANGED <<botVars, account, reply, serverVars>>

Query(c)    == Keyed(c)  \* send and recall messages, images and voice
Fetch(c)    == Keyed(c)  \* events, messages and lists
Command(c)  == Keyed(c)  \* group administration and answers to requests
Settings(c) == Keyed(c)  \* configuration of groups, members and the session

(***************************************************************************)
(* The server handles a request; the reply may be lost on the way.  A lost *)
(* reply stands for a broken connection, an HTTP error status and a socket *)
(* that cannot be shut down: all of them throw after the server acted.     *)
(***************************************************************************)
Answer(c, r) ==
  /\ request' = [request EXCEPT ![c] = None]
  /\ \/ /\ reply' = [reply EXCEPT ![c] = r]
        /\ failed' = IF r.path = "error" THEN failed \cup {"rejected"} ELSE failed
     \/ /\ "lost" \in Failures
        /\ reply' = [reply EXCEPT ![c] = [path |-> "broken"]]
        /\ failed' = failed \cup {"lost"}

Accept == [path |-> "ok"]
Reject == [path |-> "error"]

HandleAuth(c) ==
  /\ request[c].path = "/auth"
  /\ \E k \in Keys :
       /\ session[k] = "unused"
       /\ session' = [session EXCEPT ![k] = "open"]
       /\ Answer(c, [path |-> "ok", key |-> k])
  /\ UNCHANGED <<botVars, pc, account, owner>>

\* The key names a session that can be bound, that is bound to this account,
\* that is bound to any account.
Verifiable(r) == r.key \in Keys /\ session[r.key] \in {"open", "bound"}
Usable(r)     == r.key \in Keys /\ session[r.key] = "bound"
Releasable(r) == Usable(r) /\ owner[r.key] = r.qq

HandleVerify(c) ==
  /\ request[c].path = "/verify"
  /\ \/ /\ Verifiable(request[c])
        /\ session' = [session EXCEPT ![request[c].key] = "bound"]
        /\ owner' = [owner EXCEPT ![request[c].key] = request[c].qq]
        /\ Answer(c, Accept)
     \/ /\ ~Verifiable(request[c])
        /\ Answer(c, Reject)
        /\ UNCHANGED <<session, owner>>
  /\ UNCHANGED <<botVars, pc, account>>

HandleRelease(c) ==
  /\ request[c].path = "/release"
  /\ \/ /\ Releasable(request[c])
        /\ session' = [session EXCEPT ![request[c].key] = "closed"]
        /\ Answer(c, Accept)
     \/ /\ ~Releasable(request[c])
        /\ Answer(c, Reject)
        /\ UNCHANGED session
  /\ UNCHANGED <<botVars, pc, account, owner>>

HandleApi(c) ==
  /\ request[c].path = "/api"
  /\ Answer(c, IF Usable(request[c]) THEN Accept ELSE Reject)
  /\ UNCHANGED <<botVars, pc, account, session, owner>>

\* The server refuses a wrong auth key or an account that is not logged in.
HandleReject(c) ==
  /\ "rejected" \in Failures
  /\ request[c].path \in {"/auth", "/verify"}
  /\ Answer(c, Reject)
  /\ UNCHANGED <<botVars, pc, account, session, owner>>

\* The connection cannot be made: the server never sees the request.
Unsent(c) ==
  /\ "unsent" \in Failures
  /\ request[c] # None
  /\ request' = [request EXCEPT ![c] = None]
  /\ reply' = [reply EXCEPT ![c] = [path |-> "broken"]]
  /\ failed' = failed \cup {"unsent"}
  /\ UNCHANGED <<botVars, pc, account, session, owner>>

(***************************************************************************)
(* The reply resumes the call.                                             *)
(***************************************************************************)
Replied(c, label) == pc[c] = label /\ reply[c].path = "ok"
Take(c) == reply' = [reply EXCEPT ![c] = None]

\* Mutants: the whole reply is kept as the key; the account is taken over
\* before the server has verified it.
Mut_KeepsReply(c) ==
  /\ Replied(c, "auth")
  /\ sess_key' = reply[c]
  /\ Take(c)
  /\ http_request(c, verify_body(reply[c].key, account[c]), "verify")
  /\ UNCHANGED <<bot_id, life, account, serverVars>>

Mut_AuthorizedEarly(c) ==
  /\ Replied(c, "auth")
  /\ sess_key' = reply[c].key
  /\ bot_id' = account[c]
  /\ Take(c)
  /\ http_request(c, verify_body(reply[c].key, account[c]), "verify")
  /\ UNCHANGED <<life, account, serverVars>>

AuthReply(c) ==
  /\ Replied(c, "auth")
  /\ sess_key' = reply[c].key
  /\ Take(c)
  /\ http_request(c, verify_body(reply[c].key, account[c]), "verify")
  /\ UNCHANGED <<bot_id, life, account, serverVars>>

VerifyReply(c) ==
  /\ Replied(c, "verify")
  /\ bot_id' = account[c]
  /\ Take(c)
  /\ pc' = [pc EXCEPT ![c] = "returned"]
  /\ UNCHANGED <<sess_key, life, account, request, serverVars>>

\* Mutant: release does not reset the members.
Mut_ReleaseNoReset(c) ==
  /\ Replied(c, "release")
  /\ Take(c)
  /\ pc' = [pc EXCEPT ![c] = "returned"]
  /\ life' = IF c = "destructor" THEN "destroyed" ELSE life
  /\ UNCHANGED <<bot_id, sess_key, account, request, serverVars>>

ReleaseReply(c) ==
  /\ Replied(c, "release")
  /\ bot_id' = NoId
  /\ sess_key' = NoKey
  /\ Take(c)
  /\ pc' = [pc EXCEPT ![c] = "returned"]
  /\ life' = IF c = "destructor" THEN "destroyed" ELSE life
  /\ UNCHANGED <<account, request, serverVars>>

ApiReply(c) ==
  /\ Replied(c, "api")
  /\ Take(c)
  /\ pc' = [pc EXCEPT ![c] = "returned"]
  /\ UNCHANGED <<botVars, account, request, serverVars>>

\* Mutant: release forgets the session even when it fails.
Mut_FailedReleaseForgets(c) ==
  /\ Suspended(c)
  /\ reply[c].path \in {"error", "broken"}
  /\ Take(c)
  /\ bot_id' = IF pc[c] = "release" THEN NoId ELSE bot_id
  /\ sess_key' = IF pc[c] = "release" THEN NoKey ELSE sess_key
  /\ pc' = [pc EXCEPT ![c] = "threw"]
  /\ life' = IF c = "destructor" THEN "terminated" ELSE life
  /\ UNCHANGED <<account, request, serverVars>>

\* An error code in the reply, or no reply: the call throws and changes
\* nothing; an exception that would leave the destructor ends the program.
get_checked_response_json_throws(c) ==
  /\ Suspended(c)
  /\ reply[c].path \in {"error", "broken"}
  /\ Take(c)
  /\ pc' = [pc EXCEPT ![c] = "threw"]
  /\ life' = IF c = "destructor" THEN "terminated" ELSE life
  /\ UNCHANGED <<bot_id, sess_key, account, request, serverVars>>

(***************************************************************************)
(* ~Bot, when no call is in progress any more.                             *)
(***************************************************************************)
\* Mutant: the destructor does not release.
Mut_DestroyKeepsSession ==
  /\ life = "alive"
  /\ \A c \in Calls : ~Suspended(c)
  /\ life' = "destroyed"
  /\ UNCHANGED <<bot_id, sess_key, pc, account, request, reply, serverVars>>

Destroy ==
  /\ life = "alive"
  /\ \A c \in Calls : ~Suspended(c)
  /\ \/ /\ authorized
        /\ life' = "destroying"
        /\ http_request("destructor", release_body, "release")
     \/ /\ ~authorized
        /\ life' = "destroyed"
        /\ UNCHANGED <<request, pc>>
  /\ UNCHANGED <<bot_id, sess_key, account, reply, serverVars>>

Program(c) ==
  \/ \E id \in Accounts : Authorize(c, id)
  \/ AuthorizeRefused(c) \/ Release(c)
  \/ Query(c) \/ Fetch(c) \/ Command(c) \/ Settings(c)

Server(c) ==
  HandleAuth(c) \/ HandleVerify(c) \/ HandleRelease(c) \/ HandleApi(c) \/ HandleReject(c) \/ Unsent(c)

Continue(c) ==
  \/ AuthReply(c) \/ VerifyReply(c) \/ ReleaseReply(c) \/ ApiReply(c)
  \/ get_checked_response_json_throws(c)

Next ==
  \/ \E c \in Calls : Program(c)
  \/ \E c \in Users : Server(c) \/ Continue(c)
  \/ Destroy

Spec == Init /\ [][Next]_vars

-----------------------------------------------------------------------------
(***************************************************************************)
(* Properties.                                                             *)
(***************************************************************************)
Requests ==
  {None, [path |-> "/auth"]}
    \cup [path : {"/verify", "/release"}, key : Keys \cup {NoKey}, qq : Accounts \cup {NoId}]
    \cup [path : {"/api"}, key : Keys \cup {NoKey}]
Replies == {None, Accept, Reject, [path |-> "broken"]} \cup [path : {"ok"}, key : Keys]

\* The variables have their types; a key is owned once it has been bound.
TypeOK ==
  /\ bot_id \in Accounts \cup {NoId}
  /\ sess_key \in Keys \cup {NoKey}
  /\ life \in {"alive", "destroying", "destroyed", "terminated"}
  /\ pc \in [Users -> {"idle", "auth", "verify", "release", "api", "returned", "threw"}]
  /\ account \in [Users -> Accounts \cup {NoId}]
  /\ request \in [Users -> Requests]
  /\ reply \in [Users -> Replies]
  /\ session \in [Keys -> {"unused", "open", "bound", "closed"}]
  /\ owner \in [Keys -> Accounts \cup {NoId}]
  /\ failed \subseteq {"rejected", "unsent", "lost"}

\* An authorized bot holds a key that the server bound to exactly the account
\* that id() reports, whatever releases and failures happened since.
IdentityCoherent ==
  authorized => /\ sess_key \in Keys
                /\ session[sess_key] \in {"bound", "closed"}
                /\ owner[sess_key] = bot_id

\* While no release is under way and no reply was ever lost, the session of an
\* authorized bot is alive on the server: its requests are not refused.
SessionLive ==
  authorized /\ "lost" \notin failed /\ (\A c \in Users : pc[c] # "release") =>
    session[sess_key] = "bound"

\* A reply to a release that comes late never wipes another session: the key
\* that is forgotten is one the server has closed.
ForgetsOnlyClosed ==
  [][(sess_key \in Keys /\ sess_key' = NoKey) => (session[sess_key] = "closed")]_vars

\* The bot knows the key of every session it has bound, so it can still release
\* it: rejected, repeated and overlapping calls leak none unless a reply is lost.
NoSessionLeaked ==
  "lost" \notin failed => \A k \in Keys : session[k] = "bound" => k = sess_key

\* An authorized bot keeps its account and its key until it is released: no reply
\* to an authorization or a release that was under way replaces them.
SessionStable ==
  [][authorized /\ authorized' => UNCHANGED <<bot_id, sess_key>>]_vars

\* Destroying the bot leaves no bound session behind, unless a reply was lost.
DestroyReleases ==
  life = "destroyed" /\ "lost" \notin failed =>
    \A k \in Keys : session[k] # "bound"

\* ~Bot calls std::terminate only if a connection or a reply was lost.
TerminatesOnlyOnFailure ==
  life = "terminated" => failed \cap {"unsent", "lost"} # {}

\* check_auth_gen_body: "one Bot instance can only bind one bot account".
OneAccount ==
  \A j, k \in Keys : session[j] = "bound" /\ session[k] = "bound" => owner[j] = owner[k]

\* bot.h, ~Bot: destroys the bot object and "releases the sessions that have
\* not ended".
DestroyEndsSessions ==
  life = "destroyed" => \A k \in Keys : session[k] \notin {"open", "bound"}
=============================================================================
