-------------------------- MODULE BotSessionProofs --------------------------
(***************************************************************************)
(* Proofs about BotSession, for any calls, accounts, keys and failures, if *)
(* the program does not let two authorizations overlap.                    *)
(*                                                                         *)
(* The members are reset by a release without any look at what they hold.  *)
(* The argument is that this is safe because the server accepts a release  *)
(* only of the session the bot is in, and only one of them.                *)
(***************************************************************************)
EXTENDS BotSession, TLAPS

\* An authorization under way, and a release that the server has accepted.
Authorizing(c) == pc[c] \in {"auth", "verify"}
Released(c) == pc[c] = "release" /\ reply[c].path = "ok"

\* What is on the wire belongs to the place where the call is suspended.
Wire ==
  \A c \in Users :
    /\ pc[c] = "auth" => request[c].path \in {"none", "/auth"}
    /\ pc[c] = "verify" => request[c].path \in {"none", "/verify"}
    /\ pc[c] = "release" => request[c].path \in {"none", "/release"}
    /\ pc[c] = "api" => request[c].path \in {"none", "/api"}
    /\ ~Suspended(c) => request[c].path = "none" /\ reply[c].path = "none"
    /\ request[c].path = "none" \/ reply[c].path = "none"

\* One call at a time authorizes, and only when the bot is not authorized.
AuthPhase ==
  /\ \A c, d \in Users : Authorizing(c) /\ Authorizing(d) => c = d
  /\ \A c \in Users : Authorizing(c) => ~authorized /\ account[c] \in Accounts
  /\ \A c \in Users : pc[c] = "auth" /\ reply[c].path = "ok" =>
       reply[c].key \in Keys /\ session[reply[c].key] = "open"

\* The key that is being verified is the bot's, and is bound once that succeeded.
VerifyPhase ==
  \A c \in Users : pc[c] = "verify" =>
    /\ sess_key \in Keys
    /\ request[c].path # "none" => request[c].key = sess_key /\ request[c].qq = account[c]
    /\ reply[c].path = "ok" => session[sess_key] = "bound" /\ owner[sess_key] = account[c]

\* A release that the server can still accept is for the session the bot is in,
\* at most one has been accepted, and until its reply the bot is still in it.
ReleasePhase ==
  /\ \A c \in Users : request[c].path = "/release" /\ request[c].qq # NoId =>
       /\ request[c].key \in Keys
       /\ session[request[c].key] \in {"bound", "closed"}
       /\ owner[request[c].key] = request[c].qq
       /\ session[request[c].key] = "bound" => authorized /\ sess_key = request[c].key
  /\ \A c \in Users : Released(c) => authorized /\ session[sess_key] = "closed"
  /\ \A c, d \in Users : Released(c) /\ Released(d) => c = d

\* A bound key has an owner; unless a reply was lost, it is the bot's.
BoundInv ==
  /\ \A k \in Keys : session[k] = "bound" => owner[k] # NoId
  /\ "lost" \notin failed => \A k \in Keys : session[k] = "bound" =>
       k = sess_key /\ (authorized \/ \E c \in Users : pc[c] = "verify" /\ reply[c].path = "ok")

\* The session of the bot is gone only if a release was accepted.
LiveInv ==
  authorized /\ "lost" \notin failed /\ session[sess_key] # "bound" => \E c \in Users : Released(c)

\* Where the destructor is, and that its release is for the bot's session.
DestroyInv ==
  /\ pc["destructor"] \in {"idle", "release", "returned", "threw"}
  /\ pc["destructor"] = "release" <=> life = "destroying"
  /\ life # "alive" => \A c \in Calls : ~Suspended(c)
  /\ life = "destroyed" => ~authorized
  /\ request["destructor"].path # "none" =>
       authorized /\ request["destructor"].key = sess_key /\ request["destructor"].qq = bot_id

\* A failure that ends the destructor has been recorded.
FailureInv ==
  /\ \A c \in Users : reply[c].path = "broken" => failed \cap {"unsent", "lost"} # {}
  /\ reply["destructor"].path = "error" => "lost" \in failed
  /\ TerminatesOnlyOnFailure

\* The inductive invariant.
IInv ==
  /\ TypeOK /\ Wire /\ AuthPhase /\ VerifyPhase /\ ReleasePhase
  /\ IdentityCoherent /\ BoundInv /\ LiveInv /\ DestroyInv /\ FailureInv

\* What the records on the wire look like.
LEMMA Shapes ==
  /\ \A r \in Requests :
       /\ r.path \in {"none", "/auth", "/verify", "/release", "/api"}
       /\ r.path \in {"/verify", "/release"} =>
            r.key \in Keys \cup {NoKey} /\ r.qq \in Accounts \cup {NoId}
       /\ r.path = "/api" => r.key \in Keys \cup {NoKey}
       /\ r.path = "none" <=> r = None
  /\ \A r \in Replies :
       /\ r.path \in {"none", "ok", "error", "broken"}
       /\ r.path = "none" <=> r = None
  /\ None.path = "none" /\ Accept.path = "ok" /\ Reject.path = "error"
  /\ None \in Requests /\ None \in Replies /\ Accept \in Replies /\ Reject \in Replies
  /\ [path |-> "broken"] \in Replies
  /\ auth_body \in Requests
  /\ \A k \in Keys : [path |-> "ok", key |-> k] \in Replies
  /\ \A k \in Keys \cup {NoKey}, q \in Accounts \cup {NoId} :
        verify_body(k, q) \in Requests /\ [path |-> "/release", key |-> k, qq |-> q] \in Requests
  /\ \A k \in Keys \cup {NoKey} : [path |-> "/api", key |-> k] \in Requests
PROOF BY DEF Requests, Replies, None, Accept, Reject, auth_body, verify_body

\* An answer keeps the types of what is on the wire.
LEMMA AnswerType ==
  ASSUME TypeOK, NEW c \in Users, NEW r \in Replies, Answer(c, r)
  PROVE  /\ request' \in [Users -> Requests]
         /\ reply' \in [Users -> Replies]
         /\ failed' \subseteq {"rejected", "unsent", "lost"}
<1>1. request' \in [Users -> Requests]
  BY Shapes DEF TypeOK, Answer
<1>2. reply' \in [Users -> Replies]
  <2>1. CASE reply' = [reply EXCEPT ![c] = r]
    BY <2>1 DEF TypeOK
  <2>2. CASE reply' = [reply EXCEPT ![c] = [path |-> "broken"]]
    BY <2>2, Shapes DEF TypeOK
  <2>. QED BY <2>1, <2>2 DEF Answer
<1>3. failed' \subseteq {"rejected", "unsent", "lost"}
  BY DEF TypeOK, Answer
<1>. QED BY <1>1, <1>2, <1>3

\* An authorization starts: there is no other, and the bot is not authorized.
LEMMA AuthorizeStep ==
  ASSUME ~Overlap, IInv, NEW c \in Calls, NEW id \in Accounts, Authorize(c, id)
  PROVE  IInv'
<1>1. TypeOK'
  BY Shapes
     DEF IInv, TypeOK, Authorize, http_request, auth_body, Users, authorized, botVars,
         serverVars
<1>2. Wire'
  BY DEF IInv, Wire, TypeOK, Authorize, http_request, auth_body, Suspended, Users, authorized,
         botVars, serverVars
<1>3. AuthPhase'
  BY DEF IInv, AuthPhase, TypeOK, Wire, DestroyInv, Authorize, http_request, auth_body,
         Suspended, Authorizing, Users, authorized, botVars, serverVars
<1>4. VerifyPhase'
  BY DEF IInv, VerifyPhase, Authorize, http_request, auth_body, Users, authorized, botVars,
         serverVars
<1>5. ReleasePhase'
  BY DEF IInv, ReleasePhase, Authorize, http_request, auth_body, Released, Users, authorized,
         botVars, serverVars
<1>6. IdentityCoherent'
  BY DEF IInv, IdentityCoherent, Authorize, http_request, auth_body, authorized, botVars,
         serverVars
<1>7. BoundInv'
  BY DEF IInv, BoundInv, Authorize, http_request, auth_body, Users, authorized, botVars,
         serverVars
<1>8. LiveInv'
  BY DEF IInv, LiveInv, Authorize, http_request, auth_body, Released, Users, authorized,
         botVars, serverVars
<1>9. DestroyInv'
  BY SessionAssumption
     DEF IInv, DestroyInv, Authorize, http_request, auth_body, Suspended, authorized, botVars,
         serverVars
<1>10. FailureInv'
  BY DEF IInv, FailureInv, Authorize, http_request, auth_body, TerminatesOnlyOnFailure, Users,
         authorized, botVars, serverVars
<1>. QED BY <1>1, <1>2, <1>3, <1>4, <1>5, <1>6, <1>7, <1>8, <1>9, <1>10 DEF IInv

\* authorize throws: nothing but the end of the call.
LEMMA AuthorizeRefusedStep ==
  ASSUME IInv, NEW c \in Calls, AuthorizeRefused(c)
  PROVE  IInv'
<1>1. TypeOK'
  BY DEF IInv, TypeOK, AuthorizeRefused, Users, authorized, botVars, serverVars
<1>2. Wire'
  BY DEF IInv, Wire, AuthorizeRefused, Suspended, Users, authorized, botVars, serverVars
<1>3. AuthPhase'
  BY DEF IInv, AuthPhase, AuthorizeRefused, Authorizing, Users, authorized, botVars, serverVars
<1>4. VerifyPhase'
  BY DEF IInv, VerifyPhase, AuthorizeRefused, Users, authorized, botVars, serverVars
<1>5. ReleasePhase'
  BY DEF IInv, ReleasePhase, AuthorizeRefused, Released, Users, authorized, botVars, serverVars
<1>6. IdentityCoherent'
  BY DEF IInv, IdentityCoherent, AuthorizeRefused, authorized, botVars, serverVars
<1>7. BoundInv'
  BY DEF IInv, BoundInv, AuthorizeRefused, Users, authorized, botVars, serverVars
<1>8. LiveInv'
  BY DEF IInv, LiveInv, AuthorizeRefused, Released, Users, authorized, botVars, serverVars
<1>9. DestroyInv'
  BY DEF IInv, DestroyInv, AuthorizeRefused, Suspended, authorized, botVars, serverVars
<1>10. FailureInv'
  BY DEF IInv, FailureInv, AuthorizeRefused, TerminatesOnlyOnFailure, Users, authorized,
         botVars, serverVars
<1>. QED BY <1>1, <1>2, <1>3, <1>4, <1>5, <1>6, <1>7, <1>8, <1>9, <1>10 DEF IInv

\* A release starts: if the bot is authorized it is for its session.
LEMMA ReleaseStep ==
  ASSUME IInv, NEW c \in Calls, Release(c)
  PROVE  IInv'
<1>1. TypeOK'
  BY Shapes DEF IInv, TypeOK, Release, http_request, release_body, Users, botVars, serverVars
<1>2. Wire'
  BY DEF IInv, Wire, TypeOK, Release, http_request, release_body, Suspended, Users, botVars,
         serverVars
<1>3. AuthPhase'
  BY DEF IInv, AuthPhase, Release, http_request, release_body, Authorizing, Users, authorized,
         botVars, serverVars
<1>4. VerifyPhase'
  BY DEF IInv, VerifyPhase, Release, http_request, release_body, Users, botVars, serverVars
<1>5. ReleasePhase'
  BY DEF IInv, ReleasePhase, Wire, IdentityCoherent, Release, http_request, release_body,
         Suspended, Released, Users, authorized, botVars, serverVars
<1>6. IdentityCoherent'
  BY DEF IInv, IdentityCoherent, Release, http_request, release_body, authorized, botVars,
         serverVars
<1>7. BoundInv'
  BY DEF IInv, BoundInv, Release, http_request, release_body, Users, authorized, botVars,
         serverVars
<1>8. LiveInv'
  BY DEF IInv, LiveInv, Release, http_request, release_body, Released, Users, authorized,
         botVars, serverVars
<1>9. DestroyInv'
  BY SessionAssumption
     DEF IInv, DestroyInv, Release, http_request, release_body, Suspended, authorized, botVars,
         serverVars
<1>10. FailureInv'
  BY DEF IInv, FailureInv, Release, http_request, release_body, TerminatesOnlyOnFailure, Users,
         botVars, serverVars
<1>. QED BY <1>1, <1>2, <1>3, <1>4, <1>5, <1>6, <1>7, <1>8, <1>9, <1>10 DEF IInv

\* A keyed request starts: nothing is claimed of its key.
LEMMA KeyedStep ==
  ASSUME IInv, NEW c \in Calls, Keyed(c)
  PROVE  IInv'
<1>1. TypeOK'
  BY Shapes DEF IInv, TypeOK, Keyed, http_request, keyed_body, Users, botVars, serverVars
<1>2. Wire'
  BY DEF IInv, Wire, TypeOK, Keyed, http_request, keyed_body, Suspended, Users, botVars,
         serverVars
<1>3. AuthPhase'
  BY DEF IInv, AuthPhase, Keyed, http_request, keyed_body, Authorizing, Users, authorized,
         botVars, serverVars
<1>4. VerifyPhase'
  BY DEF IInv, VerifyPhase, Keyed, http_request, keyed_body, Users, botVars, serverVars
<1>5. ReleasePhase'
  BY DEF IInv, ReleasePhase, Keyed, http_request, keyed_body, Released, Users, authorized,
         botVars, serverVars
<1>6. IdentityCoherent'
  BY DEF IInv, IdentityCoherent, Keyed, http_request, keyed_body, authorized, botVars,
         serverVars
<1>7. BoundInv'
  BY DEF IInv, BoundInv, Keyed, http_request, keyed_body, Users, authorized, botVars, serverVars
<1>8. LiveInv'
  BY DEF IInv, LiveInv, Keyed, http_request, keyed_body, Released, Users, authorized, botVars,
         serverVars
<1>9. DestroyInv'
  BY SessionAssumption
     DEF IInv, DestroyInv, Keyed, http_request, keyed_body, Suspended, authorized, botVars,
         serverVars
<1>10. FailureInv'
  BY DEF IInv, FailureInv, Keyed, http_request, keyed_body, TerminatesOnlyOnFailure, Users,
         botVars, serverVars
<1>. QED BY <1>1, <1>2, <1>3, <1>4, <1>5, <1>6, <1>7, <1>8, <1>9, <1>10 DEF IInv

\* The server issues a key that nobody has seen.
LEMMA HandleAuthStep ==
  ASSUME IInv, NEW c \in Users, HandleAuth(c)
  PROVE  IInv'
<1>1. TypeOK'
  <2>1. PICK k \in Keys : /\ session' = [session EXCEPT ![k] = "open"]
                         /\ Answer(c, [path |-> "ok", key |-> k])
    BY DEF HandleAuth
  <2>2. [path |-> "ok", key |-> k] \in Replies
    BY Shapes
  <2>. QED BY <2>1, <2>2, AnswerType DEF IInv, TypeOK, HandleAuth, botVars
<1>2. Wire'
  BY Shapes DEF IInv, Wire, TypeOK, HandleAuth, Answer, Suspended, Users, botVars
<1>3. AuthPhase'
  BY DEF IInv, AuthPhase, TypeOK, HandleAuth, Answer, Authorizing, Users, authorized, botVars
<1>4. VerifyPhase'
  BY DEF IInv, VerifyPhase, TypeOK, Wire, HandleAuth, Answer, Suspended, Users, botVars
<1>5. ReleasePhase'
  BY Shapes
     DEF IInv, ReleasePhase, TypeOK, Wire, HandleAuth, Answer, Suspended, Released, Users,
         authorized, botVars
<1>6. IdentityCoherent'
  BY DEF IInv, IdentityCoherent, HandleAuth, Answer, authorized, botVars
<1>7. BoundInv'
  BY DEF IInv, BoundInv, TypeOK, HandleAuth, Answer, Users, authorized, botVars
<1>8. LiveInv'
  BY DEF IInv, LiveInv, TypeOK, HandleAuth, Answer, Released, Users, authorized, botVars
<1>9. DestroyInv'
  BY Shapes DEF IInv, DestroyInv, HandleAuth, Answer, Suspended, authorized, botVars
<1>10. FailureInv'
  BY Shapes
     DEF IInv, FailureInv, TypeOK, HandleAuth, Answer, TerminatesOnlyOnFailure, Users, botVars
<1>. QED BY <1>1, <1>2, <1>3, <1>4, <1>5, <1>6, <1>7, <1>8, <1>9, <1>10 DEF IInv

\* The server binds the key of the only authorization there is.
LEMMA HandleVerifyStep ==
  ASSUME IInv, NEW c \in Users, HandleVerify(c)
  PROVE  IInv'
<1>1. TypeOK'
  <2>1. /\ request' \in [Users -> Requests] /\ reply' \in [Users -> Replies]
        /\ failed' \subseteq {"rejected", "unsent", "lost"}
    BY AnswerType, Shapes DEF IInv, HandleVerify
  <2>2. request[c].key \in Keys \cup {NoKey} /\ request[c].qq \in Accounts \cup {NoId}
    BY Shapes DEF IInv, TypeOK, HandleVerify
  <2>. QED BY <2>1, <2>2 DEF IInv, TypeOK, HandleVerify, Verifiable, botVars
<1>2. Wire'
  BY Shapes DEF IInv, Wire, TypeOK, HandleVerify, Answer, Verifiable, Suspended, Users, botVars
<1>3. AuthPhase'
  BY DEF IInv, AuthPhase, Wire, HandleVerify, Answer, Verifiable, Suspended, Authorizing, Users,
         authorized, botVars
<1>4. VerifyPhase'
  BY Shapes
     DEF IInv, VerifyPhase, TypeOK, Wire, AuthPhase, HandleVerify, Answer, Verifiable,
         Suspended, Authorizing, Users, authorized, botVars
<1>5. ReleasePhase'
  BY Shapes
     DEF IInv, ReleasePhase, TypeOK, Wire, AuthPhase, HandleVerify, Answer, Verifiable,
         Suspended, Authorizing, Released, Users, authorized, botVars
<1>6. IdentityCoherent'
  BY DEF IInv, IdentityCoherent, Wire, AuthPhase, HandleVerify, Answer, Verifiable, Suspended,
         Authorizing, Users, authorized, botVars
<1>7. BoundInv'
  BY SessionAssumption, Shapes
     DEF IInv, BoundInv, TypeOK, Wire, AuthPhase, VerifyPhase, HandleVerify, Answer, Verifiable,
         Suspended, Authorizing, Users, authorized, botVars
<1>8. LiveInv'
  BY DEF IInv, LiveInv, Wire, AuthPhase, HandleVerify, Answer, Verifiable, Suspended,
         Authorizing, Released, Users, authorized, botVars
<1>9. DestroyInv'
  BY Shapes
     DEF IInv, DestroyInv, TypeOK, HandleVerify, Answer, Verifiable, Suspended, Users,
         authorized, botVars
<1>10. FailureInv'
  <2>1. c # "destructor"
    BY Shapes DEF IInv, TypeOK, Wire, DestroyInv, HandleVerify, Suspended, Users
  <2>2. reply'["destructor"] = reply["destructor"] /\ failed \subseteq failed' /\ life' = life
    BY <2>1 DEF IInv, TypeOK, HandleVerify, Answer, Users, botVars
  <2>3. \A d \in Users : reply'[d].path = "broken" => reply[d].path = "broken" \/ "lost" \in failed'
    BY Shapes DEF IInv, TypeOK, HandleVerify, Answer
  <2>. QED BY <2>2, <2>3 DEF IInv, FailureInv, TerminatesOnlyOnFailure
<1>. QED BY <1>1, <1>2, <1>3, <1>4, <1>5, <1>6, <1>7, <1>8, <1>9, <1>10 DEF IInv

\* The server closes a session: then it is the bot's, and no other release of it
\* can be accepted.
LEMMA HandleReleaseStep ==
  ASSUME IInv, NEW c \in Users, HandleRelease(c)
  PROVE  IInv'
<1>1. TypeOK'
  <2>1. /\ request' \in [Users -> Requests] /\ reply' \in [Users -> Replies]
        /\ failed' \subseteq {"rejected", "unsent", "lost"}
    BY AnswerType, Shapes DEF IInv, HandleRelease
  <2>. QED BY <2>1 DEF IInv, TypeOK, HandleRelease, botVars
<1>2. Wire'
  BY Shapes
     DEF IInv, Wire, TypeOK, HandleRelease, Answer, Releasable, Usable, Suspended, Users,
         botVars
<1>3. AuthPhase'
  BY DEF IInv, AuthPhase, TypeOK, Wire, HandleRelease, Answer, Releasable, Usable, Suspended,
         Authorizing, Users, authorized, botVars
<1>4. VerifyPhase'
  BY SessionAssumption
     DEF IInv, VerifyPhase, TypeOK, Wire, AuthPhase, ReleasePhase, HandleRelease, Answer,
         Releasable, Usable, Suspended, Authorizing, Released, Users, authorized, botVars
<1>5. ReleasePhase'
  BY Shapes
     DEF IInv, ReleasePhase, TypeOK, BoundInv, HandleRelease, Answer, Releasable, Usable,
         Released, Users, authorized, botVars
<1>6. IdentityCoherent'
  BY DEF IInv, IdentityCoherent, TypeOK, HandleRelease, Answer, Releasable, Usable, Users,
         authorized, botVars
<1>7. BoundInv'
  BY DEF IInv, BoundInv, TypeOK, Wire, HandleRelease, Answer, Releasable, Usable, Suspended,
         Users, authorized, botVars
<1>8. LiveInv'
  BY Shapes
     DEF IInv, LiveInv, TypeOK, Wire, HandleRelease, Answer, Releasable, Usable, Suspended,
         Released, Users, authorized, botVars
<1>9. DestroyInv'
  BY Shapes
     DEF IInv, DestroyInv, TypeOK, HandleRelease, Answer, Releasable, Usable, Suspended, Users,
         authorized, botVars
<1>10. FailureInv'
  BY Shapes
     DEF IInv, FailureInv, TypeOK, Wire, IdentityCoherent, LiveInv, DestroyInv, HandleRelease,
         Answer, Releasable, Usable, TerminatesOnlyOnFailure, Suspended, Released, Users,
         authorized, botVars
<1>. QED BY <1>1, <1>2, <1>3, <1>4, <1>5, <1>6, <1>7, <1>8, <1>9, <1>10 DEF IInv

\* The server answers a keyed request.
LEMMA HandleApiStep ==
  ASSUME IInv, NEW c \in Users, HandleApi(c)
  PROVE  IInv'
<1>1. TypeOK'
  <2>1. (IF Usable(request[c]) THEN Accept ELSE Reject) \in Replies
    BY Shapes
  <2>. QED BY <2>1, AnswerType DEF IInv, TypeOK, HandleApi, botVars
<1>2. Wire'
  BY Shapes DEF IInv, Wire, TypeOK, HandleApi, Answer, Suspended, Users, botVars
<1>3. AuthPhase'
  BY DEF IInv, AuthPhase, TypeOK, Wire, HandleApi, Answer, Suspended, Authorizing, Users,
         authorized, botVars
<1>4. VerifyPhase'
  BY DEF IInv, VerifyPhase, TypeOK, Wire, HandleApi, Answer, Suspended, Users, botVars
<1>5. ReleasePhase'
  BY Shapes
     DEF IInv, ReleasePhase, TypeOK, Wire, HandleApi, Answer, Suspended, Released, Users,
         authorized, botVars
<1>6. IdentityCoherent'
  BY DEF IInv, IdentityCoherent, HandleApi, Answer, authorized, botVars
<1>7. BoundInv'
  BY DEF IInv, BoundInv, TypeOK, Wire, HandleApi, Answer, Suspended, Users, authorized, botVars
<1>8. LiveInv'
  BY DEF IInv, LiveInv, TypeOK, Wire, HandleApi, Answer, Suspended, Released, Users, authorized,
         botVars
<1>9. DestroyInv'
  BY Shapes DEF IInv, DestroyInv, HandleApi, Answer, Suspended, authorized, botVars
<1>10. FailureInv'
  <2>1. c # "destructor"
    BY Shapes DEF IInv, TypeOK, Wire, DestroyInv, HandleApi, Suspended, Users
  <2>2. reply'["destructor"] = reply["destructor"] /\ failed \subseteq failed' /\ life' = life
    BY <2>1 DEF IInv, TypeOK, HandleApi, Answer, Users, botVars
  <2>3. \A d \in Users : reply'[d].path = "broken" => reply[d].path = "broken" \/ "lost" \in failed'
    BY Shapes DEF IInv, TypeOK, HandleApi, Answer
  <2>. QED BY <2>2, <2>3 DEF IInv, FailureInv, TerminatesOnlyOnFailure
<1>. QED BY <1>1, <1>2, <1>3, <1>4, <1>5, <1>6, <1>7, <1>8, <1>9, <1>10 DEF IInv

\* The server refuses an authorization.
LEMMA HandleRejectStep ==
  ASSUME IInv, NEW c \in Users, HandleReject(c)
  PROVE  IInv'
<1>1. TypeOK'
  BY Shapes, AnswerType DEF IInv, TypeOK, HandleReject, botVars
<1>2. Wire'
  BY Shapes DEF IInv, Wire, TypeOK, HandleReject, Answer, Suspended, Users, botVars
<1>3. AuthPhase'
  BY Shapes
     DEF IInv, AuthPhase, TypeOK, HandleReject, Answer, Authorizing, Users, authorized, botVars
<1>4. VerifyPhase'
  BY Shapes DEF IInv, VerifyPhase, TypeOK, HandleReject, Answer, Users, botVars
<1>5. ReleasePhase'
  BY Shapes
     DEF IInv, ReleasePhase, TypeOK, HandleReject, Answer, Released, Users, authorized, botVars
<1>6. IdentityCoherent'
  BY DEF IInv, IdentityCoherent, HandleReject, Answer, authorized, botVars
<1>7. BoundInv'
  BY DEF IInv, BoundInv, TypeOK, Wire, HandleReject, Answer, Suspended, Users, authorized,
         botVars
<1>8. LiveInv'
  BY DEF IInv, LiveInv, TypeOK, Wire, HandleReject, Answer, Suspended, Released, Users,
         authorized, botVars
<1>9. DestroyInv'
  BY Shapes DEF IInv, DestroyInv, HandleReject, Answer, Suspended, authorized, botVars
<1>10. FailureInv'
  <2>1. c # "destructor"
    BY Shapes DEF IInv, TypeOK, Wire, DestroyInv, HandleReject, Suspended, Users
  <2>2. reply'["destructor"] = reply["destructor"] /\ failed \subseteq failed' /\ life' = life
    BY <2>1 DEF IInv, TypeOK, HandleReject, Answer, Users, botVars
  <2>3. \A d \in Users : reply'[d].path = "broken" => reply[d].path = "broken" \/ "lost" \in failed'
    BY Shapes DEF IInv, TypeOK, HandleReject, Answer
  <2>. QED BY <2>2, <2>3 DEF IInv, FailureInv, TerminatesOnlyOnFailure
<1>. QED BY <1>1, <1>2, <1>3, <1>4, <1>5, <1>6, <1>7, <1>8, <1>9, <1>10 DEF IInv

\* A connection cannot be made.
LEMMA UnsentStep ==
  ASSUME IInv, NEW c \in Users, Unsent(c)
  PROVE  IInv'
<1>1. TypeOK'
  BY Shapes DEF IInv, TypeOK, Unsent, Users, botVars
<1>2. Wire'
  BY Shapes DEF IInv, Wire, TypeOK, Unsent, Suspended, Users, botVars
<1>3. AuthPhase'
  BY DEF IInv, AuthPhase, Unsent, Authorizing, Users, authorized, botVars
<1>4. VerifyPhase'
  BY Shapes DEF IInv, VerifyPhase, Unsent, Users, botVars
<1>5. ReleasePhase'
  BY Shapes DEF IInv, ReleasePhase, Unsent, Released, Users, authorized, botVars
<1>6. IdentityCoherent'
  BY DEF IInv, IdentityCoherent, Unsent, authorized, botVars
<1>7. BoundInv'
  BY Shapes DEF IInv, BoundInv, TypeOK, Wire, Unsent, Suspended, Users, authorized, botVars
<1>8. LiveInv'
  BY Shapes
     DEF IInv, LiveInv, TypeOK, Wire, Unsent, Suspended, Released, Users, authorized, botVars
<1>9. DestroyInv'
  BY Shapes DEF IInv, DestroyInv, Unsent, Suspended, authorized, botVars
<1>10. FailureInv'
  <2>1. "unsent" \in failed'
    BY DEF Unsent
  <2>2. reply'["destructor"].path = "error" => "lost" \in failed'
    BY Shapes DEF IInv, TypeOK, FailureInv, Unsent, Users
  <2>. QED BY <2>1, <2>2 DEF FailureInv, TerminatesOnlyOnFailure
<1>. QED BY <1>1, <1>2, <1>3, <1>4, <1>5, <1>6, <1>7, <1>8, <1>9, <1>10 DEF IInv

\* The authorization stores its key: the bot is not authorized, so no release that
\* can be accepted is under way.
LEMMA AuthReplyStep ==
  ASSUME IInv, NEW c \in Users, AuthReply(c)
  PROVE  IInv'
<1>1. TypeOK'
  <2>1. reply[c].key \in Keys /\ account[c] \in Accounts
    BY DEF IInv, AuthPhase, Authorizing, AuthReply, Replied
  <2>2. verify_body(reply[c].key, account[c]) \in Requests
    BY <2>1, Shapes
  <2>. QED BY <2>1, <2>2, Shapes
       DEF IInv, TypeOK, AuthReply, Take, http_request, serverVars
<1>2. Wire'
  BY Shapes
     DEF IInv, Wire, TypeOK, AuthReply, Replied, Take, http_request, verify_body, Suspended,
         Users, serverVars
<1>3. AuthPhase'
  BY DEF IInv, AuthPhase, TypeOK, AuthReply, Replied, Take, http_request, verify_body,
         Authorizing, Users, authorized, serverVars
<1>4. VerifyPhase'
  BY Shapes
     DEF IInv, VerifyPhase, TypeOK, AuthPhase, AuthReply, Replied, Take, http_request,
         verify_body, Authorizing, Users, authorized, serverVars
<1>5. ReleasePhase'
  BY DEF IInv, ReleasePhase, AuthPhase, AuthReply, Replied, Take, http_request, verify_body,
         Authorizing, Released, Users, authorized, serverVars
<1>6. IdentityCoherent'
  BY DEF IInv, IdentityCoherent, AuthPhase, AuthReply, Replied, Take, http_request, verify_body,
         Authorizing, Users, authorized, serverVars
<1>7. BoundInv'
  BY DEF IInv, BoundInv, AuthPhase, AuthReply, Replied, Take, http_request, verify_body,
         Authorizing, Users, authorized, serverVars
<1>8. LiveInv'
  BY DEF IInv, LiveInv, AuthPhase, AuthReply, Replied, Take, http_request, verify_body,
         Authorizing, Released, Users, authorized, serverVars
<1>9. DestroyInv'
  BY DEF IInv, DestroyInv, Wire, AuthReply, Replied, Take, http_request, verify_body, Suspended,
         Users, authorized, serverVars
<1>10. FailureInv'
  BY Shapes
     DEF IInv, FailureInv, AuthReply, Replied, Take, http_request, verify_body,
         TerminatesOnlyOnFailure, Users, serverVars
<1>. QED BY <1>1, <1>2, <1>3, <1>4, <1>5, <1>6, <1>7, <1>8, <1>9, <1>10 DEF IInv

\* The authorization ends: the account is the one the key was bound to.
LEMMA VerifyReplyStep ==
  ASSUME IInv, NEW c \in Users, VerifyReply(c)
  PROVE  IInv'
<1>1. TypeOK'
  BY Shapes DEF IInv, TypeOK, VerifyReply, Replied, Take, Users, serverVars
<1>2. Wire'
  BY Shapes DEF IInv, Wire, TypeOK, VerifyReply, Replied, Take, Suspended, Users, serverVars
<1>3. AuthPhase'
  BY DEF IInv, AuthPhase, TypeOK, VerifyReply, Replied, Take, Authorizing, Users, authorized,
         serverVars
<1>4. VerifyPhase'
  BY DEF IInv, VerifyPhase, VerifyReply, Replied, Take, Users, serverVars
<1>5. ReleasePhase'
  BY DEF IInv, ReleasePhase, AuthPhase, VerifyReply, Replied, Take, Authorizing, Released,
         Users, authorized, serverVars
<1>6. IdentityCoherent'
  BY DEF IInv, IdentityCoherent, VerifyPhase, VerifyReply, Replied, Take, Users, authorized,
         serverVars
<1>7. BoundInv'
  BY SessionAssumption
     DEF IInv, BoundInv, AuthPhase, VerifyReply, Replied, Take, Authorizing, Users, authorized,
         serverVars
<1>8. LiveInv'
  BY DEF IInv, LiveInv, VerifyPhase, VerifyReply, Replied, Take, Released, Users, authorized,
         serverVars
<1>9. DestroyInv'
  BY DEF IInv, DestroyInv, Wire, VerifyReply, Replied, Take, Suspended, Users, authorized,
         serverVars
<1>10. FailureInv'
  BY Shapes
     DEF IInv, FailureInv, VerifyReply, Replied, Take, TerminatesOnlyOnFailure, Users,
         serverVars
<1>. QED BY <1>1, <1>2, <1>3, <1>4, <1>5, <1>6, <1>7, <1>8, <1>9, <1>10 DEF IInv

\* The members are reset by the only release that was accepted.
LEMMA ReleaseReplyStep ==
  ASSUME IInv, NEW c \in Users, ReleaseReply(c)
  PROVE  IInv'
<1>1. TypeOK'
  BY Shapes DEF IInv, TypeOK, ReleaseReply, Replied, Take, Users, serverVars
<1>2. Wire'
  BY Shapes DEF IInv, Wire, TypeOK, ReleaseReply, Replied, Take, Suspended, Users, serverVars
<1>3. AuthPhase'
  BY DEF IInv, AuthPhase, ReleaseReply, Replied, Take, Authorizing, Users, authorized,
         serverVars
<1>4. VerifyPhase'
  BY DEF IInv, VerifyPhase, AuthPhase, ReleasePhase, ReleaseReply, Replied, Take, Authorizing,
         Released, Users, authorized, serverVars
<1>5. ReleasePhase'
  BY DEF IInv, ReleasePhase, TypeOK, ReleaseReply, Replied, Take, Released, Users, authorized,
         serverVars
<1>6. IdentityCoherent'
  BY DEF IInv, IdentityCoherent, ReleaseReply, Replied, Take, authorized, serverVars
<1>7. BoundInv'
  BY DEF IInv, BoundInv, ReleasePhase, ReleaseReply, Replied, Take, Released, Users, authorized,
         serverVars
<1>8. LiveInv'
  BY DEF IInv, LiveInv, ReleaseReply, Replied, Take, Released, Users, authorized, serverVars
<1>9. DestroyInv'
  BY DEF IInv, DestroyInv, TypeOK, Wire, ReleaseReply, Replied, Take, Suspended, Users,
         authorized, serverVars
<1>10. FailureInv'
  BY Shapes
     DEF IInv, FailureInv, ReleaseReply, Replied, Take, TerminatesOnlyOnFailure, Users,
         serverVars
<1>. QED BY <1>1, <1>2, <1>3, <1>4, <1>5, <1>6, <1>7, <1>8, <1>9, <1>10 DEF IInv

\* The reply to a keyed request changes nothing.
LEMMA ApiReplyStep ==
  ASSUME IInv, NEW c \in Users, ApiReply(c)
  PROVE  IInv'
<1>1. TypeOK'
  BY Shapes DEF IInv, TypeOK, ApiReply, Replied, Take, Users, botVars, serverVars
<1>2. Wire'
  BY Shapes
     DEF IInv, Wire, TypeOK, ApiReply, Replied, Take, Suspended, Users, botVars, serverVars
<1>3. AuthPhase'
  BY DEF IInv, AuthPhase, ApiReply, Replied, Take, Authorizing, Users, authorized, botVars,
         serverVars
<1>4. VerifyPhase'
  BY DEF IInv, VerifyPhase, ApiReply, Replied, Take, Users, botVars, serverVars
<1>5. ReleasePhase'
  BY DEF IInv, ReleasePhase, ApiReply, Replied, Take, Released, Users, authorized, botVars,
         serverVars
<1>6. IdentityCoherent'
  BY DEF IInv, IdentityCoherent, ApiReply, Replied, Take, authorized, botVars, serverVars
<1>7. BoundInv'
  BY DEF IInv, BoundInv, ApiReply, Replied, Take, Users, authorized, botVars, serverVars
<1>8. LiveInv'
  BY DEF IInv, LiveInv, ApiReply, Replied, Take, Released, Users, authorized, botVars,
         serverVars
<1>9. DestroyInv'
  BY DEF IInv, DestroyInv, ApiReply, Replied, Take, Suspended, authorized, botVars, serverVars
<1>10. FailureInv'
  BY Shapes
     DEF IInv, FailureInv, ApiReply, Replied, Take, TerminatesOnlyOnFailure, Users, botVars,
         serverVars
<1>. QED BY <1>1, <1>2, <1>3, <1>4, <1>5, <1>6, <1>7, <1>8, <1>9, <1>10 DEF IInv

\* A call fails and leaves the members alone.
LEMMA ThrowsStep ==
  ASSUME IInv, NEW c \in Users, get_checked_response_json_throws(c)
  PROVE  IInv'
<1>1. TypeOK'
  BY Shapes
     DEF IInv, TypeOK, get_checked_response_json_throws, Take, Suspended, Users, serverVars
<1>2. Wire'
  BY Shapes
     DEF IInv, Wire, TypeOK, get_checked_response_json_throws, Take, Suspended, Users,
         serverVars
<1>3. AuthPhase'
  BY DEF IInv, AuthPhase, TypeOK, get_checked_response_json_throws, Take, Suspended,
         Authorizing, Users, authorized, serverVars
<1>4. VerifyPhase'
  BY DEF IInv, VerifyPhase, TypeOK, get_checked_response_json_throws, Take, Suspended, Users,
         serverVars
<1>5. ReleasePhase'
  BY DEF IInv, ReleasePhase, TypeOK, get_checked_response_json_throws, Take, Suspended,
         Released, Users, authorized, serverVars
<1>6. IdentityCoherent'
  BY DEF IInv, IdentityCoherent, get_checked_response_json_throws, Take, Suspended, authorized,
         serverVars
<1>7. BoundInv'
  BY DEF IInv, BoundInv, get_checked_response_json_throws, Take, Suspended, Users, authorized,
         serverVars
<1>8. LiveInv'
  BY DEF IInv, LiveInv, get_checked_response_json_throws, Take, Suspended, Released, Users,
         authorized, serverVars
<1>9. DestroyInv'
  BY DEF IInv, DestroyInv, TypeOK, get_checked_response_json_throws, Take, Suspended, Users,
         authorized, serverVars
<1>10. FailureInv'
  BY Shapes
     DEF IInv, FailureInv, get_checked_response_json_throws, Take, TerminatesOnlyOnFailure,
         Suspended, Users, serverVars
<1>. QED BY <1>1, <1>2, <1>3, <1>4, <1>5, <1>6, <1>7, <1>8, <1>9, <1>10 DEF IInv

\* The destructor starts when no call is in progress.
LEMMA DestroyStep ==
  ASSUME IInv, Destroy
  PROVE  IInv'
<1>1. TypeOK'
  BY Shapes
     DEF IInv, TypeOK, Destroy, http_request, release_body, Suspended, Users, authorized,
         serverVars
<1>2. Wire'
  BY DEF IInv, Wire, TypeOK, DestroyInv, Destroy, http_request, release_body, Suspended, Users,
         authorized, serverVars
<1>3. AuthPhase'
  BY DEF IInv, AuthPhase, TypeOK, Destroy, http_request, release_body, Suspended, Authorizing,
         Users, authorized, serverVars
<1>4. VerifyPhase'
  BY DEF IInv, VerifyPhase, TypeOK, Destroy, http_request, release_body, Suspended, Users,
         authorized, serverVars
<1>5. ReleasePhase'
  BY DEF IInv, ReleasePhase, TypeOK, Wire, IdentityCoherent, DestroyInv, Destroy, http_request,
         release_body, Suspended, Released, Users, authorized, serverVars
<1>6. IdentityCoherent'
  BY DEF IInv, IdentityCoherent, Destroy, http_request, release_body, Suspended, authorized,
         serverVars
<1>7. BoundInv'
  BY DEF IInv, BoundInv, Destroy, http_request, release_body, Suspended, Users, authorized,
         serverVars
<1>8. LiveInv'
  BY DEF IInv, LiveInv, TypeOK, Destroy, http_request, release_body, Suspended, Released, Users,
         authorized, serverVars
<1>9. DestroyInv'
  BY SessionAssumption
     DEF IInv, DestroyInv, TypeOK, Destroy, http_request, release_body, Suspended, Users,
         authorized, serverVars
<1>10. FailureInv'
  BY DEF IInv, FailureInv, Destroy, http_request, release_body, TerminatesOnlyOnFailure,
         Suspended, Users, authorized, serverVars
<1>. QED BY <1>1, <1>2, <1>3, <1>4, <1>5, <1>6, <1>7, <1>8, <1>9, <1>10 DEF IInv

\* The invariant holds at the start ...
LEMMA Start ==
  Init => IInv
<1>. SUFFICES ASSUME Init PROVE IInv
  OBVIOUS
<1>1. \A c \in Users : request[c] = None /\ reply[c] = None /\ pc[c] = "idle"
  BY DEF Init
<1>2. None.path = "none"
  BY Shapes
<1>3. TypeOK
  BY Shapes DEF Init, TypeOK
<1>4. Wire /\ AuthPhase /\ VerifyPhase /\ ReleasePhase
  BY <1>1, <1>2 DEF Wire, AuthPhase, VerifyPhase, ReleasePhase, Authorizing, Released, Suspended
<1>5. IdentityCoherent /\ BoundInv /\ LiveInv
  BY DEF Init, IdentityCoherent, BoundInv, LiveInv, authorized
<1>6. DestroyInv /\ FailureInv
  BY <1>1, <1>2 DEF Init, DestroyInv, FailureInv, TerminatesOnlyOnFailure, Suspended, Users
<1>. QED BY <1>3, <1>4, <1>5, <1>6 DEF IInv

\* ... and every step keeps it ...
LEMMA Step ==
  ASSUME ~Overlap, IInv, [Next]_vars
  PROVE  IInv'
<1>1. ASSUME NEW c \in Calls, Program(c) PROVE IInv'
  BY <1>1, ~Overlap, AuthorizeStep, AuthorizeRefusedStep, ReleaseStep, KeyedStep
     DEF Program, Query, Fetch, Command, Settings
<1>2. ASSUME NEW c \in Users, Server(c) PROVE IInv'
  BY <1>2, HandleAuthStep, HandleVerifyStep, HandleReleaseStep, HandleApiStep,
     HandleRejectStep, UnsentStep DEF Server
<1>3. ASSUME NEW c \in Users, Continue(c) PROVE IInv'
  BY <1>3, AuthReplyStep, VerifyReplyStep, ReleaseReplyStep, ApiReplyStep,
     ThrowsStep DEF Continue
<1>4. CASE Destroy
  BY <1>4, DestroyStep
<1>5. CASE UNCHANGED vars
  BY <1>5 DEF vars, botVars, serverVars, IInv, TypeOK, Wire, AuthPhase, VerifyPhase, ReleasePhase,
     IdentityCoherent, BoundInv, LiveInv, DestroyInv, FailureInv, TerminatesOnlyOnFailure,
     Authorizing, Released, Suspended, authorized
<1>. QED BY <1>1, <1>2, <1>3, <1>4, <1>5 DEF Next

\* ... hence it always holds.
LEMMA Inductive ==
  ASSUME ~Overlap PROVE Spec => []IInv
<1>1. Init => IInv
  BY Start
<1>2. IInv /\ [Next]_vars => IInv'
  BY Step, ~Overlap
<1>. QED BY <1>1, <1>2, PTL DEF Spec

\* The variables of the session always have their types.
THEOREM SessionTypeCorrect ==
  ASSUME ~Overlap PROVE Spec => []TypeOK
<1>1. IInv => TypeOK
  BY DEF IInv
<1>. QED BY <1>1, Inductive, ~Overlap, PTL

\* id() never reports an account that the key of the bot is not bound to, whatever
\* overlaps the calls of authorize, release and the requests.
THEOREM IdentityCorrect ==
  ASSUME ~Overlap PROVE Spec => []IdentityCoherent
<1>1. IInv => IdentityCoherent
  BY DEF IInv
<1>. QED BY <1>1, Inductive, ~Overlap, PTL

\* The session of an authorized bot is alive unless a release is under way or a
\* reply was lost.
THEOREM LiveCorrect ==
  ASSUME ~Overlap PROVE Spec => []SessionLive
<1>1. IInv => SessionLive
  BY DEF IInv, LiveInv, SessionLive, Released
<1>. QED BY <1>1, Inductive, ~Overlap, PTL

\* ~Bot leaves no bound session behind unless a reply was lost.
THEOREM DestroyCorrect ==
  ASSUME ~Overlap PROVE Spec => []DestroyReleases
<1>1. ASSUME IInv, life = "destroyed", "lost" \notin failed, NEW k \in Keys
      PROVE session[k] # "bound"
  <2>1. ~authorized /\ pc["destructor"] # "verify" /\ \A c \in Calls : pc[c] # "verify"
    BY <1>1 DEF IInv, DestroyInv, Suspended
  <2>. QED BY <1>1, <2>1 DEF IInv, BoundInv, Users
<1>2. IInv => DestroyReleases
  BY <1>1 DEF DestroyReleases
<1>. QED BY <1>2, Inductive, ~Overlap, PTL

\* ~Bot ends the process only if a connection or a reply was lost: a rejection of
\* its release alone cannot happen.
THEOREM TerminationCorrect ==
  ASSUME ~Overlap PROVE Spec => []TerminatesOnlyOnFailure
<1>1. IInv => TerminatesOnlyOnFailure
  BY DEF IInv, FailureInv
<1>. QED BY <1>1, Inductive, ~Overlap, PTL

\* Only release resets the key, and only once the server has closed the session.
LEMMA ForgetStep ==
  ASSUME IInv, [Next]_vars, sess_key \in Keys, sess_key' = NoKey
  PROVE  session[sess_key] = "closed"
<1>1. sess_key' # sess_key
  BY SessionAssumption
<1>2. ASSUME NEW c \in Users, ReleaseReply(c) PROVE session[sess_key] = "closed"
  BY <1>2 DEF IInv, ReleasePhase, Released, ReleaseReply, Replied
<1>3. ASSUME NEW c \in Users PROVE ~AuthReply(c)
  BY SessionAssumption DEF IInv, AuthPhase, AuthReply, Replied
<1>4. ASSUME NEW c \in Users, Server(c) PROVE sess_key' = sess_key
  BY <1>4 DEF Server, HandleAuth, HandleVerify, HandleRelease, HandleApi, HandleReject, Unsent,
              botVars
<1>5. ASSUME NEW c \in Calls, Program(c) PROVE sess_key' = sess_key
  BY <1>5 DEF Program, Authorize, AuthorizeRefused, Release, Query, Fetch, Command, Settings,
              Keyed, botVars
<1>6. ASSUME NEW c \in Users, VerifyReply(c) \/ ApiReply(c) \/ get_checked_response_json_throws(c)
      PROVE sess_key' = sess_key
  BY <1>6 DEF VerifyReply, ApiReply, get_checked_response_json_throws, botVars
<1>7. Destroy \/ UNCHANGED vars => sess_key' = sess_key
  BY DEF Destroy, vars, botVars
<1>. QED BY <1>1, <1>2, <1>3, <1>4, <1>5, <1>6, <1>7 DEF Next, Continue

\* The late reply to a release never makes the bot forget a session that is not
\* closed.
THEOREM ForgetsCorrect ==
  ASSUME ~Overlap PROVE Spec => ForgetsOnlyClosed
<1>1. IInv /\ [Next]_vars =>
        [(sess_key \in Keys /\ sess_key' = NoKey) => (session[sess_key] = "closed")]_vars
  BY ForgetStep
<1>. QED BY <1>1, Inductive, ~Overlap, PTL DEF Spec, ForgetsOnlyClosed

\* Unless a reply was lost, the only bound session is the one the bot holds.
THEOREM NoLeakCorrect ==
  ASSUME ~Overlap PROVE Spec => []NoSessionLeaked
<1>1. IInv => NoSessionLeaked
  BY DEF IInv, BoundInv, NoSessionLeaked
<1>. QED BY <1>1, Inductive, ~Overlap, PTL

\* The members change only while the bot is not authorized, or to become empty.
LEMMA StableStep ==
  ASSUME IInv, [Next]_vars, authorized, authorized'
  PROVE  UNCHANGED <<bot_id, sess_key>>
<1>1. ASSUME NEW c \in Users PROVE ~AuthReply(c) /\ ~VerifyReply(c)
  BY DEF IInv, AuthPhase, Authorizing, AuthReply, VerifyReply, Replied
<1>2. ASSUME NEW c \in Users PROVE ~ReleaseReply(c)
  BY DEF ReleaseReply, authorized
<1>3. ASSUME NEW c \in Users, Server(c) PROVE UNCHANGED <<bot_id, sess_key>>
  BY <1>3 DEF Server, HandleAuth, HandleVerify, HandleRelease, HandleApi, HandleReject, Unsent,
              botVars
<1>4. ASSUME NEW c \in Calls, Program(c) PROVE UNCHANGED <<bot_id, sess_key>>
  BY <1>4 DEF Program, Authorize, AuthorizeRefused, Release, Query, Fetch, Command, Settings,
              Keyed, botVars
<1>5. ASSUME NEW c \in Users, ApiReply(c) \/ get_checked_response_json_throws(c)
      PROVE UNCHANGED <<bot_id, sess_key>>
  BY <1>5 DEF ApiReply, get_checked_response_json_throws, botVars
<1>6. Destroy \/ UNCHANGED vars => UNCHANGED <<bot_id, sess_key>>
  BY DEF Destroy, vars, botVars
<1>. QED BY <1>1, <1>2, <1>3, <1>4, <1>5, <1>6 DEF Next, Continue

\* An authorized bot keeps its account and its key until it is released.
THEOREM StableCorrect ==
  ASSUME ~Overlap PROVE Spec => SessionStable
<1>1. IInv /\ [Next]_vars =>
        [authorized /\ authorized' => UNCHANGED <<bot_id, sess_key>>]_vars
  BY StableStep
<1>. QED BY <1>1, Inductive, ~Overlap, PTL DEF Spec, SessionStable
=============================================================================
