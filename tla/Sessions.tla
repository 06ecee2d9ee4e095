------------------------------- MODULE Sessions -------------------------------
(***************************************************************************)
(* The session of one browser and what the blog keeps in it: the user who  *)
(* logged in, the captcha shown, the visitor who solved one.               *)
(*                                                                         *)
(* session_interface loads the session when a request begins and saves it  *)
(* when the headers of the response are written.  session_dual keeps it in *)
(* a cookie, or in a file on the server when a captcha is in it, which the *)
(* visitor must not read (session.location is "both").  The browser may    *)
(* have several requests under way; each has the cookie of the time when   *)
(* it was sent.                                                            *)
(***************************************************************************)
EXTENDS Naturals, FiniteSets

CONSTANTS Requests,     \* requests of the browser at the same time
          Users,        \* users of the blog, as numbers above 0
          Codes,        \* captcha codes, numbers above 0; each is made once
          Sids,         \* session ids; each is made once
          Timeout,      \* session.timeout
          MaxTime, MaxCrashes, MaxLost,  \* bounds
          None          \* no file, no cookie

ASSUME NumbersAssumption == /\ Users \subseteq Nat \ {0} /\ Codes \subseteq Nat \ {0}
                            /\ Timeout \in Nat \ {0} /\ MaxTime \in Nat
                            /\ MaxCrashes \in Nat /\ MaxLost \in Nat /\ Users # {}

VARIABLES jar,          \* the cookie of the browser
          files,        \* the session files of the server
          users,        \* the table
          pc,
          cookie,       \* the cookie that came with the request
          data, copy,   \* data_ and data_copy_
          timeout_in,   \* when the loaded session expires
          on_server, reset,
          answer,       \* the cookie of the response; None if it sets none
          now, crashes, lost,
          made,         \* history: captchas and session ids that were made
          used,         \* history: captchas that an answer was compared with
          anonymous,    \* history: session ids of sessions without a user
          left,         \* history: the session that the browser last got a cookie for
                        \* (or was told to drop it), and the time it was to last
          killed,       \* history: sessions that were being saved since then when the
                        \* process was killed
          together      \* history: requests were under way at the same time

request == <<cookie, data, copy, timeout_in, on_server, reset>>
history == <<made, used, anonymous, left, killed, together>>
vars == <<jar, files, users, pc, cookie, data, copy, timeout_in, on_server, reset, answer,
          now, crashes, lost, made, used, anonymous, left, killed, together>>

(* srv is the key "_s", fixed the keys "_h" and "_t". *)
Empty == [lang |-> FALSE, user |-> 0, captcha |-> 0, visitor |-> FALSE,
          srv |-> FALSE, fixed |-> FALSE]
NoCookie == [kind |-> "none"]

Session == [lang: BOOLEAN, user: Users \cup {0}, captcha: Codes \cup {0}, visitor: BOOLEAN,
            srv: BOOLEAN, fixed: BOOLEAN]
File == [expires: Nat, header: Session, body: Session]
IdCookie == [kind: {"I"}, sid: Sids, expires: Nat]
Cookie == {NoCookie} \cup [kind: {"C"}, data: Session, expires: Nat] \cup IdCookie
ASSUME NoneAssumption == None \notin File \cup Cookie

Goes(r, from, to) == pc[r] = from /\ pc' = [pc EXCEPT ![r] = to]
Set(f, r, v) == [f EXCEPT ![r] = v]

-----------------------------------------------------------------------------
(* session_file_storage, under the lock of the session id.  A file has a   *)
(* header, with the time and the sum of the data, and the data; a file     *)
(* whose data does not match is as good as none.                           *)
ReadableAnySum(f) == f # None /\ f.expires >= now  \* variant that does not compare the sum
Readable(f) == f # None /\ f.expires >= now /\ f.header = f.body

Without(c) == IF c.kind = "I" THEN Set(files, c.sid, None) ELSE files

(* session_cookies::load and session_sid::load, as session_dual::load      *)
(* chooses between them; a file that cannot be read is deleted.            *)
NotFound == [data |-> Empty, expires |-> 0]
InCookie == IF jar.expires >= now THEN [data |-> jar.data, expires |-> jar.expires] ELSE NotFound
InFile(f) == IF Readable(f) THEN [data |-> f.body, expires |-> f.expires] ELSE NotFound
Found == CASE jar.kind = "C" -> InCookie [] jar.kind = "I" -> InFile(files[jar.sid])
           [] jar.kind = "none" -> NotFound
Load(r) ==
    /\ Goes(r, "idle", "loaded")
    /\ cookie' = Set(cookie, r, jar)
    /\ data' = Set(data, r, Found.data) /\ copy' = Set(copy, r, Found.data)
    /\ timeout_in' = Set(timeout_in, r, Found.expires)
    /\ on_server' = Set(on_server, r, Found.data.srv)
    /\ files' = IF Found = NotFound THEN Without(jar) ELSE files
    /\ reset' = Set(reset, r, FALSE)
    /\ together' = (together \/ \E q \in Requests : pc[q] # "idle")
    /\ UNCHANGED <<jar, users, answer, now, crashes, lost, made, used, anonymous, left, killed>>

-----------------------------------------------------------------------------
(* What the applications do.  Before any of them main() sets the language. *)
Begun(r) == [data[r] EXCEPT !.lang = TRUE]
Handled(r, d) == Goes(r, "loaded", "save") /\ data' = Set(data, r, d)
Same == <<jar, files, cookie, copy, timeout_in, answer, now, crashes, lost, anonymous, left,
          killed, together>>

View(r) == Handled(r, Begun(r)) /\ UNCHANGED <<Same, users, on_server, reset, made, used>>

(* captcha::main *)
Captcha(r) ==
    /\ \E c \in Codes \ made :
         /\ Handled(r, [Begun(r) EXCEPT !.captcha = c, !.srv = TRUE])
         /\ made' = made \cup {c}
    /\ on_server' = Set(on_server, r, TRUE)
    /\ UNCHANGED <<Same, users, reset, used>>

(* comment_form::validate.  A wrong answer clears the session, a right one *)
(* makes the visitor known and the session one of the client again.        *)
Known(r) == data[r].user # 0 \/ data[r].visitor
CommentRight(r) ==
    /\ ~Known(r) /\ data[r].captcha # 0
    /\ Handled(r, [Begun(r) EXCEPT !.visitor = TRUE, !.srv = FALSE, !.fixed = TRUE])
    /\ on_server' = Set(on_server, r, FALSE)
    /\ used' = used \cup {data[r].captcha}
    /\ UNCHANGED <<Same, users, reset, made>>
CommentWrongKept(r) ==  \* variant that keeps the session after a wrong answer
    /\ ~Known(r)
    /\ Handled(r, Begun(r))
    /\ used' = used \cup {data[r].captcha}
    /\ UNCHANGED <<Same, users, on_server, reset, made>>
CommentWrong(r) ==
    /\ ~Known(r)
    /\ Handled(r, Empty)
    /\ used' = used \cup {data[r].captcha}
    /\ UNCHANGED <<Same, users, on_server, reset, made>>

(* users::prepare: the login form, which also logs out, and the login. *)
LoginForm(r) ==
    /\ Handled(r, Empty)
    /\ reset' = Set(reset, r, TRUE)
    /\ UNCHANGED <<Same, users, on_server, made, used>>
LoginKeepsId(r) ==  \* variant without reset_session
    /\ \E u \in users : Handled(r, [Empty EXCEPT !.user = u])
    /\ UNCHANGED <<Same, users, on_server, reset, made, used>>
Login(r) ==
    /\ \E u \in users : Handled(r, [Empty EXCEPT !.user = u])
    /\ reset' = Set(reset, r, TRUE)
    /\ UNCHANGED <<Same, users, on_server, made, used>>

(* users::add and users::del, behind the gate of admin_master::main. *)
AddUser(r) ==
    /\ data[r].user # 0
    /\ \E u \in Users \ users : users' = users \cup {u}
    /\ Handled(r, Begun(r))
    /\ UNCHANGED <<Same, on_server, reset, made, used>>
DelUser(r) ==
    /\ data[r].user # 0
    /\ \E u \in users \ {data[r].user} : users' = users \ {u}
    /\ Handled(r, Begun(r))
    /\ UNCHANGED <<Same, on_server, reset, made, used>>

-----------------------------------------------------------------------------
(* session_interface::save *)
NewSession(r) == reset[r] \/ (copy[r] = Empty /\ data[r] # Empty)
Fixed(r) == copy[r].fixed \/ data[r].fixed
session_age(r) == IF Fixed(r) /\ ~NewSession(r) THEN timeout_in[r] ELSE now + Timeout
UntouchedIfOld(r) == ~NewSession(r)  \* variant that does not compare the data
Untouched(r) == data[r] = copy[r] /\ ~NewSession(r)
(* A session that is renewed is saved again after a tenth of its time,     *)
(* which is less than one step of the clock.                               *)
UpToDate(r) == Fixed(r) \/ now + Timeout - timeout_in[r] = 0

SaveEmpty(r) ==
    /\ data[r] = Empty
    /\ Goes(r, "save", "reply")
    /\ files' = Without(cookie[r])
    /\ answer' = Set(answer, r, IF cookie[r].kind = "none" THEN None ELSE NoCookie)
    /\ UNCHANGED <<jar, users, request, now, crashes, lost, history>>

SaveNothing(r) ==
    /\ data[r] # Empty /\ Untouched(r) /\ UpToDate(r)
    /\ Goes(r, "save", "reply")
    /\ answer' = Set(answer, r, None)
    /\ UNCHANGED <<jar, files, users, request, now, crashes, lost, history>>

Saves(r) == data[r] # Empty /\ ~(Untouched(r) /\ UpToDate(r))

(* session_dual::save: to the cookie, and away from the server. *)
SaveCookieLeaves(r) ==  \* variant that leaves the file
    /\ Saves(r) /\ ~on_server[r]
    /\ Goes(r, "save", "reply")
    /\ answer' = Set(answer, r, [kind |-> "C", data |-> data[r], expires |-> session_age(r)])
    /\ UNCHANGED <<jar, files, users, request, now, crashes, lost, history>>
SaveCookie(r) ==
    /\ Saves(r) /\ ~on_server[r]
    /\ Goes(r, "save", "reply")
    /\ files' = Without(cookie[r])
    /\ answer' = Set(answer, r, [kind |-> "C", data |-> data[r], expires |-> session_age(r)])
    /\ UNCHANGED <<jar, users, request, now, crashes, lost, history>>

(* session_sid::save: a new session gets a new id and the old file goes. *)
SaveId(r) ==
    /\ Saves(r) /\ on_server[r]
    /\ Goes(r, "save", "write")
    /\ \/ /\ cookie[r].kind = "I" /\ ~NewSession(r)
          /\ answer' = Set(answer, r, cookie[r])
          /\ UNCHANGED <<files, made>>
       \/ /\ cookie[r].kind # "I" \/ NewSession(r)
          /\ \E s \in Sids \ made :
               /\ answer' = Set(answer, r, [kind |-> "I", sid |-> s, expires |-> 0])
               /\ made' = made \cup {s}
          /\ files' = Without(cookie[r])
    /\ UNCHANGED <<jar, users, request, now, crashes, lost, used, anonymous, left,
                   killed, together>>

(* save_to_file: the header, then the data, over what was there. *)
SaveFile(r) ==
    /\ Goes(r, "write", "reply")
    /\ LET s == answer[r].sid
       IN /\ files' = Set(files, s, [expires |-> session_age(r), header |-> data[r], body |-> data[r]])
          /\ answer' = [answer EXCEPT ![r].expires = session_age(r)]
          /\ anonymous' = IF data[r].user = 0 THEN anonymous \cup {s} ELSE anonymous
    /\ UNCHANGED <<jar, users, request, now, crashes, lost, made, used, left, killed,
                   together>>

-----------------------------------------------------------------------------
Finish(r) == /\ cookie' = Set(cookie, r, NoCookie)
             /\ data' = Set(data, r, Empty) /\ copy' = Set(copy, r, Empty)
             /\ timeout_in' = Set(timeout_in, r, 0)
             /\ on_server' = Set(on_server, r, FALSE) /\ reset' = Set(reset, r, FALSE)
             /\ answer' = Set(answer, r, None)

(* The response arrives, in any order with others. *)
Reply(r) ==
    /\ Goes(r, "reply", "idle")
    /\ jar' = IF answer[r] = None THEN jar ELSE answer[r]
    /\ left' = IF answer[r] = None THEN left
               ELSE [data |-> data[r],
                     till |-> IF answer[r] = NoCookie THEN 0 ELSE answer[r].expires]
    /\ killed' = IF answer[r] = None THEN killed ELSE {}
    /\ Finish(r)
    /\ UNCHANGED <<files, users, now, crashes, lost, made, used, anonymous, together>>

ReplyLost(r) ==
    /\ lost < MaxLost /\ lost' = lost + 1
    /\ Goes(r, "reply", "idle")
    /\ Finish(r)
    /\ UNCHANGED <<jar, files, users, now, crashes, history>>

(* The process is killed, perhaps after the header and a part of the data: *)
(* they are written over what was there, so some of that may be left.      *)
Mixed(old, new) ==
    [lang: {old.lang, new.lang}, user: {old.user, new.user},
     captcha: {old.captcha, new.captcha}, visitor: {old.visitor, new.visitor},
     srv: {old.srv, new.srv}, fixed: {old.fixed, new.fixed}]
WrittenInPart(r) ==
    LET s == answer[r].sid
        old == IF files[s] = None THEN Empty ELSE files[s].body
    IN /\ \E d \in Mixed(old, data[r]) :
            files' = Set(files, s, [expires |-> session_age(r), header |-> data[r], body |-> d])
       /\ anonymous' = IF data[r].user = 0 THEN anonymous \cup {s} ELSE anonymous
Crash ==
    /\ crashes < MaxCrashes /\ crashes' = crashes + 1
    /\ \E r \in Requests : pc[r] # "idle"
    /\ \/ UNCHANGED <<files, anonymous>>
       \/ \E r \in Requests : pc[r] = "write" /\ WrittenInPart(r)
    /\ killed' = killed \cup {data[r] : r \in {q \in Requests : answer[q] # None}}
    /\ pc' = [r \in Requests |-> "idle"]
    /\ cookie' = [r \in Requests |-> NoCookie]
    /\ data' = [r \in Requests |-> Empty] /\ copy' = [r \in Requests |-> Empty]
    /\ timeout_in' = [r \in Requests |-> 0]
    /\ on_server' = [r \in Requests |-> FALSE] /\ reset' = [r \in Requests |-> FALSE]
    /\ answer' = [r \in Requests |-> None]
    /\ UNCHANGED <<jar, users, now, lost, made, used, left, together>>

(* session_file_storage::gc, the browser's own expiry, and the clock. *)
Gc ==
    /\ \E s \in Sids : /\ files[s] # None /\ files[s].expires < now
                       /\ files' = Set(files, s, None)
    /\ UNCHANGED <<jar, users, pc, request, answer, now, crashes, lost, history>>
Forget ==
    /\ jar.kind # "none" /\ jar.expires < now
    /\ jar' = NoCookie
    /\ UNCHANGED <<files, users, pc, request, answer, now, crashes, lost, history>>
Tick ==
    /\ now < MaxTime /\ now' = now + 1
    /\ UNCHANGED <<jar, files, users, pc, request, answer, crashes, lost, history>>

Init ==
    /\ jar = NoCookie /\ files = [s \in Sids |-> None]
    /\ users = {CHOOSE u \in Users : TRUE}
    /\ pc = [r \in Requests |-> "idle"]
    /\ cookie = [r \in Requests |-> NoCookie]
    /\ data = [r \in Requests |-> Empty] /\ copy = [r \in Requests |-> Empty]
    /\ timeout_in = [r \in Requests |-> 0]
    /\ on_server = [r \in Requests |-> FALSE] /\ reset = [r \in Requests |-> FALSE]
    /\ answer = [r \in Requests |-> None]
    /\ now = 0 /\ crashes = 0 /\ lost = 0
    /\ made = {} /\ used = {} /\ anonymous = {} /\ left = [data |-> Empty, till |-> 0]
    /\ killed = {} /\ together = FALSE

Handle(r) ==
    \/ View(r) \/ Captcha(r) \/ CommentRight(r) \/ CommentWrong(r)
    \/ LoginForm(r) \/ Login(r) \/ AddUser(r) \/ DelUser(r)
Save(r) == SaveEmpty(r) \/ SaveNothing(r) \/ SaveCookie(r) \/ SaveId(r) \/ SaveFile(r)

Next ==
    \/ \E r \in Requests : Load(r) \/ Handle(r) \/ Save(r) \/ Reply(r) \/ ReplyLost(r)
    \/ Crash \/ Gc \/ Forget \/ Tick

Spec == Init /\ [][Next]_vars

-----------------------------------------------------------------------------
(* No file of a session without a user is ever used for one with a user:   *)
(* after a login the session has another id, "to prevent session fixation",*)
(* whatever requests were under way.                                       *)
NewIdOnLogin == \A s \in anonymous : files[s] # None => files[s].body.user = 0

(* One request at a time: a captcha is compared with one answer.  A visitor*)
(* who was wrong has to solve another one, also when the response that     *)
(* told so was lost (but not if the process was killed before it saved).   *)
CaptchaOnce == \A r \in Requests :
    pc[r] = "loaded" /\ ~Known(r) /\ crashes = 0 /\ ~together =>
      data[r].captcha \notin used \ {0}

(* One request at a time: a request finds the session as the last one left *)
(* it, wherever it was kept, or none if its time is over.  After a process *)
(* was killed that had begun to save another, it may also find this one or *)
(* none, but never what was left of both.                                  *)
SessionKept == \A r \in Requests :
    pc[r] = "loaded" /\ lost = 0 /\ ~together =>
      \/ data[r] \in {left.data} \cup killed
      \/ data[r] = Empty /\ (left.till < now \/ killed # {})

(* One request at a time: no session file stays behind that the browser    *)
(* does not have the id of, but for those that gc will remove.             *)
NoFileLeft ==
    lost = 0 /\ crashes = 0 /\ ~together /\ (\A r \in Requests : pc[r] = "idle") =>
      \A s \in Sids : files[s] # None /\ files[s].expires >= now =>
        jar.kind = "I" /\ jar.sid = s

=============================================================================
