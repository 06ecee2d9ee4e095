---------------------------- MODULE SessionsProofs ----------------------------
(***************************************************************************)
(* Proofs about Sessions: for any number of requests, users, captchas and  *)
(* session ids, any time-out and any number of crashes and lost responses. *)
(***************************************************************************)
EXTENDS Sessions, TLAPS

Active(r) == pc[r] # "idle"

SessionTypeOK ==
    /\ jar \in Cookie /\ files \in [Sids -> File \cup {None}] /\ users \subseteq Users
    /\ pc \in [Requests -> {"idle", "loaded", "save", "write", "reply"}]
    /\ cookie \in [Requests -> Cookie]
    /\ data \in [Requests -> Session] /\ copy \in [Requests -> Session]
    /\ timeout_in \in [Requests -> Nat]
    /\ on_server \in [Requests -> BOOLEAN] /\ reset \in [Requests -> BOOLEAN]
    /\ answer \in [Requests -> Cookie \cup {None}]
    /\ now \in Nat /\ crashes \in Nat /\ lost \in Nat
    /\ anonymous \subseteq Sids /\ left \in [data: Session, till: Nat] /\ together \in BOOLEAN
    /\ \A r \in Requests : pc[r] = "write" => answer[r] \in IdCookie /\ data[r] # Empty
    /\ \A r \in Requests : pc[r] = "loaded" => data[r] = copy[r] /\ ~reset[r]

-----------------------------------------------------------------------------
(* A session id belongs to a session with a user or to one without, and    *)
(* stays so.                                                               *)
Holds(c, s) == c # None /\ c.kind = "I" /\ c.sid = s

FileOfOne(s) == files[s] # None =>
    /\ s \in made
    /\ s \in anonymous => files[s].body.user = 0
    /\ files[s].header = files[s].body => /\ files[s].body # Empty
                                          /\ files[s].body.user = 0 => s \in anonymous
NotYet(r, s) ==
    /\ s \notin anonymous /\ files[s] = None /\ ~Holds(jar, s)
    /\ \A q \in Requests : ~Holds(cookie[q], s) /\ (q # r => ~Holds(answer[q], s))
RequestOfOne(r) ==
    /\ Active(r) /\ cookie[r].kind = "I" /\ copy[r] # Empty =>
         (copy[r].user = 0 <=> cookie[r].sid \in anonymous)
    /\ pc[r] \in {"save", "write"} /\ ~NewSession(r) /\ data[r] # Empty => data[r].user = copy[r].user
    /\ pc[r] = "write" => \/ ~NewSession(r) /\ Holds(cookie[r], answer[r].sid)
                          \/ NotYet(r, answer[r].sid)
IdsMade == /\ anonymous \subseteq made
           /\ \A s \in Sids : Holds(jar, s) => s \in made
           /\ \A s \in Sids, r \in Requests : Holds(cookie[r], s) \/ Holds(answer[r], s) => s \in made
IdInv == /\ \A s \in Sids : FileOfOne(s)
         /\ \A r \in Requests : RequestOfOne(r)
         /\ IdsMade

-----------------------------------------------------------------------------
(* One request at a time, in a process that is not killed. *)
Calm == crashes = 0 /\ ~together

(* Captchas that were made; one that is not solved is on the server. *)
KnownBy(d) == d.user # 0 \/ d.visitor
Kept(d) == d.captcha \in made \cup {0} /\ (d.captcha # 0 => KnownBy(d) \/ d.srv)
CaptchasKept ==
    /\ used \subseteq made \cup {0}
    /\ \A s \in Sids : files[s] # None => Kept(files[s].header)
    /\ jar.kind = "C" => Kept(jar.data) /\ ~jar.data.srv
    /\ \A r \in Requests :
         /\ Kept(data[r]) /\ (data[r].srv => on_server[r])
         /\ answer[r] # None /\ answer[r].kind = "C" => Kept(answer[r].data) /\ ~answer[r].data.srv

(* What has a captcha that no answer was compared with. *)
Fresh(d) == KnownBy(d) \/ d.captcha \notin used \ {0}
FreshFile(c) == c # None /\ c.kind = "I" /\ files[c.sid] # None => Fresh(files[c.sid].body)
CaptchaOK(r) ==
    /\ pc[r] \in {"loaded", "save", "write"} => Fresh(data[r])
    /\ pc[r] = "loaded" => FreshFile(cookie[r])
    /\ pc[r] = "save" /\ data[r] = copy[r] /\ data[r] # Empty => FreshFile(cookie[r])
    /\ pc[r] = "write" => FreshFile(cookie[r]) \/ Holds(cookie[r], answer[r].sid)
    /\ pc[r] = "reply" => FreshFile(cookie[r]) /\ FreshFile(answer[r])
OneAtATime ==
    /\ \A q, r \in Requests : Active(q) /\ Active(r) => q = r
    /\ \A r \in Requests : Active(r) => jar = NoCookie \/ jar = cookie[r]
CaptchaInv ==
    /\ CaptchasKept
    /\ Calm => /\ OneAtATime
               /\ \A r \in Requests : CaptchaOK(r)
               /\ (\A r \in Requests : ~Active(r)) => FreshFile(jar)

-----------------------------------------------------------------------------
(* No response is lost either: the session is where the cookie says. *)
Still == Calm /\ lost = 0

Live(s) == files[s] # None /\ files[s].expires >= now
OnlyLive(c) == \A s \in Sids : Live(s) => Holds(c, s)

(* The session d that lasts until t is kept with the cookie c, as far as   *)
(* its time is not over.                                                   *)
KeptWith(c, d, t) ==
    /\ c # NoCookie => d # Empty
    /\ c = NoCookie => d = Empty \/ t < now
    /\ c.kind = "C" => c.data = d /\ c.expires = t
    /\ c.kind = "I" => /\ c.expires = t
                       /\ \/ files[c.sid] = None /\ t < now
                          \/ files[c.sid] = [expires |-> t, header |-> d, body |-> d]
(* What the request found. *)
FoundOK(r) ==
    /\ OnlyLive(cookie[r])
    /\ copy[r] # Empty => cookie[r] # NoCookie /\ KeptWith(cookie[r], copy[r], timeout_in[r])
    /\ copy[r] = Empty => \A s \in Sids : ~Live(s)
SessionOK(r) ==
    /\ Active(r) => jar = cookie[r] \/ (jar = NoCookie /\ cookie[r] # NoCookie /\ cookie[r].expires < now)
    /\ pc[r] \in {"loaded", "save"} => FoundOK(r)
    /\ pc[r] = "write" => OnlyLive(answer[r])
    /\ pc[r] = "reply" /\ answer[r] = None =>
         \/ FoundOK(r) /\ data[r] = copy[r] /\ data[r] # Empty
         \/ cookie[r] = NoCookie /\ data[r] = Empty /\ \A s \in Sids : ~Live(s)
    /\ pc[r] = "reply" /\ answer[r] = NoCookie => data[r] = Empty /\ \A s \in Sids : ~Live(s)
    /\ pc[r] = "reply" /\ answer[r] \notin {None, NoCookie} =>
         OnlyLive(answer[r]) /\ KeptWith(answer[r], data[r], answer[r].expires)
StillInv ==
    Still => /\ OneAtATime
             /\ \A r \in Requests : SessionOK(r)
             /\ (\A r \in Requests : ~Active(r)) => /\ OnlyLive(jar)
                                                   /\ KeptWith(jar, left.data, left.till)

-----------------------------------------------------------------------------
(* Cookies, sessions and files. *)

(* A cookie is of one of three kinds. *)
LEMMA CookieKinds ==
    ASSUME NEW c \in Cookie
    PROVE  /\ c.kind \in {"none", "C", "I"}
           /\ c = NoCookie <=> c.kind = "none"
           /\ c.kind = "C" => c.data \in Session /\ c.expires \in Nat
           /\ c.kind = "I" => c \in IdCookie /\ c.sid \in Sids /\ c.expires \in Nat
           /\ c # None
BY NoneAssumption DEF Cookie, IdCookie, NoCookie

(* A session with another value of one of its keys is a session. *)
LEMMA SessionKeys ==
    /\ Empty \in Session /\ Empty.user = 0 /\ Empty.captcha = 0 /\ ~Empty.visitor /\ ~Empty.srv
    /\ ~Empty.fixed
    /\ \A d \in Session : /\ d.user \in Users \cup {0} /\ d.captcha \in Codes \cup {0}
                          /\ d.lang \in BOOLEAN /\ d.visitor \in BOOLEAN
                          /\ d.srv \in BOOLEAN /\ d.fixed \in BOOLEAN
BY DEF Empty, Session

(* What a request begins with. *)
LEMMA BegunSession ==
    ASSUME NEW r \in Requests, data \in [Requests -> Session]
    PROVE  /\ Begun(r) \in Session /\ Begun(r).user = data[r].user
           /\ Begun(r).captcha = data[r].captcha /\ Begun(r).visitor = data[r].visitor
           /\ Begun(r).srv = data[r].srv
BY DEF Begun, Session

(* A file is not None, and its parts are sessions. *)
LEMMA FileParts ==
    ASSUME NEW f \in File \cup {None}
    PROVE  f # None <=> /\ f \in File /\ f.expires \in Nat
                        /\ f.header \in Session /\ f.body \in Session
BY NoneAssumption DEF File

(* The time until which a session is to last. *)
LEMMA AgeNat ==
    ASSUME SessionTypeOK, NEW r \in Requests
    PROVE  session_age(r) \in Nat
BY NumbersAssumption DEF session_age, SessionTypeOK

(* The files without the one of a cookie. *)
LEMMA WithoutFile ==
    ASSUME NEW c \in Cookie, files \in [Sids -> File \cup {None}]
    PROVE  /\ Without(c) \in [Sids -> File \cup {None}]
           /\ \A s \in Sids : Without(c)[s] = IF Holds(c, s) THEN None ELSE files[s]
BY CookieKinds DEF Without, Set, Holds

-----------------------------------------------------------------------------
(* What each action does to its request, and that the types stay. *)

(* The other requests are left alone. *)
Others(r) == \A q \in Requests \ {r} :
    /\ pc'[q] = pc[q] /\ cookie'[q] = cookie[q] /\ data'[q] = data[q] /\ copy'[q] = copy[q]
    /\ timeout_in'[q] = timeout_in[q] /\ on_server'[q] = on_server[q] /\ reset'[q] = reset[q]
    /\ answer'[q] = answer[q]

(* The session that a request finds: none, the one of the cookie or the    *)
(* one of the file.                                                        *)
LEMMA FoundCases ==
    ASSUME SessionTypeOK
    PROVE  /\ Found.data \in Session /\ Found.expires \in Nat
           /\ \/ Found = NotFound /\ Found.data = Empty /\ Found.expires = 0
              \/ /\ jar.kind = "C" /\ jar.expires >= now
                 /\ Found.data = jar.data /\ Found.expires = jar.expires
              \/ /\ jar.kind = "I" /\ files[jar.sid] # None /\ files[jar.sid].expires >= now
                 /\ files[jar.sid].header = files[jar.sid].body
                 /\ Found.data = files[jar.sid].body /\ Found.expires = files[jar.sid].expires
           /\ jar.kind = "C" /\ jar.expires >= now => Found.data = jar.data /\ Found.expires = jar.expires
           /\ jar.kind = "C" /\ jar.expires < now => Found = NotFound
           /\ jar.kind = "none" => Found = NotFound
           /\ jar.kind = "I" /\ ~Readable(files[jar.sid]) => Found = NotFound
           /\ jar.kind = "I" /\ Readable(files[jar.sid]) =>
                Found.data = files[jar.sid].body /\ Found.expires = files[jar.sid].expires
<1>1. jar \in Cookie /\ files \in [Sids -> File \cup {None}] /\ now \in Nat
  BY DEF SessionTypeOK
<1>2. NotFound.data = Empty /\ NotFound.expires = 0
  BY DEF NotFound
<1>3. CASE jar.kind = "none"
  <2>1. Found = NotFound
    BY <1>3 DEF Found
  <2> QED
    BY <2>1, <1>2, <1>3, SessionKeys
<1>4. CASE jar.kind = "C"
  <2>1. Found = InCookie
    BY <1>4 DEF Found
  <2>2. jar.data \in Session /\ jar.expires \in Nat
    BY <1>1, <1>4, CookieKinds
  <2> QED
    BY <2>1, <2>2, <1>1, <1>2, <1>4, SessionKeys DEF InCookie
<1>5. CASE jar.kind = "I"
  <2>1. Found = InFile(files[jar.sid])
    BY <1>5 DEF Found
  <2>2. jar.sid \in Sids
    BY <1>1, <1>5, CookieKinds
  <2>3. files[jar.sid] # None => /\ files[jar.sid].body \in Session
                                 /\ files[jar.sid].expires \in Nat
    BY <1>1, <2>2, FileParts
  <2> QED
    BY <2>1, <2>2, <2>3, <1>1, <1>2, <1>5, SessionKeys DEF InFile, Readable
<1> QED
  BY <1>1, <1>3, <1>4, <1>5, CookieKinds

(* A request begins. *)
LEMMA LoadStep ==
    ASSUME SessionTypeOK, NEW r \in Requests, Load(r)
    PROVE  /\ SessionTypeOK' /\ Others(r)
           /\ pc[r] = "idle" /\ pc'[r] = "loaded" /\ cookie'[r] = jar
           /\ data'[r] = Found.data /\ copy'[r] = Found.data /\ timeout_in'[r] = Found.expires
           /\ on_server'[r] = Found.data.srv /\ ~reset'[r]
           /\ \A s \in Sids : files'[s] = IF Found = NotFound /\ Holds(jar, s) THEN None
                                          ELSE files[s]
           /\ together' = (together \/ \E q \in Requests : Active(q))
           /\ UNCHANGED <<jar, users, answer, now, crashes, lost, made, used, anonymous, left, killed>>
<1>1. Found.data \in Session /\ Found.expires \in Nat /\ Found.data.srv \in BOOLEAN
  BY FoundCases, SessionKeys
<1>2. jar \in Cookie /\ files \in [Sids -> File \cup {None}]
  BY DEF SessionTypeOK
<1>3. files' \in [Sids -> File \cup {None}]
  BY <1>2, WithoutFile DEF Load
<1>4. \A s \in Sids : files'[s] = IF Found = NotFound /\ Holds(jar, s) THEN None ELSE files[s]
  BY <1>2, WithoutFile DEF Load
<1>5. /\ pc[r] = "idle" /\ pc'[r] = "loaded" /\ cookie'[r] = jar
      /\ data'[r] = Found.data /\ copy'[r] = Found.data /\ timeout_in'[r] = Found.expires
      /\ on_server'[r] = Found.data.srv /\ ~reset'[r]
      /\ Others(r)
  BY DEF Load, Goes, Set, SessionTypeOK, Others
<1>6. SessionTypeOK'
  BY <1>1, <1>3, <1>5 DEF Load, Goes, Set, SessionTypeOK, Others
<1> QED
  BY <1>4, <1>5, <1>6 DEF Load, Active

(* An application handles the request.  It keeps the user, or empties the  *)
(* session, or has it renewed; a captcha is new, or the one there was.     *)
HandleEffect(r) ==
    /\ pc[r] = "loaded" /\ pc'[r] = "save"
    /\ data'[r] = Empty \/ reset'[r] \/ data'[r].user = data[r].user
    /\ \/ used' = used
       \/ /\ ~KnownBy(data[r]) /\ used' = used \cup {data[r].captcha}
          /\ data'[r] = Empty \/ (data'[r].visitor /\ data'[r] # data[r])
    /\ made \subseteq made'
    /\ data'[r].captcha # 0 => \/ data'[r].captcha \in made' \ made /\ data'[r].srv
                               \/ /\ data'[r].captcha = data[r].captcha
                                  /\ data'[r].srv = data[r].srv \/ data'[r].visitor
                                  /\ data'[r].visitor \/ ~data[r].visitor
                                  /\ data'[r].user = data[r].user
    /\ data'[r].srv => on_server'[r] \/ (data[r].srv /\ on_server'[r] = on_server[r])
    /\ UNCHANGED Same

(* Whatever it does, it works on its own data. *)
LEMMA HandledStep ==
    ASSUME SessionTypeOK, NEW r \in Requests, NEW d \in Session, Handled(r, d),
           on_server' \in [Requests -> BOOLEAN], reset' \in [Requests -> BOOLEAN],
           \A q \in Requests \ {r} : on_server'[q] = on_server[q] /\ reset'[q] = reset[q],
           users' \subseteq Users, UNCHANGED Same
    PROVE  /\ SessionTypeOK' /\ Others(r)
           /\ pc[r] = "loaded" /\ pc'[r] = "save" /\ data'[r] = d
<1>1. /\ pc[r] = "loaded" /\ pc'[r] = "save" /\ data'[r] = d /\ Others(r)
  BY DEF Handled, Goes, Set, SessionTypeOK, Others, Same
<1>2. SessionTypeOK'
  BY <1>1 DEF Handled, Goes, Set, SessionTypeOK, Others, Same
<1> QED
  BY <1>1, <1>2

(* What each application does. *)
LEMMA HandleStep ==
    ASSUME SessionTypeOK, NEW r \in Requests, Handle(r)
    PROVE  SessionTypeOK' /\ Others(r) /\ HandleEffect(r)
<1>1. /\ data \in [Requests -> Session] /\ users \subseteq Users /\ data[r] \in Session
      /\ on_server \in [Requests -> BOOLEAN] /\ reset \in [Requests -> BOOLEAN]
      /\ \A v \in BOOLEAN :
           /\ Set(on_server, r, v) \in [Requests -> BOOLEAN] /\ Set(on_server, r, v)[r] = v
           /\ Set(reset, r, v) \in [Requests -> BOOLEAN] /\ Set(reset, r, v)[r] = v
           /\ \A q \in Requests \ {r} : /\ Set(on_server, r, v)[q] = on_server[q]
                                        /\ Set(reset, r, v)[q] = reset[q]
      /\ TRUE \in BOOLEAN /\ FALSE \in BOOLEAN
  BY DEF SessionTypeOK, Set
<1>2. CASE View(r)
  <2>1. Handled(r, Begun(r)) /\ UNCHANGED <<Same, users, on_server, reset, made, used>>
    BY <1>2 DEF View
  <2>2. /\ SessionTypeOK' /\ Others(r) /\ pc[r] = "loaded" /\ pc'[r] = "save"
        /\ data'[r] = Begun(r) /\ on_server'[r] = on_server[r]
    BY <1>1, <2>1, BegunSession, HandledStep
  <2> QED
    BY <1>1, <2>1, <2>2, BegunSession, SessionKeys DEF HandleEffect
<1>3. CASE Captcha(r)
  <2>1. PICK c \in Codes \ made :
          /\ Handled(r, [Begun(r) EXCEPT !.captcha = c, !.srv = TRUE]) /\ made' = made \cup {c}
    BY <1>3 DEF Captcha
  <2>2. on_server' = Set(on_server, r, TRUE) /\ UNCHANGED <<Same, users, reset, used>>
    BY <1>3 DEF Captcha
  <2> DEFINE d == [Begun(r) EXCEPT !.captcha = c, !.srv = TRUE]
  <2>3. Begun(r) \in Session
    BY <1>1, BegunSession
  <2>4. d \in Session /\ d.captcha = c /\ d.srv /\ d.user = Begun(r).user
    BY <2>3 DEF Session
  <2> HIDE DEF d
  <2>5. Handled(r, d)
    BY <2>1 DEF d
  <2>7. /\ SessionTypeOK' /\ Others(r) /\ pc[r] = "loaded" /\ pc'[r] = "save"
        /\ data'[r] = d /\ on_server'[r] = TRUE
    BY <1>1, <2>2, <2>4, <2>5, HandledStep
  <2> QED
    BY <1>1, <2>1, <2>2, <2>4, <2>7, BegunSession DEF HandleEffect
<1>4. CASE CommentRight(r)
  <2> DEFINE d == [Begun(r) EXCEPT !.visitor = TRUE, !.srv = FALSE, !.fixed = TRUE]
  <2>1. /\ Handled(r, d) /\ ~Known(r) /\ on_server' = Set(on_server, r, FALSE)
        /\ used' = used \cup {data[r].captcha} /\ UNCHANGED <<Same, users, reset, made>>
    BY <1>4 DEF CommentRight
  <2>2. Begun(r) \in Session
    BY <1>1, BegunSession
  <2>3. /\ d \in Session /\ d.captcha = Begun(r).captcha /\ ~d.srv /\ d.user = Begun(r).user
        /\ d.visitor
    BY <2>2 DEF Session
  <2> HIDE DEF d
  <2>5. /\ SessionTypeOK' /\ Others(r) /\ pc[r] = "loaded" /\ pc'[r] = "save"
        /\ data'[r] = d /\ on_server'[r] = FALSE
    BY <1>1, <2>1, <2>3, HandledStep
  <2>6. ~data[r].visitor /\ ~KnownBy(data[r])
    BY <2>1 DEF Known, KnownBy
  <2> QED
    BY <1>1, <2>1, <2>3, <2>5, <2>6, BegunSession DEF HandleEffect
<1>5. CASE CommentWrong(r)
  <2>1. /\ Handled(r, Empty) /\ ~Known(r) /\ used' = used \cup {data[r].captcha}
        /\ UNCHANGED <<Same, users, on_server, reset, made>>
    BY <1>5 DEF CommentWrong
  <2>2. /\ SessionTypeOK' /\ Others(r) /\ pc[r] = "loaded" /\ pc'[r] = "save"
        /\ data'[r] = Empty
    BY <1>1, <2>1, SessionKeys, HandledStep
  <2> QED
    BY <1>1, <2>1, <2>2, SessionKeys DEF HandleEffect, Known, KnownBy
<1>6. CASE LoginForm(r)
  <2>1. /\ Handled(r, Empty) /\ reset' = Set(reset, r, TRUE)
        /\ UNCHANGED <<Same, users, on_server, made, used>>
    BY <1>6 DEF LoginForm
  <2>2. /\ SessionTypeOK' /\ Others(r) /\ pc[r] = "loaded" /\ pc'[r] = "save"
        /\ data'[r] = Empty
    BY <1>1, <2>1, SessionKeys, HandledStep
  <2> QED
    BY <1>1, <2>1, <2>2, SessionKeys DEF HandleEffect
<1>7. CASE Login(r)
  <2>1. PICK u \in users : Handled(r, [Empty EXCEPT !.user = u])
    BY <1>7 DEF Login
  <2>2. reset' = Set(reset, r, TRUE) /\ UNCHANGED <<Same, users, on_server, made, used>>
    BY <1>7 DEF Login
  <2> DEFINE d == [Empty EXCEPT !.user = u]
  <2>3. d \in Session /\ d.captcha = 0 /\ ~d.srv
    BY <1>1 DEF Session, Empty
  <2> HIDE DEF d
  <2>4. Handled(r, d)
    BY <2>1 DEF d
  <2>5. /\ SessionTypeOK' /\ Others(r) /\ pc[r] = "loaded" /\ pc'[r] = "save"
        /\ data'[r] = d /\ reset'[r]
    BY <1>1, <2>2, <2>3, <2>4, HandledStep
  <2> QED
    BY <1>1, <2>2, <2>3, <2>5 DEF HandleEffect
<1>8. CASE AddUser(r) \/ DelUser(r)
  <2>1. /\ Handled(r, Begun(r)) /\ UNCHANGED <<Same, on_server, reset, made, used>>
        /\ users' \subseteq Users
    BY <1>1, <1>8 DEF AddUser, DelUser
  <2>2. /\ SessionTypeOK' /\ Others(r) /\ pc[r] = "loaded" /\ pc'[r] = "save"
        /\ data'[r] = Begun(r) /\ on_server'[r] = on_server[r]
    BY <1>1, <2>1, BegunSession, HandledStep
  <2> QED
    BY <1>1, <2>1, <2>2, BegunSession, SessionKeys DEF HandleEffect
<1> QED
  BY <1>2, <1>3, <1>4, <1>5, <1>6, <1>7, <1>8 DEF Handle

(* The session is not to be kept, or is kept already, or goes to the       *)
(* cookie.                                                                 *)
GoneWith(c) == \A s \in Sids : files'[s] = IF Holds(c, s) THEN None ELSE files[s]
ShortEffect(r) ==
    /\ pc[r] = "save" /\ pc'[r] = "reply"
    /\ \/ /\ data[r] = Empty /\ GoneWith(cookie[r])
          /\ answer'[r] = IF cookie[r] = NoCookie THEN None ELSE NoCookie
       \/ /\ data[r] # Empty /\ data[r] = copy[r] /\ ~NewSession(r) /\ UpToDate(r)
          /\ files' = files /\ answer'[r] = None
       \/ /\ data[r] # Empty /\ Saves(r) /\ ~on_server[r] /\ GoneWith(cookie[r])
          /\ answer'[r] \in Cookie /\ answer'[r].kind = "C" /\ answer'[r].data = data[r]
          /\ answer'[r].expires = session_age(r)
    /\ UNCHANGED <<jar, users, request, now, crashes, lost, history>>
LEMMA ShortStep ==
    ASSUME SessionTypeOK, NEW r \in Requests, SaveEmpty(r) \/ SaveNothing(r) \/ SaveCookie(r)
    PROVE  SessionTypeOK' /\ Others(r) /\ ShortEffect(r)
<1>1. /\ cookie[r] \in Cookie /\ files \in [Sids -> File \cup {None}] /\ data[r] \in Session
      /\ pc \in [Requests -> {"idle", "loaded", "save", "write", "reply"}]
      /\ answer \in [Requests -> Cookie \cup {None}]
  BY DEF SessionTypeOK
<1>2. session_age(r) \in Nat
  BY AgeNat
<1> DEFINE c == [kind |-> "C", data |-> data[r], expires |-> session_age(r)]
<1>3. c \in Cookie /\ c.kind = "C" /\ c.data = data[r] /\ c.expires = session_age(r)
  BY <1>1, <1>2 DEF Cookie
<1>4. NoCookie \in Cookie
  BY DEF Cookie
<1>5. /\ Without(cookie[r]) \in [Sids -> File \cup {None}]
      /\ files' = Without(cookie[r]) => GoneWith(cookie[r])
  BY <1>1, WithoutFile DEF GoneWith
<1> HIDE DEF c
<1>6. ShortEffect(r)
  <2>1. CASE SaveEmpty(r)
    <3>1. cookie[r].kind = "none" <=> cookie[r] = NoCookie
      BY <1>1, CookieKinds
    <3> QED
      BY <2>1, <3>1, <1>1, <1>5 DEF SaveEmpty, ShortEffect, Goes, Set
  <2>2. CASE SaveNothing(r)
    BY <2>2, <1>1 DEF SaveNothing, ShortEffect, Goes, Set, Untouched
  <2>3. CASE SaveCookie(r)
    BY <2>3, <1>1, <1>3, <1>5 DEF SaveCookie, Saves, ShortEffect, Goes, Set, c
  <2> QED
    BY <2>1, <2>2, <2>3
<1>7. Others(r)
  BY <1>1 DEF SaveEmpty, SaveNothing, SaveCookie, Goes, Set, Others, request
<1>8. /\ files' \in [Sids -> File \cup {None}]
      /\ answer' \in [Requests -> Cookie \cup {None}]
      /\ pc' \in [Requests -> {"idle", "loaded", "save", "write", "reply"}]
  BY <1>1, <1>3, <1>4, <1>5 DEF SaveEmpty, SaveNothing, SaveCookie, Goes, Set, c
<1>9. SessionTypeOK'
  BY <1>6, <1>7, <1>8 DEF ShortEffect, SessionTypeOK, Others, request, history
<1> QED
  BY <1>6, <1>7, <1>9

(* The session goes to a file: of its id, or of a new one. *)
IdEffect(r) ==
    /\ pc[r] = "save" /\ pc'[r] = "write" /\ data[r] # Empty /\ on_server[r] /\ Saves(r)
    /\ \/ /\ cookie[r].kind = "I" /\ ~NewSession(r) /\ answer'[r] = cookie[r]
          /\ files' = files /\ made' = made
       \/ /\ cookie[r].kind # "I" \/ NewSession(r)
          /\ answer'[r] \in IdCookie /\ answer'[r].sid \notin made
          /\ made' = made \cup {answer'[r].sid} /\ GoneWith(cookie[r])
    /\ UNCHANGED <<jar, users, request, now, crashes, lost, used, anonymous, left, killed, together>>
LEMMA IdStep ==
    ASSUME SessionTypeOK, NEW r \in Requests, SaveId(r)
    PROVE  SessionTypeOK' /\ Others(r) /\ IdEffect(r)
<1>1. /\ cookie[r] \in Cookie /\ files \in [Sids -> File \cup {None}]
      /\ pc \in [Requests -> {"idle", "loaded", "save", "write", "reply"}]
      /\ answer \in [Requests -> Cookie \cup {None}]
  BY DEF SessionTypeOK
<1>2. \A s \in Sids : /\ [kind |-> "I", sid |-> s, expires |-> 0] \in IdCookie
                      /\ [kind |-> "I", sid |-> s, expires |-> 0].sid = s
  BY DEF IdCookie
<1>3. IdCookie \subseteq Cookie /\ (cookie[r].kind = "I" => cookie[r] \in IdCookie)
  BY <1>1, CookieKinds DEF Cookie
<1>4. /\ Without(cookie[r]) \in [Sids -> File \cup {None}]
      /\ files' = Without(cookie[r]) => GoneWith(cookie[r])
  BY <1>1, WithoutFile DEF GoneWith
<1>5. IdEffect(r)
  BY <1>1, <1>2, <1>4 DEF SaveId, IdEffect, Goes, Set, Saves
<1>6. Others(r)
  BY <1>1 DEF SaveId, Goes, Set, Others, request
<1>7. answer'[r] \in IdCookie
  BY <1>1, <1>3, <1>5 DEF IdEffect
<1>8. /\ files' \in [Sids -> File \cup {None}]
      /\ answer' \in [Requests -> Cookie \cup {None}]
      /\ pc' \in [Requests -> {"idle", "loaded", "save", "write", "reply"}]
  <2>1. answer' \in [Requests -> Cookie \cup {None}]
    BY <1>1, <1>2, <1>3 DEF SaveId, Set
  <2> QED
    BY <2>1, <1>1, <1>4 DEF SaveId, Goes, Set
<1>9. SessionTypeOK'
  BY <1>5, <1>6, <1>7, <1>8 DEF IdEffect, SessionTypeOK, Others, request
<1> QED
  BY <1>5, <1>6, <1>9

(* The file is written. *)
FileEffect(r) ==
    /\ pc[r] = "write" /\ pc'[r] = "reply" /\ answer[r].sid \in Sids
    /\ files' = [files EXCEPT ![answer[r].sid] = [expires |-> session_age(r), header |-> data[r],
                                                  body |-> data[r]]]
    /\ answer'[r] \in IdCookie /\ answer'[r].sid = answer[r].sid
    /\ answer'[r].expires = session_age(r)
    /\ anonymous' = IF data[r].user = 0 THEN anonymous \cup {answer[r].sid} ELSE anonymous
    /\ UNCHANGED <<jar, users, request, now, crashes, lost, made, used, left, killed, together>>
LEMMA FileStep ==
    ASSUME SessionTypeOK, NEW r \in Requests, SaveFile(r)
    PROVE  SessionTypeOK' /\ Others(r) /\ FileEffect(r)
<1>1. /\ files \in [Sids -> File \cup {None}]
      /\ pc \in [Requests -> {"idle", "loaded", "save", "write", "reply"}]
      /\ answer \in [Requests -> Cookie \cup {None}] /\ data[r] \in Session
      /\ pc[r] = "write" /\ answer[r] \in IdCookie /\ session_age(r) \in Nat
  BY AgeNat DEF SessionTypeOK, SaveFile, Goes
<1>2. answer[r].sid \in Sids
  BY <1>1 DEF IdCookie
<1>3. IdCookie \subseteq Cookie
  BY DEF Cookie
<1> DEFINE a == [answer[r] EXCEPT !.expires = session_age(r)]
<1>4. a \in IdCookie /\ a.sid = answer[r].sid /\ a.expires = session_age(r)
  BY <1>1 DEF IdCookie
<1>5. answer' = [answer EXCEPT ![r] = a]
  BY <1>1 DEF SaveFile
<1> HIDE DEF a
<1> DEFINE f == [expires |-> session_age(r), header |-> data[r], body |-> data[r]]
<1>6. f \in File
  BY <1>1 DEF File
<1>7. files' = [files EXCEPT ![answer[r].sid] = f]
  BY DEF SaveFile, Set
<1>8. FileEffect(r)
  BY <1>1, <1>2, <1>4, <1>5, <1>7 DEF SaveFile, FileEffect, Goes, Set
<1> HIDE DEF f
<1>9. Others(r)
  BY <1>1, <1>5 DEF SaveFile, Goes, Others, request
<1>10. /\ files' \in [Sids -> File \cup {None}]
       /\ answer' \in [Requests -> Cookie \cup {None}]
       /\ pc' \in [Requests -> {"idle", "loaded", "save", "write", "reply"}]
  BY <1>1, <1>2, <1>3, <1>4, <1>5, <1>6, <1>7 DEF SaveFile, Goes
<1>11. SessionTypeOK'
  BY <1>8, <1>9, <1>10 DEF FileEffect, SessionTypeOK, Others, request
<1> QED
  BY <1>8, <1>9, <1>11

(* The file afterwards, and the others. *)
LEMMA FileWritten ==
    ASSUME SessionTypeOK, NEW r \in Requests, FileEffect(r), NEW s \in Sids, s = answer[r].sid
    PROVE  /\ files'[s] = [expires |-> session_age(r), header |-> data[r], body |-> data[r]]
           /\ files'[s] # None /\ files'[s].expires = session_age(r)
           /\ files'[s].header = data[r] /\ files'[s].body = data[r]
           /\ \A t \in Sids : t # s => files'[t] = files[t]
<1> DEFINE f == [expires |-> session_age(r), header |-> data[r], body |-> data[r]]
<1>1. f \in File
  BY AgeNat DEF SessionTypeOK, File
<1>2. f # None
  BY <1>1, NoneAssumption
<1>3. f.header = data[r] /\ f.body = data[r] /\ f.expires = session_age(r)
  OBVIOUS
<1>4. files' = [files EXCEPT ![s] = f] /\ files \in [Sids -> File \cup {None}]
  BY DEF FileEffect, SessionTypeOK
<1> HIDE DEF f
<1>5. files'[s] = f /\ \A t \in Sids : t # s => files'[t] = files[t]
  BY <1>4
<1> QED
  BY <1>2, <1>3, <1>5 DEF f

(* A request that is over. *)
Blank(r) == /\ pc[r] = "idle" /\ cookie[r] = NoCookie /\ data[r] = Empty /\ copy[r] = Empty
            /\ timeout_in[r] = 0 /\ ~on_server[r] /\ ~reset[r] /\ answer[r] = None
(* The response arrives or is lost. *)
ReplyEffect(r) ==
    /\ pc[r] = "reply" /\ Blank(r)'
    /\ jar' = IF answer[r] = None THEN jar ELSE answer[r]
    /\ left' = IF answer[r] = None THEN left
               ELSE [data |-> data[r],
                     till |-> IF answer[r] = NoCookie THEN 0 ELSE answer[r].expires]
    /\ killed' = IF answer[r] = None THEN killed ELSE {}
    /\ UNCHANGED <<files, users, now, crashes, lost, made, used, anonymous, together>>
LostEffect(r) ==
    /\ pc[r] = "reply" /\ Blank(r)' /\ lost' = lost + 1
    /\ UNCHANGED <<jar, files, users, now, crashes, history>>
LEMMA ReplyStep ==
    ASSUME SessionTypeOK, NEW r \in Requests, Reply(r) \/ ReplyLost(r)
    PROVE  SessionTypeOK' /\ Others(r) /\ (ReplyEffect(r) \/ LostEffect(r))
<1>1. NoCookie \in Cookie /\ Empty \in Session
  BY SessionKeys DEF Cookie
<1>0. Goes(r, "reply", "idle") /\ Finish(r)
  BY DEF Reply, ReplyLost
<1>2. Blank(r)' /\ Others(r) /\ pc[r] = "reply"
  <2>2. Blank(r)'
    BY <1>0 DEF Finish, Goes, Set, Blank, SessionTypeOK
  <2>3. Others(r)
    BY <1>0 DEF Finish, Goes, Set, Others, SessionTypeOK
  <2> QED
    BY <1>0, <2>2, <2>3 DEF Goes
<1>3. ReplyEffect(r) \/ LostEffect(r)
  BY <1>2 DEF Reply, ReplyLost, ReplyEffect, LostEffect
<1>4. /\ pc' \in [Requests -> {"idle", "loaded", "save", "write", "reply"}]
      /\ cookie' \in [Requests -> Cookie]
      /\ data' \in [Requests -> Session] /\ copy' \in [Requests -> Session]
      /\ timeout_in' \in [Requests -> Nat]
      /\ on_server' \in [Requests -> BOOLEAN] /\ reset' \in [Requests -> BOOLEAN]
      /\ answer' \in [Requests -> Cookie \cup {None}]
  BY <1>0, <1>1 DEF Finish, Goes, Set, SessionTypeOK
<1>5. jar' \in Cookie /\ left' \in [data: Session, till: Nat] /\ lost' \in Nat
  <2>1. CASE LostEffect(r)
    BY <2>1 DEF LostEffect, SessionTypeOK, history
  <2>2. CASE ReplyEffect(r)
    <3>1. answer[r] \in Cookie \cup {None} /\ data[r] \in Session /\ timeout_in[r] \in Nat
      BY DEF SessionTypeOK
    <3>2. answer[r] # None /\ answer[r] # NoCookie => answer[r].expires \in Nat
      BY <3>1, CookieKinds
    <3> QED
      BY <2>2, <3>1, <3>2 DEF ReplyEffect, SessionTypeOK
  <2> QED
    BY <1>3, <2>1, <2>2
<1>6. /\ files' = files /\ users' = users /\ now' = now /\ crashes' = crashes
      /\ anonymous' = anonymous /\ together' = together
  BY <1>3 DEF ReplyEffect, LostEffect, history
<1>7. SessionTypeOK'
  BY <1>2, <1>4, <1>5, <1>6 DEF SessionTypeOK, Others, Blank
<1> QED
  BY <1>2, <1>3, <1>7

(* The process is killed; a file may be torn: the new header, and some of  *)
(* the new data and some of the old.                                       *)
Torn(r) ==
    /\ pc[r] = "write" /\ answer[r].sid \in Sids
    /\ LET old == IF files[answer[r].sid] = None THEN Empty ELSE files[answer[r].sid].body
       IN \E d \in Session :
            /\ d.user \in {old.user, data[r].user}
            /\ files' = [files EXCEPT ![answer[r].sid] =
                           [expires |-> session_age(r), header |-> data[r], body |-> d]]
    /\ anonymous' = IF data[r].user = 0 THEN anonymous \cup {answer[r].sid} ELSE anonymous
(* What was being saved. *)
Saved == {data[r] : r \in {q \in Requests : answer[q] # None}}
CrashEffect ==
    /\ crashes' = crashes + 1
    /\ UNCHANGED <<files, anonymous>> \/ \E r \in Requests : Torn(r)
    /\ \A r \in Requests : Blank(r)'
    /\ killed' = killed \cup Saved
    /\ UNCHANGED <<jar, users, now, lost, made, used, left, together>>
LEMMA CrashStep ==
    ASSUME SessionTypeOK, Crash
    PROVE  SessionTypeOK' /\ CrashEffect
<1>1. NoCookie \in Cookie /\ Empty \in Session
  BY SessionKeys DEF Cookie
<1>2. \A r \in Requests : Blank(r)'
  BY DEF Crash, Blank
<1>3. ASSUME NEW r \in Requests, pc[r] = "write"
      PROVE  answer[r].sid \in Sids
  BY <1>3 DEF SessionTypeOK, IdCookie
<1>4. CrashEffect
  <2>1. ASSUME NEW r \in Requests, pc[r] = "write", WrittenInPart(r) PROVE Torn(r)
    <3> DEFINE s == answer[r].sid
               old == IF files[s] = None THEN Empty ELSE files[s].body
    <3>1. PICK d \in Mixed(old, data[r]) :
            files' = Set(files, s, [expires |-> session_age(r), header |-> data[r], body |-> d])
      BY <2>1 DEF WrittenInPart
    <3>2. s \in Sids
      BY <1>3, <2>1
    <3>3. old \in Session /\ data[r] \in Session
      BY <1>1, <3>2, FileParts DEF SessionTypeOK
    <3> HIDE DEF old
    <3>4. d \in Session /\ d.user \in {old.user, data[r].user}
      BY <3>3 DEF Mixed, Session
    <3>5. anonymous' = IF data[r].user = 0 THEN anonymous \cup {s} ELSE anonymous
      BY <2>1 DEF WrittenInPart
    <3> QED
      BY <2>1, <3>1, <3>2, <3>4, <3>5 DEF Torn, Set, old
  <2> QED
    BY <1>2, <2>1 DEF Crash, CrashEffect, Saved
<1>5. files' \in [Sids -> File \cup {None}] /\ anonymous' \subseteq Sids
  <2>1. ASSUME NEW r \in Requests, Torn(r)
        PROVE  files' \in [Sids -> File \cup {None}] /\ anonymous' \subseteq Sids
    <3> DEFINE s == answer[r].sid
               f(d) == [expires |-> session_age(r), header |-> data[r], body |-> d]
    <3>1. /\ files \in [Sids -> File \cup {None}] /\ s \in Sids /\ data[r] \in Session
          /\ anonymous \subseteq Sids
      BY <2>1 DEF Torn, SessionTypeOK
    <3>2. \A d \in Session : f(d) \in File
      BY <3>1, AgeNat DEF File
    <3>3. PICK d \in Session : files' = [files EXCEPT ![s] = f(d)]
      BY <2>1 DEF Torn
    <3>4. anonymous' \subseteq Sids
      BY <2>1, <3>1 DEF Torn
    <3>5. f(d) \in File
      BY <3>2
    <3> HIDE DEF f, s
    <3> QED
      BY <3>1, <3>3, <3>4, <3>5
  <2> QED
    BY <2>1, <1>4 DEF CrashEffect, SessionTypeOK
<1>6. /\ pc' \in [Requests -> {"idle", "loaded", "save", "write", "reply"}]
      /\ cookie' \in [Requests -> Cookie]
      /\ data' \in [Requests -> Session] /\ copy' \in [Requests -> Session]
      /\ timeout_in' \in [Requests -> Nat]
      /\ on_server' \in [Requests -> BOOLEAN] /\ reset' \in [Requests -> BOOLEAN]
      /\ answer' \in [Requests -> Cookie \cup {None}]
  BY <1>1 DEF Crash
<1>7. SessionTypeOK'
  BY <1>2, <1>4, <1>5, <1>6 DEF CrashEffect, SessionTypeOK, Blank
<1> QED
  BY <1>4, <1>7

(* A torn file is the header with the new data; its user is one of both.   *)
LEMMA FileTorn ==
    ASSUME SessionTypeOK, NEW r \in Requests, Torn(r), NEW s \in Sids, s = answer[r].sid
    PROVE  /\ files'[s] # None /\ files'[s].header = data[r]
           /\ files'[s].body.user \in {0, data[r].user}
              \/ (files[s] # None /\ files'[s].body.user = files[s].body.user)
           /\ \A t \in Sids : t # s => files'[t] = files[t]
           /\ anonymous' = IF data[r].user = 0 THEN anonymous \cup {s} ELSE anonymous
<1> DEFINE f(d) == [expires |-> session_age(r), header |-> data[r], body |-> d]
           old == IF files[s] = None THEN Empty ELSE files[s].body
<1>1. PICK d \in Session : /\ d.user \in {old.user, data[r].user}
                           /\ files' = [files EXCEPT ![s] = f(d)]
  BY DEF Torn
<1>2. f(d) \in File
  BY AgeNat DEF File, SessionTypeOK
<1>3. f(d) # None /\ f(d).header = data[r] /\ f(d).body = d
  BY <1>2, NoneAssumption
<1>4. files \in [Sids -> File \cup {None}]
  BY DEF SessionTypeOK
<1> HIDE DEF f
<1>5. files'[s] = f(d) /\ \A t \in Sids : t # s => files'[t] = files[t]
  BY <1>1, <1>4
<1> QED
  BY <1>1, <1>3, <1>5, SessionKeys DEF Torn

(* A file expires, or the cookie, or time goes by. *)
Idle == UNCHANGED <<users, pc, request, answer, crashes, lost, history>>
GcEffect ==
    /\ \E s \in Sids : files[s] # None /\ files[s].expires < now /\ files' = [files EXCEPT ![s] = None]
    /\ jar' = jar /\ now' = now /\ Idle
ForgetEffect == jar # NoCookie /\ jar.expires < now /\ jar' = NoCookie /\ files' = files /\ now' = now /\ Idle
TickEffect == now' = now + 1 /\ jar' = jar /\ files' = files /\ Idle
LEMMA IdleStep ==
    ASSUME SessionTypeOK, Gc \/ Forget \/ Tick
    PROVE  SessionTypeOK' /\ (GcEffect \/ ForgetEffect \/ TickEffect)
<1>1. GcEffect \/ ForgetEffect \/ TickEffect
  <2>1. jar.kind = "none" <=> jar = NoCookie
    BY CookieKinds DEF SessionTypeOK
  <2> QED
    BY <2>1 DEF Gc, Forget, Tick, GcEffect, ForgetEffect, TickEffect, Idle, Set
<1>2. NoCookie \in Cookie
  BY DEF Cookie
<1>3. jar' \in Cookie /\ files' \in [Sids -> File \cup {None}] /\ now' \in Nat
  BY <1>1, <1>2 DEF GcEffect, ForgetEffect, TickEffect, SessionTypeOK
<1>4. SessionTypeOK'
  BY <1>1, <1>3 DEF GcEffect, ForgetEffect, TickEffect, Idle, SessionTypeOK, request, history
<1> QED
  BY <1>1, <1>4

(* It begins with nothing. *)
LEMMA InitOK ==
    ASSUME Init
    PROVE  /\ SessionTypeOK /\ \A r \in Requests : Blank(r)
           /\ \A s \in Sids : files[s] = None
<1>1. NoCookie \in Cookie /\ Empty \in Session
  BY SessionKeys DEF Cookie
<1>2. (CHOOSE u \in Users : TRUE) \in Users
  BY NumbersAssumption
<1> QED
  BY <1>1, <1>2 DEF Init, SessionTypeOK, Blank

(* Every step is one of these. *)
LEMMA StepKinds ==
    ASSUME SessionTypeOK, Next
    PROVE  /\ SessionTypeOK'
           /\ \/ \E r \in Requests : Others(r) /\ \/ Load(r) \/ HandleEffect(r) \/ ShortEffect(r)
                                                  \/ IdEffect(r) \/ FileEffect(r) \/ ReplyEffect(r)
                                                  \/ LostEffect(r)
              \/ CrashEffect \/ GcEffect \/ ForgetEffect \/ TickEffect
<1>1. ASSUME NEW r \in Requests,
             Load(r) \/ Handle(r) \/ Save(r) \/ Reply(r) \/ ReplyLost(r)
      PROVE  /\ SessionTypeOK' /\ Others(r)
             /\ \/ Load(r) \/ HandleEffect(r) \/ ShortEffect(r)
                \/ IdEffect(r) \/ FileEffect(r) \/ ReplyEffect(r)
                \/ LostEffect(r)
  <2>1. CASE Load(r)
    BY <2>1, LoadStep
  <2>2. CASE Handle(r)
    BY <2>2, HandleStep
  <2>3. CASE Save(r)
    BY <2>3, ShortStep, IdStep, FileStep DEF Save
  <2>4. CASE Reply(r) \/ ReplyLost(r)
    BY <2>4, ReplyStep
  <2> QED
    BY <1>1, <2>1, <2>2, <2>3, <2>4
<1> QED
  BY <1>1, CrashStep, IdleStep DEF Next

(* The types of the session model, for the proofs below. *)
LEMMA TypesKept == Spec => []SessionTypeOK
<1>1. Init => SessionTypeOK
  BY InitOK
<1>2. SessionTypeOK /\ [Next]_vars => SessionTypeOK'
  <2>1. ASSUME SessionTypeOK, UNCHANGED vars PROVE SessionTypeOK'
    BY <2>1 DEF SessionTypeOK, vars
  <2> QED
    BY <2>1, StepKinds
<1> QED
  BY <1>1, <1>2, PTL DEF Spec

-----------------------------------------------------------------------------
(* Session ids. *)

(* The cookies without an id. *)
LEMMA HoldsNone ==
    \A s : /\ ~Holds(None, s) /\ ~Holds(NoCookie, s)
           /\ \A c : (c.kind = "C" => ~Holds(c, s)) /\ (c # None => (Holds(c, s) <=> c.kind = "I" /\ c.sid = s))
BY DEF Holds, NoCookie

(* The id that a request writes its file under is an id it holds. *)
LEMMA WriterHolds ==
    ASSUME SessionTypeOK, NEW r \in Requests, pc[r] = "write"
    PROVE  answer[r].sid \in Sids /\ Holds(answer[r], answer[r].sid) /\ data[r] # Empty
<1>1. answer[r] \in IdCookie /\ answer[r] \in Cookie /\ data[r] # Empty
  BY DEF SessionTypeOK, Cookie
<1>2. answer[r] # None /\ answer[r].kind = "I" /\ answer[r].sid \in Sids
  BY <1>1, CookieKinds DEF IdCookie
<1> QED
  BY <1>1, <1>2 DEF Holds

(* A request begins: the session of a file is of the kind of its id. *)
LEMMA IdLoad ==
    ASSUME SessionTypeOK, SessionTypeOK', IdInv, NEW r \in Requests, Load(r), Others(r)
    PROVE  IdInv'
<1>1. /\ pc'[r] = "loaded" /\ cookie'[r] = jar /\ copy'[r] = Found.data
      /\ \A s \in Sids : files'[s] = IF Found = NotFound /\ Holds(jar, s) THEN None ELSE files[s]
      /\ jar' = jar /\ answer' = answer /\ made' = made /\ anonymous' = anonymous
  BY LoadStep
<1>2. \A s \in Sids : FileOfOne(s)'
  BY <1>1 DEF IdInv, FileOfOne
<1>3. RequestOfOne(r)'
  <2>1. CASE jar.kind = "I" /\ Found.data # Empty
    <3>1. /\ files[jar.sid] # None /\ files[jar.sid].header = files[jar.sid].body
          /\ Found.data = files[jar.sid].body
      BY <2>1, FoundCases
    <3>2. jar.sid \in Sids
      BY <2>1, CookieKinds DEF SessionTypeOK
    <3>3. Found.data.user = 0 <=> jar.sid \in anonymous
      BY <3>1, <3>2 DEF IdInv, FileOfOne
    <3> QED
      BY <1>1, <3>3 DEF RequestOfOne
  <2> QED
    BY <1>1, <2>1 DEF RequestOfOne
<1>4. ASSUME NEW q \in Requests \ {r}
      PROVE  RequestOfOne(q)'
  <2>1. RequestOfOne(q)
    BY DEF IdInv
  <2>2. /\ pc'[q] = pc[q] /\ cookie'[q] = cookie[q] /\ data'[q] = data[q] /\ copy'[q] = copy[q]
        /\ reset'[q] = reset[q] /\ answer'[q] = answer[q]
    BY DEF Others
  <2>3. ASSUME NEW s \in Sids, NotYet(q, s)
        PROVE  NotYet(q, s)'
    BY <1>1, <2>3 DEF NotYet, Others
  <2>4. pc[q] = "write" => answer[q].sid \in Sids
    BY WriterHolds
  <2> QED
    BY <1>1, <2>1, <2>2, <2>3, <2>4 DEF RequestOfOne, Active, NewSession
<1>5. IdsMade'
  BY <1>1 DEF IdInv, IdsMade, Others
<1> QED
  BY <1>2, <1>3, <1>4, <1>5 DEF IdInv

(* An application changes the user only with a session that is reset. *)
LEMMA IdHandle ==
    ASSUME SessionTypeOK, SessionTypeOK', IdInv, NEW r \in Requests, HandleEffect(r), Others(r)
    PROVE  IdInv'
<1>1. /\ pc[r] = "loaded" /\ pc'[r] = "save" /\ data[r] = copy[r]
      /\ data'[r] = Empty \/ reset'[r] \/ data'[r].user = data[r].user
      /\ jar' = jar /\ files' = files /\ cookie' = cookie /\ copy' = copy /\ answer' = answer
      /\ anonymous' = anonymous /\ made \subseteq made'
  BY DEF HandleEffect, Same, SessionTypeOK
<1>2. \A s \in Sids : FileOfOne(s)'
  BY <1>1 DEF IdInv, FileOfOne
<1>3. RequestOfOne(r)'
  <2>1. RequestOfOne(r)
    BY DEF IdInv
  <2> QED
    BY <1>1, <2>1 DEF RequestOfOne, Active, NewSession
<1>4. ASSUME NEW q \in Requests \ {r}
      PROVE  RequestOfOne(q)'
  <2>1. RequestOfOne(q)
    BY DEF IdInv
  <2>2. pc'[q] = pc[q] /\ data'[q] = data[q] /\ reset'[q] = reset[q]
    BY DEF Others
  <2> QED
    BY <1>1, <2>1, <2>2 DEF RequestOfOne, Active, NewSession, NotYet
<1>5. IdsMade'
  BY <1>1 DEF IdInv, IdsMade
<1> QED
  BY <1>2, <1>3, <1>4, <1>5 DEF IdInv

(* A response without an id. *)
LEMMA IdShort ==
    ASSUME SessionTypeOK, SessionTypeOK', IdInv, NEW r \in Requests, ShortEffect(r), Others(r)
    PROVE  IdInv'
<1>1. /\ pc[r] = "save" /\ pc'[r] = "reply"
      /\ jar' = jar /\ cookie' = cookie /\ copy' = copy /\ data' = data /\ reset' = reset
      /\ anonymous' = anonymous /\ made' = made
  BY DEF ShortEffect, request, history
<1>2. /\ \A s \in Sids : files'[s] = None \/ files'[s] = files[s]
      /\ \A s \in Sids : ~Holds(answer'[r], s)
  BY HoldsNone DEF ShortEffect, GoneWith
<1>3. \A s \in Sids : FileOfOne(s)'
  BY <1>1, <1>2 DEF IdInv, FileOfOne
<1>4. RequestOfOne(r)'
  <2>1. RequestOfOne(r)
    BY DEF IdInv
  <2> QED
    BY <1>1, <2>1 DEF RequestOfOne, Active
<1>5. ASSUME NEW q \in Requests \ {r}
      PROVE  RequestOfOne(q)'
  <2>1. RequestOfOne(q)
    BY DEF IdInv
  <2>2. pc'[q] = pc[q] /\ answer'[q] = answer[q]
    BY DEF Others
  <2>3. ASSUME NEW s \in Sids, NotYet(q, s)
        PROVE  NotYet(q, s)'
    BY <1>1, <1>2, <2>3 DEF NotYet, Others
  <2>4. pc[q] = "write" => answer[q].sid \in Sids
    BY WriterHolds
  <2> QED
    BY <1>1, <2>1, <2>2, <2>3, <2>4 DEF RequestOfOne, Active, NewSession
<1>6. IdsMade'
  BY <1>1, <1>2 DEF IdInv, IdsMade, Others
<1> QED
  BY <1>3, <1>4, <1>5, <1>6 DEF IdInv

(* The id for the file: the one of the cookie, or one that nobody has. *)
LEMMA IdChoose ==
    ASSUME SessionTypeOK, SessionTypeOK', IdInv, NEW r \in Requests, IdEffect(r), Others(r)
    PROVE  IdInv'
<1>1. /\ pc[r] = "save" /\ pc'[r] = "write" /\ data[r] # Empty
      /\ jar' = jar /\ cookie' = cookie /\ copy' = copy /\ data' = data /\ reset' = reset
      /\ anonymous' = anonymous /\ made \subseteq made'
      /\ \A s \in Sids : files'[s] = None \/ files'[s] = files[s]
  BY DEF IdEffect, request, GoneWith
<1>2. /\ answer'[r].sid \in Sids /\ answer'[r].sid \in made'
      /\ \A s \in Sids : Holds(answer'[r], s) <=> s = answer'[r].sid
      /\ \/ ~NewSession(r) /\ Holds(cookie[r], answer'[r].sid)
         \/ answer'[r].sid \notin made
  <2>1. answer'[r].sid \in Sids /\ Holds(answer'[r], answer'[r].sid)
    <3>1. pc'[r] = "write" /\ answer'[r] \in IdCookie /\ answer'[r] \in Cookie
      BY <1>1 DEF SessionTypeOK, Cookie
    <3>2. answer'[r] # None /\ answer'[r].kind = "I" /\ answer'[r].sid \in Sids
      BY <3>1, CookieKinds DEF IdCookie
    <3> QED
      BY <3>2 DEF Holds
  <2>2. \A s \in Sids : Holds(answer'[r], s) <=> s = answer'[r].sid
    BY <2>1 DEF Holds
  <2>3. Holds(cookie[r], answer'[r].sid) => answer'[r].sid \in made
    BY <2>1 DEF IdInv, IdsMade
  <2> QED
    BY <1>1, <2>1, <2>2, <2>3 DEF IdEffect
<1>3. \A s \in Sids : FileOfOne(s)'
  BY <1>1 DEF IdInv, FileOfOne
<1>4. RequestOfOne(r)'
  <2>1. RequestOfOne(r)
    BY DEF IdInv
  <2>2. CASE answer'[r].sid \notin made
    <3>0. PICK s \in Sids : s = answer'[r].sid
      BY <1>2
    <3>1. s \notin anonymous /\ files[s] = None /\ ~Holds(jar, s)
      BY <3>0, <2>2 DEF IdInv, IdsMade, FileOfOne
    <3>2. \A q \in Requests : ~Holds(cookie[q], s) /\ ~Holds(answer[q], s)
      BY <3>0, <2>2 DEF IdInv, IdsMade
    <3>3. NotYet(r, s)'
      <4>1. files'[s] = None
        BY <3>1, <1>1
      <4>2. \A q \in Requests : q # r => answer'[q] = answer[q]
        BY DEF Others
      <4> QED
        BY <1>1, <3>1, <3>2, <4>1, <4>2 DEF NotYet
    <3> QED
      BY <1>1, <2>1, <3>0, <3>3 DEF RequestOfOne, Active, NewSession
  <2> QED
    BY <1>1, <1>2, <2>1, <2>2 DEF RequestOfOne, Active, NewSession
<1>5. ASSUME NEW q \in Requests \ {r}
      PROVE  RequestOfOne(q)'
  <2>1. RequestOfOne(q)
    BY DEF IdInv
  <2>2. pc'[q] = pc[q] /\ answer'[q] = answer[q]
    BY DEF Others
  <2>3. ASSUME NEW s \in Sids, NotYet(q, s), s \in made
        PROVE  NotYet(q, s)'
    <3>1. ~Holds(answer'[r], s)
      BY <1>2, <2>3 DEF NotYet
    <3> QED
      BY <1>1, <2>3, <3>1 DEF NotYet, Others
  <2>4. pc[q] = "write" => answer[q].sid \in Sids /\ answer[q].sid \in made
    BY WriterHolds DEF IdInv, IdsMade
  <2> QED
    BY <1>1, <2>1, <2>2, <2>3, <2>4 DEF RequestOfOne, Active, NewSession
<1>6. IdsMade'
  BY <1>1, <1>2 DEF IdInv, IdsMade, Others
<1> QED
  BY <1>3, <1>4, <1>5, <1>6 DEF IdInv

(* The id under which a request writes: it has the user of the session     *)
(* that the id is of, or nobody else has the id.                           *)
LEMMA WriterOfOne ==
    ASSUME SessionTypeOK, IdInv, NEW r \in Requests, pc[r] = "write"
    PROVE  /\ answer[r].sid \in made
           /\ \/ Holds(cookie[r], answer[r].sid) /\ (data[r].user = 0 <=> answer[r].sid \in anonymous)
              \/ NotYet(r, answer[r].sid)
<1>1. answer[r].sid \in Sids /\ Holds(answer[r], answer[r].sid) /\ data[r] # Empty
  BY WriterHolds
<1>2. answer[r].sid \in made
  BY <1>1 DEF IdInv, IdsMade
<1>3. RequestOfOne(r) /\ Active(r)
  BY DEF IdInv, Active
<1>4. ASSUME ~NewSession(r), Holds(cookie[r], answer[r].sid)
      PROVE  data[r].user = 0 <=> answer[r].sid \in anonymous
  <2>1. data[r].user = copy[r].user /\ copy[r] # Empty
    BY <1>1, <1>3, <1>4 DEF RequestOfOne, NewSession
  <2>2. cookie[r].kind = "I" /\ cookie[r].sid = answer[r].sid
    BY <1>4 DEF Holds
  <2> QED
    BY <1>3, <2>1, <2>2 DEF RequestOfOne
<1> QED
  BY <1>2, <1>3, <1>4 DEF RequestOfOne

(* The file is written. *)
LEMMA IdFile ==
    ASSUME SessionTypeOK, SessionTypeOK', IdInv, NEW r \in Requests, FileEffect(r), Others(r)
    PROVE  IdInv'
<1>0. PICK s \in Sids : s = answer[r].sid
  BY DEF FileEffect
<1>1. /\ pc[r] = "write" /\ pc'[r] = "reply" /\ s \in Sids
      /\ anonymous' = IF data[r].user = 0 THEN anonymous \cup {s} ELSE anonymous
      /\ jar' = jar /\ cookie' = cookie /\ copy' = copy /\ data' = data /\ reset' = reset
      /\ made' = made
      /\ \A t \in Sids : t # s => files'[t] = files[t]
      /\ files'[s] # None /\ files'[s].header = data[r] /\ files'[s].body = data[r]
      /\ answer'[r].sid = s
  BY <1>0, FileWritten DEF FileEffect, request
<1>2. data[r] # Empty /\ s \in made
  BY <1>0, <1>1, WriterHolds, WriterOfOne
<1>3. \A t : Holds(answer'[r], t) => t = s
  BY <1>1 DEF Holds
<1>4. \/ Holds(cookie[r], s) /\ (data[r].user = 0 <=> s \in anonymous)
      \/ NotYet(r, s)
  BY <1>0, <1>1, WriterOfOne
<1>5. \A q \in Requests : q # r /\ pc[q] = "write" => /\ answer[q].sid \in Sids
                                                      /\ Holds(answer[q], answer[q].sid)
  BY WriterHolds
<1>6. \A t \in Sids : FileOfOne(t)'
  <2>1. FileOfOne(s)'
    BY <1>1, <1>2, <1>4 DEF FileOfOne, NotYet
  <2>2. ASSUME NEW t \in Sids, t # s PROVE FileOfOne(t)'
    BY <1>1, <2>2 DEF FileOfOne, IdInv
  <2> QED
    BY <2>1, <2>2
<1>7. ASSUME NEW q \in Requests
      PROVE  RequestOfOne(q)'
  <2>1. RequestOfOne(q)
    BY DEF IdInv
  <2>2. q # r => pc'[q] = pc[q] /\ answer'[q] = answer[q]
    BY DEF Others
  <2>3. ASSUME NEW t \in Sids, q # r, NotYet(q, t), Holds(answer[q], t)
        PROVE  NotYet(q, t)'
    <3>1. t # s
      BY <1>4, <2>3 DEF NotYet
    <3> QED
      BY <1>1, <1>3, <2>3, <3>1 DEF NotYet, Others
  <2>4. Active(q)' /\ cookie[q].kind = "I" /\ copy[q] # Empty =>
          (copy[q].user = 0 <=> cookie[q].sid \in anonymous')
    <3>1. Active(q)' => Active(q)
      BY <1>1, <2>2 DEF Active
    <3>2. ASSUME NotYet(r, s), cookie[q].kind = "I" PROVE cookie[q].sid # s
      BY <3>2, CookieKinds DEF NotYet, Holds, SessionTypeOK
    <3> QED
      BY <1>1, <1>4, <2>1, <3>1, <3>2 DEF RequestOfOne
  <2> QED
    BY <1>1, <1>5, <2>1, <2>2, <2>3, <2>4 DEF RequestOfOne, NewSession
<1>8. IdsMade'
  BY <1>1, <1>2, <1>3 DEF IdInv, IdsMade, Others
<1> QED
  BY <1>6, <1>7, <1>8 DEF IdInv

(* The browser has the cookie of the response, or has not. *)
LEMMA IdReply ==
    ASSUME SessionTypeOK, SessionTypeOK', IdInv, NEW r \in Requests,
           ReplyEffect(r) \/ LostEffect(r), Others(r)
    PROVE  IdInv'
<1>1. /\ pc[r] = "reply" /\ pc'[r] = "idle" /\ cookie'[r] = NoCookie /\ answer'[r] = None
      /\ jar' = jar \/ jar' = answer[r]
      /\ files' = files /\ made' = made /\ anonymous' = anonymous
  BY DEF ReplyEffect, LostEffect, Blank, history
<1>2. \A s \in Sids : FileOfOne(s)'
  BY <1>1 DEF IdInv, FileOfOne
<1>3. RequestOfOne(r)'
  BY <1>1 DEF RequestOfOne, Active
<1>4. ASSUME NEW q \in Requests \ {r}
      PROVE  RequestOfOne(q)'
  <2>1. RequestOfOne(q)
    BY DEF IdInv
  <2>2. /\ pc'[q] = pc[q] /\ cookie'[q] = cookie[q] /\ data'[q] = data[q] /\ copy'[q] = copy[q]
        /\ reset'[q] = reset[q] /\ answer'[q] = answer[q]
    BY DEF Others
  <2>3. ASSUME NEW s \in Sids, NotYet(q, s)
        PROVE  NotYet(q, s)'
    BY <1>1, <2>3, HoldsNone DEF NotYet, Others
  <2>4. pc[q] = "write" => answer[q].sid \in Sids
    BY WriterHolds
  <2> QED
    BY <1>1, <2>1, <2>2, <2>3, <2>4 DEF RequestOfOne, Active, NewSession
<1>5. IdsMade'
  BY <1>1, HoldsNone DEF IdInv, IdsMade, Others
<1> QED
  BY <1>2, <1>3, <1>4, <1>5 DEF IdInv

(* A file that is torn has data of the user of its id, or of none.         *)
LEMMA IdCrash ==
    ASSUME SessionTypeOK, SessionTypeOK', IdInv, CrashEffect
    PROVE  IdInv'
<1>1. /\ \A q \in Requests : pc'[q] = "idle" /\ cookie'[q] = NoCookie /\ answer'[q] = None
      /\ jar' = jar /\ made' = made
  BY DEF CrashEffect, Blank
<1>2. (\A t \in Sids : FileOfOne(t)') /\ anonymous' \subseteq made
  <2>1. (\A t \in Sids : FileOfOne(t)) /\ anonymous \subseteq made
    BY DEF IdInv, IdsMade
  <2>2. CASE UNCHANGED <<files, anonymous>>
    BY <1>1, <2>1, <2>2 DEF FileOfOne
  <2>3. ASSUME NEW r \in Requests, Torn(r)
        PROVE  (\A t \in Sids : FileOfOne(t)') /\ anonymous' \subseteq made
    <3>1. PICK s \in Sids : s = answer[r].sid
      BY <2>3 DEF Torn
    <3>2. /\ files'[s] # None /\ files'[s].header = data[r]
          /\ files'[s].body.user \in {0, data[r].user}
             \/ (files[s] # None /\ files'[s].body.user = files[s].body.user)
          /\ \A t \in Sids : t # s => files'[t] = files[t]
          /\ anonymous' = IF data[r].user = 0 THEN anonymous \cup {s} ELSE anonymous
      BY <2>3, <3>1, FileTorn
    <3>3. pc[r] = "write"
      BY <2>3 DEF Torn
    <3>4. data[r] # Empty /\ s \in made
      BY <3>1, <3>3, WriterHolds, WriterOfOne
    <3>5. \/ data[r].user = 0 <=> s \in anonymous
          \/ s \notin anonymous /\ files[s] = None
      BY <3>1, <3>3, WriterOfOne DEF NotYet
    <3>6. ASSUME NEW t \in Sids, t # s PROVE FileOfOne(t)'
      BY <1>1, <2>1, <3>2, <3>6 DEF FileOfOne
    <3>7. FileOfOne(s)'
      <4>1. s \in anonymous' => files'[s].body.user = 0
        BY <2>1, <3>2, <3>5 DEF FileOfOne
      <4>2. ASSUME files'[s].header = files'[s].body
            PROVE  files'[s].body # Empty /\ (files'[s].body.user = 0 => s \in anonymous')
        BY <3>2, <3>4, <4>2
      <4> QED
        BY <1>1, <3>4, <4>1, <4>2 DEF FileOfOne
    <3> QED
      BY <2>1, <3>2, <3>4, <3>6, <3>7
  <2> QED
    BY <2>2, <2>3 DEF CrashEffect
<1>3. \A q \in Requests : RequestOfOne(q)'
  BY <1>1 DEF RequestOfOne, Active
<1>4. IdsMade'
  BY <1>1, <1>2, HoldsNone DEF IdInv, IdsMade
<1> QED
  BY <1>2, <1>3, <1>4 DEF IdInv

(* A file expires, or the cookie, or time goes by. *)
LEMMA IdIdle ==
    ASSUME SessionTypeOK, SessionTypeOK', IdInv, GcEffect \/ ForgetEffect \/ TickEffect
    PROVE  IdInv'
<1>1. /\ pc' = pc /\ cookie' = cookie /\ data' = data /\ copy' = copy /\ reset' = reset
      /\ answer' = answer /\ made' = made /\ anonymous' = anonymous
      /\ jar' = jar \/ jar' = NoCookie
  BY DEF GcEffect, ForgetEffect, TickEffect, Idle, request, history
<1>2. \A s \in Sids : files'[s] = None \/ files'[s] = files[s]
  BY DEF GcEffect, ForgetEffect, TickEffect, SessionTypeOK
<1>3. \A s \in Sids : FileOfOne(s)'
  BY <1>1, <1>2 DEF IdInv, FileOfOne
<1>4. ASSUME NEW q \in Requests PROVE RequestOfOne(q)'
  <2>1. RequestOfOne(q)
    BY DEF IdInv
  <2>2. ASSUME NEW s \in Sids, NotYet(q, s)
        PROVE  NotYet(q, s)'
    BY <1>1, <1>2, <2>2, HoldsNone DEF NotYet
  <2>3. pc[q] = "write" => answer[q].sid \in Sids
    BY WriterHolds
  <2> QED
    BY <1>1, <2>1, <2>2, <2>3 DEF RequestOfOne, Active, NewSession
<1>5. IdsMade'
  BY <1>1, HoldsNone DEF IdInv, IdsMade
<1> QED
  BY <1>3, <1>4, <1>5 DEF IdInv

(* Whatever requests are under way, and whenever the process is killed: a  *)
(* session id of a session without a user never becomes one of a session   *)
(* with a user.                                                            *)
THEOREM LoginAlwaysNewId == Spec => []NewIdOnLogin
<1>1. Init => IdInv
  <2> SUFFICES ASSUME Init PROVE IdInv
    OBVIOUS
  <2>1. /\ \A r \in Requests : Blank(r)
        /\ \A s \in Sids : files[s] = None
        /\ jar = NoCookie /\ anonymous = {}
    BY InitOK DEF Init
  <2> QED
    BY <2>1, HoldsNone DEF IdInv, FileOfOne, RequestOfOne, Active, IdsMade, Blank
<1>2. SessionTypeOK /\ IdInv /\ SessionTypeOK' /\ [Next]_vars => IdInv'
  <2> SUFFICES ASSUME SessionTypeOK, IdInv, SessionTypeOK', [Next]_vars PROVE IdInv'
    OBVIOUS
  <2>1. CASE UNCHANGED vars
    BY <2>1 DEF vars, IdInv, FileOfOne, RequestOfOne, Active, IdsMade, NotYet, NewSession
  <2>2. CASE Next
    BY <2>2, StepKinds, IdLoad, IdHandle, IdShort, IdChoose, IdFile, IdReply, IdCrash, IdIdle
  <2> QED
    BY <2>1, <2>2
<1>3. SessionTypeOK /\ IdInv => NewIdOnLogin
  BY DEF SessionTypeOK, IdInv, FileOfOne, NewIdOnLogin
<1> QED
  BY <1>1, <1>2, <1>3, TypesKept, PTL DEF Spec

-----------------------------------------------------------------------------
(* Captchas. *)

(* The captchas of all sessions were made, and a session in a cookie has   *)
(* none that is to be solved.                                              *)
LEMMA CaptchasKeptStep ==
    ASSUME SessionTypeOK, SessionTypeOK', CaptchasKept, Next
    PROVE  CaptchasKept'
<1>1. Kept(Empty) /\ ~Empty.srv
  BY SessionKeys DEF Kept
<1>2. ASSUME made \subseteq made' PROVE \A d : Kept(d) => Kept(d)'
  BY <1>2 DEF Kept
<1>3. NoCookie.kind # "C" /\ \A c \in IdCookie : c.kind # "C"
  BY DEF NoCookie, IdCookie
<1>4. ASSUME NEW r \in Requests, Others(r),
             Load(r) \/ HandleEffect(r) \/ ShortEffect(r) \/ IdEffect(r)
      PROVE  CaptchasKept'
  <2>1. CASE Load(r)
    <3>1. Kept(Found.data)
      BY <1>1, FoundCases, CookieKinds DEF CaptchasKept, SessionTypeOK
    <3>2. /\ data'[r] = Found.data /\ on_server'[r] = Found.data.srv
          /\ \A s \in Sids : files'[s] = None \/ files'[s] = files[s]
          /\ jar' = jar /\ answer' = answer /\ made' = made /\ used' = used
      BY <2>1, LoadStep
    <3> QED
      BY <1>2, <1>4, <3>1, <3>2 DEF CaptchasKept, Others
  <2>2. CASE HandleEffect(r)
    <3>1. jar' = jar /\ files' = files /\ answer' = answer /\ made \subseteq made'
      BY <2>2 DEF HandleEffect, Same
    <3>2. Kept(data[r]) /\ (data[r].srv => on_server[r]) /\ data'[r] \in Session
      BY DEF CaptchasKept, SessionTypeOK
    <3>3. (Kept(data[r]) /\ (data[r].srv => on_server[r]))'
      BY <2>2, <3>1, <3>2 DEF HandleEffect, Kept, KnownBy
    <3>4. used' \subseteq made' \cup {0}
      BY <2>2, <3>1, <3>2 DEF HandleEffect, Kept, CaptchasKept
    <3> QED
      BY <1>2, <1>4, <3>1, <3>3, <3>4 DEF CaptchasKept, Others
  <2>3. CASE ShortEffect(r)
    <3>1. /\ jar' = jar /\ data' = data /\ on_server' = on_server /\ made' = made /\ used' = used
          /\ \A s \in Sids : files'[s] = None \/ files'[s] = files[s]
      BY <2>3 DEF ShortEffect, GoneWith, request, history
    <3>2. answer'[r] # None /\ answer'[r].kind = "C" => Kept(answer'[r].data) /\ ~answer'[r].data.srv
      BY <1>3, <2>3 DEF ShortEffect, CaptchasKept
    <3> QED
      BY <1>2, <1>4, <3>1, <3>2 DEF CaptchasKept, Others
  <2>4. CASE IdEffect(r)
    <3>1. /\ jar' = jar /\ data' = data /\ on_server' = on_server /\ used' = used
          /\ made \subseteq made'
          /\ \A s \in Sids : files'[s] = None \/ files'[s] = files[s]
      BY <2>4 DEF IdEffect, GoneWith, request
    <3>2. answer'[r].kind # "C"
      BY <1>3, <2>4 DEF IdEffect
    <3> QED
      BY <1>2, <1>4, <3>1, <3>2 DEF CaptchasKept, Others
  <2> QED
    BY <1>4, <2>1, <2>2, <2>3, <2>4
<1>5. ASSUME NEW r \in Requests, Others(r),
             FileEffect(r) \/ ReplyEffect(r) \/ LostEffect(r)
      PROVE  CaptchasKept'
  <2>1. CASE FileEffect(r)
    <3>1. PICK s \in Sids : s = answer[r].sid
      BY <2>1 DEF FileEffect
    <3>2. files'[s].header = data[r] /\ \A t \in Sids : t # s => files'[t] = files[t]
      BY <2>1, <3>1, FileWritten
    <3>3. /\ jar' = jar /\ data' = data /\ on_server' = on_server /\ used' = used /\ made' = made
          /\ answer'[r] \in IdCookie
      BY <2>1 DEF FileEffect, request
    <3> QED
      BY <1>2, <1>3, <1>5, <3>2, <3>3 DEF CaptchasKept, Others
  <2>2. CASE ReplyEffect(r) \/ LostEffect(r)
    <3>1. /\ jar' = jar \/ (answer[r] # None /\ jar' = answer[r])
          /\ data'[r] = Empty /\ answer'[r] = None /\ files' = files /\ used' = used /\ made' = made
      BY <2>2 DEF ReplyEffect, LostEffect, Blank, history
    <3> QED
      BY <1>1, <1>2, <1>5, <3>1 DEF CaptchasKept, Others
  <2> QED
    BY <1>5, <2>1, <2>2
<1>6. ASSUME CrashEffect PROVE CaptchasKept'
  <2>1. /\ \A q \in Requests : data'[q] = Empty /\ answer'[q] = None
        /\ jar' = jar /\ used' = used /\ made' = made
    BY <1>6 DEF CrashEffect, Blank
  <2>2. ASSUME NEW t \in Sids, files'[t] # None
        PROVE  Kept(files'[t].header)
    <3>1. CASE files' = files
      BY <2>2, <3>1 DEF CaptchasKept
    <3>2. ASSUME NEW r \in Requests, Torn(r)
          PROVE  Kept(files'[t].header)
      <4>1. PICK s \in Sids : s = answer[r].sid
        BY <3>2 DEF Torn
      <4>2. files'[s].header = data[r] /\ (t # s => files'[t] = files[t])
        BY <3>2, <4>1, FileTorn
      <4> QED
        BY <2>2, <4>2 DEF CaptchasKept
    <3> QED
      BY <1>6, <3>1, <3>2 DEF CrashEffect
  <2> QED
    BY <1>1, <1>2, <2>1, <2>2 DEF CaptchasKept
<1>7. ASSUME GcEffect \/ ForgetEffect \/ TickEffect PROVE CaptchasKept'
  <2>1. /\ data' = data /\ on_server' = on_server /\ answer' = answer /\ used' = used /\ made' = made
        /\ jar' = jar \/ jar' = NoCookie
    BY <1>7 DEF GcEffect, ForgetEffect, TickEffect, Idle, request, history
  <2>2. \A s \in Sids : files'[s] = None \/ files'[s] = files[s]
    BY <1>7 DEF GcEffect, ForgetEffect, TickEffect, SessionTypeOK
  <2> QED
    BY <1>2, <1>3, <2>1, <2>2 DEF CaptchasKept
<1> QED
  BY <1>4, <1>5, <1>6, <1>7, StepKinds

(* As long as all is calm, it was calm before. *)
LEMMA CalmBefore ==
    ASSUME SessionTypeOK, Next, Calm'
    PROVE  /\ Calm /\ ~CrashEffect
           /\ \A r \in Requests : Load(r) => \A q \in Requests : ~Active(q)
<1>1. crashes \in Nat /\ together \in BOOLEAN /\ crashes' = 0 /\ ~together'
  BY DEF SessionTypeOK, Calm
<1>2. ASSUME NEW r \in Requests, Load(r) PROVE Calm /\ \A q \in Requests : ~Active(q)
  BY <1>1, <1>2, LoadStep DEF Calm
<1>3. ASSUME NEW r \in Requests,
             \/ HandleEffect(r) \/ ShortEffect(r) \/ IdEffect(r) \/ FileEffect(r)
             \/ ReplyEffect(r) \/ LostEffect(r)
      PROVE  Calm
  BY <1>1, <1>3 DEF Calm, HandleEffect, Same, ShortEffect, IdEffect, FileEffect, ReplyEffect,
                    LostEffect, history
<1>4. ~CrashEffect
  BY <1>1 DEF CrashEffect
<1>5. ASSUME GcEffect \/ ForgetEffect \/ TickEffect PROVE Calm
  BY <1>1, <1>5 DEF Calm, GcEffect, ForgetEffect, TickEffect, Idle, history
<1> QED
  BY <1>2, <1>3, <1>4, <1>5, StepKinds

(* One request at a time: while one is under way, the others are idle.     *)
LEMMA OthersIdle ==
    ASSUME OneAtATime, NEW r \in Requests, Active(r), Others(r)
    PROVE  \A q \in Requests \ {r} : ~Active(q) /\ ~Active(q)'
BY DEF OneAtATime, Active, Others

(* A request that begins and ends when no other is under way. *)
LEMMA OneAtATimeStep ==
    ASSUME SessionTypeOK, SessionTypeOK', Next, Calm', OneAtATime
    PROVE  OneAtATime'
<1>1. ASSUME NEW r \in Requests, Others(r), Load(r) PROVE OneAtATime'
  <2>1. \A q \in Requests : ~Active(q)
    BY <1>1, CalmBefore
  <2>2. jar' = jar /\ cookie'[r] = jar /\ \A q \in Requests \ {r} : ~Active(q)'
    BY <1>1, <2>1, LoadStep DEF Others, Active
  <2> QED
    BY <2>2 DEF OneAtATime
<1>2. ASSUME NEW r \in Requests, Others(r),
             HandleEffect(r) \/ ShortEffect(r) \/ IdEffect(r) \/ FileEffect(r)
      PROVE  OneAtATime'
  <2>1. Active(r) /\ jar' = jar /\ cookie' = cookie
    BY <1>2 DEF HandleEffect, Same, ShortEffect, IdEffect, FileEffect, request, Active
  <2>2. \A q \in Requests \ {r} : ~Active(q) /\ ~Active(q)'
    BY <1>2, <2>1, OthersIdle
  <2> QED
    BY <2>1, <2>2 DEF OneAtATime
<1>3. ASSUME NEW r \in Requests, Others(r), ReplyEffect(r) \/ LostEffect(r) PROVE OneAtATime'
  <2>1. Active(r) /\ ~Active(r)'
    BY <1>3 DEF ReplyEffect, LostEffect, Blank, Active
  <2>2. \A q \in Requests \ {r} : ~Active(q) /\ ~Active(q)'
    BY <1>3, <2>1, OthersIdle
  <2> QED
    BY <2>1, <2>2 DEF OneAtATime
<1>4. ASSUME GcEffect \/ ForgetEffect \/ TickEffect PROVE OneAtATime'
  <2>1. pc' = pc /\ cookie' = cookie /\ (jar' = jar \/ jar' = NoCookie)
    BY <1>4 DEF GcEffect, ForgetEffect, TickEffect, Idle, request
  <2> QED
    BY <2>1 DEF OneAtATime, Active
<1> QED
  BY <1>1, <1>2, <1>3, <1>4, CalmBefore, StepKinds

(* What is known of the captchas while all is calm. *)
AllFresh == /\ \A r \in Requests : CaptchaOK(r)
            /\ (\A r \in Requests : ~Active(r)) => FreshFile(jar)

(* The session that a request finds has a captcha of its own, or none. *)
LEMMA FreshLoad ==
    ASSUME SessionTypeOK, SessionTypeOK', CaptchasKept, AllFresh, NEW r \in Requests, Others(r),
           Load(r), \A q \in Requests : ~Active(q)
    PROVE  AllFresh'
<1>1. /\ pc'[r] = "loaded" /\ cookie'[r] = jar /\ data'[r] = Found.data /\ used' = used
      /\ \A s \in Sids : files'[s] = None \/ files'[s] = files[s]
  BY LoadStep
<1>2. FreshFile(jar) /\ jar \in Cookie
  BY DEF AllFresh, SessionTypeOK
<1>3. Fresh(Found.data)
  <2>1. Fresh(Empty)
    BY SessionKeys DEF Fresh
  <2>2. CASE jar.kind = "C" /\ Found.data = jar.data
    BY <2>2 DEF CaptchasKept, Kept, Fresh
  <2>3. CASE jar.kind = "I" /\ files[jar.sid] # None /\ Found.data = files[jar.sid].body
    BY <1>2, <2>3, CookieKinds DEF FreshFile
  <2> QED
    BY <2>1, <2>2, <2>3, FoundCases
<1>4. CaptchaOK(r)'
  <2>1. jar.kind = "I" => jar.sid \in Sids
    BY <1>2, CookieKinds
  <2>2. Fresh(data[r])'
    BY <1>1, <1>3 DEF Fresh
  <2>3. FreshFile(cookie[r])'
    BY <1>1, <1>2, <2>1 DEF FreshFile, Fresh
  <2> QED
    BY <1>1, <2>2, <2>3 DEF CaptchaOK
<1>5. \A q \in Requests \ {r} : CaptchaOK(q)'
  BY DEF CaptchaOK, Others, Active
<1> QED
  BY <1>1, <1>4, <1>5 DEF AllFresh, Active

(* An answer is compared with the captcha, and then it is not to be solved *)
(* any more.                                                               *)
LEMMA FreshHandle ==
    ASSUME SessionTypeOK, SessionTypeOK', CaptchasKept, AllFresh, OneAtATime,
           NEW r \in Requests, Others(r), HandleEffect(r)
    PROVE  AllFresh'
<1>1. /\ pc[r] = "loaded" /\ pc'[r] = "save" /\ data[r] = copy[r]
      /\ jar' = jar /\ files' = files /\ cookie' = cookie /\ copy' = copy
      /\ Fresh(data[r]) /\ FreshFile(cookie[r]) /\ cookie[r] \in Cookie
  BY DEF HandleEffect, Same, SessionTypeOK, AllFresh, CaptchaOK
<1>2. Fresh(data[r])'
  <2>1. CASE used' = used
    <3>1. data'[r].captcha \in made' \ made => data'[r].captcha \notin used \ {0}
      BY DEF CaptchasKept
    <3>2. data'[r].captcha = data[r].captcha /\ data'[r].user = data[r].user /\
          (data'[r].visitor \/ ~data[r].visitor) => KnownBy(data[r])' \/ data'[r].captcha \notin used \ {0}
      BY <1>1 DEF Fresh, KnownBy
    <3> QED
      BY <2>1, <3>1, <3>2 DEF HandleEffect, Fresh
  <2>2. CASE data'[r] = Empty \/ data'[r].visitor
    BY <2>2, SessionKeys DEF Fresh, KnownBy
  <2> QED
    BY <2>1, <2>2 DEF HandleEffect
<1>3. data'[r] = copy'[r] /\ data'[r] # Empty => FreshFile(cookie[r])'
  <2>1. data'[r] = copy'[r] /\ data'[r] # Empty => used' = used
    BY <1>1 DEF HandleEffect
  <2> QED
    BY <1>1, <2>1 DEF FreshFile, Fresh
<1>4. CaptchaOK(r)'
  BY <1>1, <1>2, <1>3 DEF CaptchaOK
<1>5. \A q \in Requests \ {r} : ~Active(q)'
  BY <1>1, OthersIdle DEF Active
<1> QED
  BY <1>1, <1>4, <1>5 DEF AllFresh, Active, CaptchaOK

(* A session that is saved away from its file leaves none. *)
LEMMA FreshShort ==
    ASSUME SessionTypeOK, SessionTypeOK', AllFresh, OneAtATime,
           NEW r \in Requests, Others(r), ShortEffect(r) \/ IdEffect(r)
    PROVE  AllFresh'
<1>1. /\ pc[r] = "save" /\ pc'[r] \in {"write", "reply"} /\ data' = data /\ cookie' = cookie
      /\ used' = used /\ \A s \in Sids : files'[s] = None \/ files'[s] = files[s]
  BY DEF ShortEffect, IdEffect, GoneWith, request, history
<1>2. cookie[r] \in Cookie /\ CaptchaOK(r)
  BY DEF SessionTypeOK, AllFresh
<1>3. Fresh(data[r])'
  BY <1>1, <1>2 DEF CaptchaOK, Fresh
<1>4. GoneWith(cookie[r]) => FreshFile(cookie[r])'
  <2>1. cookie[r].kind = "I" => cookie[r].sid \in Sids /\ Holds(cookie[r], cookie[r].sid)
    BY <1>2, CookieKinds DEF Holds
  <2> QED
    BY <1>1, <2>1 DEF GoneWith, FreshFile
<1>5. CaptchaOK(r)'
  <2>1. CASE ShortEffect(r)
    <3>1. FreshFile(cookie[r])'
      <4>1. CASE data[r] = copy[r] /\ data[r] # Empty /\ files' = files
        BY <1>1, <1>2, <4>1 DEF CaptchaOK, FreshFile, Fresh
      <4> QED
        BY <1>4, <2>1, <4>1 DEF ShortEffect
    <3>2. FreshFile(answer[r])'
      BY <2>1 DEF ShortEffect, FreshFile, NoCookie
    <3> QED
      BY <2>1, <3>1, <3>2 DEF CaptchaOK, ShortEffect
  <2>2. CASE IdEffect(r)
    <3>1. CASE GoneWith(cookie[r])
      BY <1>3, <1>4, <2>2, <3>1 DEF CaptchaOK, IdEffect
    <3>2. CASE cookie[r].kind = "I" /\ answer'[r] = cookie[r]
      <4>1. Holds(cookie[r], answer[r].sid)'
        BY <1>1, <1>2, <3>2, CookieKinds DEF Holds
      <4> QED
        BY <1>3, <2>2, <4>1 DEF CaptchaOK, IdEffect
    <3> QED
      BY <2>2, <3>1, <3>2 DEF IdEffect
  <2> QED
    BY <2>1, <2>2
<1>6. \A q \in Requests \ {r} : ~Active(q)'
  BY <1>1, OthersIdle DEF Active
<1> QED
  BY <1>1, <1>5, <1>6 DEF AllFresh, Active, CaptchaOK

(* The file has a captcha that no answer was compared with. *)
LEMMA FreshWrite ==
    ASSUME SessionTypeOK, SessionTypeOK', AllFresh, OneAtATime,
           NEW r \in Requests, Others(r), FileEffect(r)
    PROVE  AllFresh'
<1>1. PICK s \in Sids : s = answer[r].sid
  BY DEF FileEffect
<1>2. /\ files'[s].body = data[r] /\ \A t \in Sids : t # s => files'[t] = files[t]
  BY <1>1, FileWritten
<1>3. /\ pc[r] = "write" /\ pc'[r] = "reply" /\ data' = data /\ cookie' = cookie /\ used' = used
      /\ answer'[r].sid = s
  BY <1>1 DEF FileEffect, request
<1>4. cookie[r] \in Cookie /\ CaptchaOK(r)
  BY DEF SessionTypeOK, AllFresh
<1>5. Fresh(files'[s].body)
  BY <1>2, <1>3, <1>4 DEF CaptchaOK
<1>6. FreshFile(answer[r])'
  BY <1>3, <1>5 DEF FreshFile, Fresh
<1>7. FreshFile(cookie[r])'
  <2>1. cookie[r].kind = "I" => cookie[r].sid \in Sids
    BY <1>4, CookieKinds
  <2>2. CASE Holds(cookie[r], s)
    BY <1>3, <1>5, <2>2 DEF FreshFile, Fresh, Holds
  <2>3. CASE FreshFile(cookie[r])
    BY <1>2, <1>3, <1>5, <2>1, <2>3 DEF FreshFile, Fresh
  <2> QED
    BY <1>1, <1>3, <1>4, <2>2, <2>3 DEF CaptchaOK
<1>8. CaptchaOK(r)'
  BY <1>3, <1>6, <1>7 DEF CaptchaOK
<1>9. \A q \in Requests \ {r} : ~Active(q)'
  BY <1>3, OthersIdle DEF Active
<1> QED
  BY <1>3, <1>8, <1>9 DEF AllFresh, Active, CaptchaOK

(* Also when the response is lost, and the browser has the cookie of old.  *)
LEMMA FreshReply ==
    ASSUME SessionTypeOK, SessionTypeOK', AllFresh, OneAtATime,
           NEW r \in Requests, Others(r), ReplyEffect(r) \/ LostEffect(r)
    PROVE  AllFresh'
<1>1. /\ pc[r] = "reply" /\ pc'[r] = "idle" /\ files' = files /\ used' = used
      /\ jar' = jar \/ (answer[r] # None /\ jar' = answer[r])
  BY DEF ReplyEffect, LostEffect, Blank, history
<1>2. /\ FreshFile(cookie[r]) /\ FreshFile(answer[r])
      /\ jar = NoCookie \/ jar = cookie[r]
  BY <1>1 DEF AllFresh, CaptchaOK, OneAtATime, Active
<1>3. FreshFile(NoCookie)
  BY DEF FreshFile, NoCookie
<1>4. FreshFile(jar)'
  BY <1>1, <1>2, <1>3 DEF FreshFile, Fresh
<1>5. \A q \in Requests : ~Active(q)'
  BY <1>1, OthersIdle DEF Active
<1> QED
  BY <1>4, <1>5 DEF AllFresh, Active, CaptchaOK

(* A file expires, or the cookie, or time goes by. *)
LEMMA FreshIdle ==
    ASSUME SessionTypeOK, SessionTypeOK', AllFresh, GcEffect \/ ForgetEffect \/ TickEffect
    PROVE  AllFresh'
<1>1. /\ pc' = pc /\ cookie' = cookie /\ data' = data /\ copy' = copy /\ answer' = answer
      /\ used' = used /\ (jar' = jar \/ jar' = NoCookie)
  BY DEF GcEffect, ForgetEffect, TickEffect, Idle, request, history
<1>2. \A s \in Sids : files'[s] = None \/ files'[s] = files[s]
  BY DEF GcEffect, ForgetEffect, TickEffect, SessionTypeOK
<1>3. ASSUME NEW q \in Requests PROVE CaptchaOK(q)'
  <2>1. CaptchaOK(q) /\ cookie[q] \in Cookie /\ answer[q] \in Cookie \cup {None}
    BY DEF AllFresh, SessionTypeOK
  <2>2. Fresh(data[q]) => Fresh(data[q])'
    BY <1>1 DEF Fresh
  <2>3. /\ FreshFile(cookie[q]) => FreshFile(cookie[q])'
        /\ FreshFile(answer[q]) => FreshFile(answer[q])'
    <3>1. /\ cookie[q].kind = "I" => cookie[q].sid \in Sids
          /\ answer[q] # None /\ answer[q].kind = "I" => answer[q].sid \in Sids
      BY <2>1, CookieKinds
    <3> QED
      BY <1>1, <1>2, <3>1 DEF FreshFile, Fresh
  <2> QED
    BY <1>1, <2>1, <2>2, <2>3 DEF CaptchaOK, Holds
<1>4. (\A r \in Requests : ~Active(r)') => FreshFile(jar)'
  <2>1. (\A r \in Requests : ~Active(r)') => FreshFile(jar)
    BY <1>1 DEF AllFresh, Active
  <2>2. jar.kind = "I" => jar.sid \in Sids
    BY CookieKinds DEF SessionTypeOK
  <2>3. NoCookie.kind # "I"
    BY DEF NoCookie
  <2> QED
    BY <1>1, <1>2, <2>1, <2>2, <2>3 DEF FreshFile, Fresh
<1> QED
  BY <1>3, <1>4 DEF AllFresh

(* Every step keeps what is known of the captchas. *)
LEMMA CaptchaStep ==
    ASSUME SessionTypeOK, SessionTypeOK', CaptchaInv, Next
    PROVE  CaptchaInv'
<1>1. CaptchasKept'
  BY CaptchasKeptStep DEF CaptchaInv
<1>2. ASSUME Calm' PROVE OneAtATime' /\ AllFresh'
  <2>1. Calm /\ CaptchasKept /\ OneAtATime /\ AllFresh
    BY <1>2, CalmBefore DEF CaptchaInv, AllFresh
  <2>2. OneAtATime'
    BY <1>2, <2>1, OneAtATimeStep
  <2>3. ASSUME NEW r \in Requests, Load(r) PROVE \A q \in Requests : ~Active(q)
    BY <1>2, <2>3, CalmBefore
  <2>4. AllFresh'
    BY <1>2, <2>1, <2>3, CalmBefore, StepKinds, FreshLoad, FreshHandle, FreshShort, FreshWrite,
       FreshReply, FreshIdle
  <2> QED
    BY <2>2, <2>4
<1> QED
  BY <1>1, <1>2 DEF CaptchaInv, AllFresh

(* What is known of the captchas, always. *)
LEMMA CaptchaInvariant == Spec => [](SessionTypeOK /\ CaptchaInv)
<1>1. Init => CaptchaInv
  <2> SUFFICES ASSUME Init PROVE CaptchaInv
    OBVIOUS
  <2>1. /\ \A r \in Requests : Blank(r)
        /\ \A s \in Sids : files[s] = None
        /\ jar = NoCookie /\ used = {} /\ NoCookie.kind = "none"
    BY InitOK DEF Init, NoCookie
  <2>2. CaptchasKept
    BY <2>1, SessionKeys DEF CaptchasKept, Kept, Blank
  <2>3. OneAtATime /\ FreshFile(jar) /\ \A r \in Requests : CaptchaOK(r)
    BY <2>1 DEF OneAtATime, FreshFile, CaptchaOK, Active, Blank
  <2> QED
    BY <2>2, <2>3 DEF CaptchaInv
<1>2. SessionTypeOK /\ CaptchaInv /\ SessionTypeOK' /\ [Next]_vars => CaptchaInv'
  <2> SUFFICES ASSUME SessionTypeOK, CaptchaInv, SessionTypeOK', [Next]_vars PROVE CaptchaInv'
    OBVIOUS
  <2>1. CASE UNCHANGED vars
    BY <2>1 DEF vars, CaptchaInv, CaptchasKept, Kept, Calm, OneAtATime, CaptchaOK, FreshFile, Fresh,
                Active, Holds
  <2> QED
    BY <2>1, CaptchaStep
<1> QED
  BY <1>1, <1>2, TypesKept, PTL DEF Spec

(* With one request at a time and no crash, an answer is compared with a   *)
(* captcha that no answer was compared with, whatever responses are lost.  *)
THEOREM CaptchaAlwaysOnce == Spec => []CaptchaOnce
<1>1. SessionTypeOK /\ CaptchaInv => CaptchaOnce
  <2> SUFFICES ASSUME SessionTypeOK, CaptchaInv, NEW r \in Requests, pc[r] = "loaded", ~Known(r),
                      crashes = 0, ~together
               PROVE  data[r].captcha \notin used \ {0}
    BY DEF CaptchaOnce
  <2>1. Fresh(data[r])
    BY DEF CaptchaInv, Calm, CaptchaOK
  <2> QED
    BY <2>1 DEF Fresh, Known, KnownBy
<1> QED
  BY <1>1, CaptchaInvariant, PTL

-----------------------------------------------------------------------------
(* The session is where the cookie says, and nowhere else. *)
AllKept == /\ \A r \in Requests : SessionOK(r)
           /\ (\A r \in Requests : ~Active(r)) => /\ OnlyLive(jar)
                                                 /\ KeptWith(jar, left.data, left.till)

(* A response that is lost stays lost. *)
LEMMA StillBefore ==
    ASSUME SessionTypeOK, Next, Still'
    PROVE  /\ Still /\ Calm' /\ ~CrashEffect
           /\ \A r \in Requests : ~LostEffect(r)
<1>1. lost \in Nat /\ lost' = 0 /\ Calm'
  BY DEF SessionTypeOK, Still
<1>2. Calm /\ ~CrashEffect
  BY <1>1, CalmBefore
<1>3. ASSUME NEW r \in Requests PROVE ~LostEffect(r)
  BY <1>1 DEF LostEffect
<1>4. lost = 0
  <2>1. ASSUME NEW r \in Requests,
               \/ Load(r) \/ HandleEffect(r) \/ ShortEffect(r) \/ IdEffect(r) \/ FileEffect(r)
               \/ ReplyEffect(r)
        PROVE  lost = 0
    BY <1>1, <2>1, LoadStep DEF HandleEffect, Same, ShortEffect, IdEffect, FileEffect, ReplyEffect
  <2>2. ASSUME GcEffect \/ ForgetEffect \/ TickEffect PROVE lost = 0
    BY <1>1, <2>2 DEF GcEffect, ForgetEffect, TickEffect, Idle
  <2> QED
    BY <1>2, <1>3, <2>1, <2>2, StepKinds
<1> QED
  BY <1>1, <1>2, <1>3, <1>4 DEF Still

(* A file is not None if it has a time. *)
LEMMA ARecord ==
    ASSUME NEW d \in Session, NEW t \in Nat
    PROVE  /\ [expires |-> t, header |-> d, body |-> d] # None
           /\ [expires |-> t, header |-> d, body |-> d].expires = t
           /\ [expires |-> t, header |-> d, body |-> d].header = d
           /\ [expires |-> t, header |-> d, body |-> d].body = d
<1>1. [expires |-> t, header |-> d, body |-> d] \in File
  BY DEF File
<1>2. [expires |-> t, header |-> d, body |-> d] # None
  BY <1>1, NoneAssumption
<1> QED
  BY <1>2

(* A cookie that is out of time keeps nothing. *)
LEMMA Expired ==
    ASSUME SessionTypeOK, NEW c \in Cookie, c # NoCookie, NEW d \in Session, NEW t \in Nat,
           OnlyLive(c), KeptWith(c, d, t), c.expires < now
    PROVE  t < now /\ \A s \in Sids : ~Live(s)
<1>1. c.kind \in {"C", "I"} /\ c.expires \in Nat /\ (c.kind = "I" => c.sid \in Sids) /\ now \in Nat
  BY CookieKinds DEF SessionTypeOK
<1>2. t < now
  BY <1>1 DEF KeptWith
<1>3. ASSUME NEW s \in Sids, Live(s) PROVE FALSE
  <2>1. c.kind = "I" /\ c.sid = s
    BY <1>3 DEF OnlyLive, Holds
  <2>2. files[s] = [expires |-> t, header |-> d, body |-> d]
    BY <1>3, <2>1 DEF KeptWith, Live
  <2>3. files[s].expires = t
    BY <2>2
  <2> QED
    BY <1>1, <1>2, <1>3, <2>3 DEF Live
<1> QED
  BY <1>2, <1>3

(* The request finds what the last one left. *)
LEMMA KeptLoad ==
    ASSUME SessionTypeOK, SessionTypeOK', AllKept, NEW r \in Requests, Others(r),
           Load(r), \A q \in Requests : ~Active(q)
    PROVE  AllKept'
<1>1. /\ pc'[r] = "loaded" /\ cookie'[r] = jar /\ data'[r] = Found.data /\ copy'[r] = Found.data
      /\ timeout_in'[r] = Found.expires /\ jar' = jar /\ now' = now /\ left' = left
      /\ \A s \in Sids : files'[s] = IF Found = NotFound /\ Holds(jar, s) THEN None ELSE files[s]
  BY LoadStep
<1>2. /\ OnlyLive(jar) /\ KeptWith(jar, left.data, left.till) /\ jar \in Cookie /\ now \in Nat
      /\ left.data \in Session /\ left.till \in Nat
  BY DEF AllKept, SessionTypeOK
<1>3. \A s \in Sids : Live(s)' => Live(s)
  BY <1>1 DEF Live
<1>4. jar.kind \in {"none", "C", "I"} /\ (jar = NoCookie <=> jar.kind = "none")
  BY <1>2, CookieKinds
<1>5. OnlyLive(cookie[r])'
  BY <1>1, <1>2, <1>3 DEF OnlyLive
<1>6. ASSUME jar.kind = "none" PROVE FoundOK(r)'
  <2>1. Found.data = Empty
    BY <1>6, FoundCases DEF NotFound
  <2>2. \A s \in Sids : ~Live(s)
    BY <1>2, <1>4, <1>6, HoldsNone DEF OnlyLive
  <2> QED
    BY <1>1, <1>3, <1>5, <2>1, <2>2 DEF FoundOK
<1>7. ASSUME jar.kind = "C" PROVE FoundOK(r)'
  <2>1. left.data # Empty /\ jar.data = left.data /\ jar.expires = left.till
    BY <1>2, <1>4, <1>7 DEF KeptWith
  <2>2. \A s \in Sids : ~Live(s)
    BY <1>2, <1>7, HoldsNone DEF OnlyLive
  <2>3. CASE jar.expires >= now
    <3>1. Found.data = jar.data /\ Found.expires = jar.expires
      BY <1>7, <2>3, FoundCases
    <3>2. KeptWith(cookie[r], copy[r], timeout_in[r])'
      BY <1>1, <1>4, <1>7, <2>1, <3>1 DEF KeptWith
    <3> QED
      BY <1>1, <1>4, <1>5, <1>7, <2>1, <3>1, <3>2 DEF FoundOK
  <2>4. CASE jar.expires < now
    <3>1. Found.data = Empty
      BY <1>7, <2>4, FoundCases DEF NotFound
    <3> QED
      BY <1>1, <1>3, <1>5, <2>1, <2>2, <2>4, <3>1 DEF FoundOK
  <2> QED
    BY <1>2, <2>1, <2>3, <2>4
<1>8. ASSUME jar.kind = "I" PROVE FoundOK(r)'
  <2>1. /\ left.data # Empty /\ jar.expires = left.till /\ jar.sid \in Sids
        /\ \/ files[jar.sid] = None /\ left.till < now
           \/ files[jar.sid] = [expires |-> left.till, header |-> left.data, body |-> left.data]
    BY <1>2, <1>4, <1>8, CookieKinds DEF KeptWith
  <2>2. CASE Readable(files[jar.sid])
    <3>1. files[jar.sid] = [expires |-> left.till, header |-> left.data, body |-> left.data]
      BY <2>1, <2>2 DEF Readable
    <3>2. Found.data = left.data /\ Found.expires = left.till
      BY <1>2, <1>8, <2>2, <3>1, FoundCases, ARecord
    <3>3. files'[jar.sid] = files[jar.sid]
      BY <1>1, <2>1, <3>2 DEF NotFound
    <3>4. KeptWith(cookie[r], copy[r], timeout_in[r])'
      BY <1>1, <1>4, <1>8, <2>1, <3>1, <3>2, <3>3 DEF KeptWith
    <3> QED
      BY <1>1, <1>4, <1>5, <1>8, <2>1, <3>2, <3>4 DEF FoundOK
  <2>3. CASE ~Readable(files[jar.sid])
    <3>1. Found = NotFound /\ Found.data = Empty
      BY <1>8, <2>3, FoundCases DEF NotFound
    <3>3. \A s \in Sids : ~Live(s)'
      <4>1. ASSUME NEW s \in Sids, Live(s)' PROVE FALSE
        <5>1. Holds(jar, s)
          BY <1>2, <1>3, <4>1 DEF OnlyLive
        <5> QED
          BY <1>1, <3>1, <4>1, <5>1 DEF Live
      <4> QED
        BY <4>1
    <3> QED
      BY <1>1, <1>5, <3>1, <3>3 DEF FoundOK
  <2> QED
    BY <2>2, <2>3
<1>9. SessionOK(r)'
  <2>1. FoundOK(r)'
    BY <1>4, <1>6, <1>7, <1>8
  <2> QED
    BY <1>1, <2>1 DEF SessionOK
<1>10. \A q \in Requests \ {r} : SessionOK(q)'
  BY DEF SessionOK, Others, Active
<1> QED
  BY <1>1, <1>9, <1>10 DEF AllKept, Active

(* An application leaves what was found where it is. *)
LEMMA KeptHandle ==
    ASSUME SessionTypeOK, SessionTypeOK', AllKept, OneAtATime, NEW r \in Requests, Others(r),
           HandleEffect(r)
    PROVE  AllKept'
<1>1. /\ pc[r] = "loaded" /\ pc'[r] = "save" /\ cookie' = cookie /\ copy' = copy /\ jar' = jar
      /\ files' = files /\ now' = now /\ timeout_in' = timeout_in
  BY DEF HandleEffect, Same
<1>2. FoundOK(r) /\ SessionOK(r)
  BY <1>1 DEF AllKept, SessionOK
<1>3. FoundOK(r)'
  BY <1>1, <1>2 DEF FoundOK, OnlyLive, Live, KeptWith
<1>4. SessionOK(r)'
  BY <1>1, <1>2, <1>3 DEF SessionOK, Active
<1>5. \A q \in Requests \ {r} : ~Active(q)'
  BY <1>1, OthersIdle DEF Active
<1> QED
  BY <1>1, <1>4, <1>5 DEF AllKept, SessionOK, Active

(* The old file goes before the session is elsewhere. *)
LEMMA KeptShort ==
    ASSUME SessionTypeOK, SessionTypeOK', AllKept, OneAtATime, NEW r \in Requests, Others(r),
           ShortEffect(r) \/ IdEffect(r)
    PROVE  AllKept'
<1>1. /\ pc[r] = "save" /\ pc'[r] \in {"write", "reply"} /\ cookie' = cookie /\ copy' = copy
      /\ jar' = jar /\ now' = now /\ timeout_in' = timeout_in /\ data' = data
  BY DEF ShortEffect, IdEffect, request
<1>2. FoundOK(r) /\ SessionOK(r)
  BY <1>1 DEF AllKept, SessionOK
<1>3. GoneWith(cookie[r]) => \A s \in Sids : ~Live(s)'
  BY <1>1, <1>2 DEF GoneWith, FoundOK, OnlyLive, Live
<1>4. SessionOK(r)'
  <2>1. CASE ShortEffect(r)
    <3>1. CASE data[r] = Empty /\ GoneWith(cookie[r])
               /\ answer'[r] = IF cookie[r] = NoCookie THEN None ELSE NoCookie
      <4>1. NoCookie # None
        BY NoneAssumption DEF Cookie
      <4> QED
        BY <1>1, <1>2, <1>3, <2>1, <3>1, <4>1 DEF SessionOK, ShortEffect, Active
    <3>2. CASE data[r] # Empty /\ data[r] = copy[r] /\ files' = files /\ answer'[r] = None
      <4>1. FoundOK(r)'
        BY <1>1, <1>2, <3>2 DEF FoundOK, OnlyLive, Live, KeptWith
      <4>2. NoCookie # None
        BY NoneAssumption DEF Cookie
      <4> QED
        BY <1>1, <1>2, <2>1, <3>2, <4>1, <4>2 DEF SessionOK, ShortEffect, Active
    <3>3. CASE /\ data[r] # Empty /\ GoneWith(cookie[r]) /\ answer'[r] \in Cookie
               /\ answer'[r].kind = "C" /\ answer'[r].data = data[r]
      <4>1. answer'[r] # None /\ answer'[r] # NoCookie
        BY <3>3, CookieKinds
      <4>2. OnlyLive(answer[r])'
        BY <1>3, <3>3 DEF OnlyLive
      <4>3. KeptWith(answer[r], data[r], answer[r].expires)'
        BY <1>1, <3>3, <4>1 DEF KeptWith
      <4> QED
        BY <1>1, <1>2, <2>1, <4>1, <4>2, <4>3 DEF SessionOK, ShortEffect, Active
    <3> QED
      BY <2>1, <3>1, <3>2, <3>3 DEF ShortEffect
  <2>2. CASE IdEffect(r)
    <3>1. OnlyLive(answer[r])'
      <4>1. CASE GoneWith(cookie[r])
        BY <1>3, <4>1 DEF OnlyLive
      <4>2. CASE answer'[r] = cookie[r] /\ files' = files
        BY <1>1, <1>2, <4>2 DEF OnlyLive, FoundOK, Live
      <4> QED
        BY <2>2, <4>1, <4>2 DEF IdEffect
    <3> QED
      BY <1>1, <1>2, <2>2, <3>1 DEF SessionOK, IdEffect, Active
  <2> QED
    BY <2>1, <2>2
<1>5. \A q \in Requests \ {r} : ~Active(q)'
  BY <1>1, OthersIdle DEF Active
<1> QED
  BY <1>1, <1>4, <1>5 DEF AllKept, SessionOK, Active

(* The file has the session, and the response the id and the time. *)
LEMMA KeptWrite ==
    ASSUME SessionTypeOK, SessionTypeOK', AllKept, OneAtATime, NEW r \in Requests, Others(r),
           FileEffect(r)
    PROVE  AllKept'
<1>1. PICK s \in Sids : s = answer[r].sid
  BY DEF FileEffect
<1>2. /\ files'[s] = [expires |-> session_age(r), header |-> data[r], body |-> data[r]]
      /\ \A t \in Sids : t # s => files'[t] = files[t]
  BY <1>1, FileWritten
<1>3. /\ pc[r] = "write" /\ pc'[r] = "reply" /\ cookie' = cookie /\ jar' = jar /\ now' = now
      /\ data' = data /\ answer'[r] \in IdCookie /\ answer'[r].sid = s
      /\ answer'[r].expires = session_age(r)
  BY <1>1 DEF FileEffect, request
<1>4. answer'[r].kind = "I" /\ answer'[r] # None /\ answer'[r] # NoCookie /\ answer'[r].kind # "C"
  <2>1. answer'[r] \in Cookie /\ answer'[r].kind = "I"
    BY <1>3 DEF Cookie, IdCookie
  <2> QED
    BY <2>1, CookieKinds
<1>5. SessionOK(r) /\ OnlyLive(answer[r]) /\ data[r] # Empty
  BY <1>3, WriterHolds DEF AllKept, SessionOK
<1>6. OnlyLive(answer[r])'
  <2>1. ASSUME NEW t \in Sids, Live(t)' PROVE Holds(answer'[r], t)
    <3>1. CASE t = s
      BY <1>3, <1>4, <3>1 DEF Holds
    <3>2. CASE t # s
      <4>1. Live(t)
        BY <1>2, <1>3, <2>1, <3>2 DEF Live
      <4> QED
        BY <1>1, <1>5, <3>2, <4>1 DEF OnlyLive, Holds
    <3> QED
      BY <3>1, <3>2
  <2> QED
    BY <2>1 DEF OnlyLive
<1>7. KeptWith(answer[r], data[r], answer[r].expires)'
  BY <1>2, <1>3, <1>4, <1>5 DEF KeptWith
<1>8. SessionOK(r)'
  BY <1>3, <1>4, <1>5, <1>6, <1>7 DEF SessionOK, Active
<1>9. \A q \in Requests \ {r} : ~Active(q)'
  BY <1>3, OthersIdle DEF Active
<1> QED
  BY <1>3, <1>8, <1>9 DEF AllKept, SessionOK, Active

(* The browser has the cookie that says where the session is. *)
LEMMA KeptReply ==
    ASSUME SessionTypeOK, SessionTypeOK', AllKept, OneAtATime, NEW r \in Requests, Others(r),
           ReplyEffect(r), KeptWith(jar, left.data, left.till)'
    PROVE  AllKept'
<1>1. /\ pc[r] = "reply" /\ pc'[r] = "idle" /\ files' = files /\ now' = now
      /\ jar' = IF answer[r] = None THEN jar ELSE answer[r]
  BY DEF ReplyEffect, Blank
<1>2. SessionOK(r) /\ (jar = cookie[r] \/ (jar = NoCookie /\ cookie[r] # NoCookie /\ cookie[r].expires < now))
  BY <1>1 DEF AllKept, SessionOK, Active
<1>3. /\ cookie[r] \in Cookie /\ copy[r] \in Session /\ timeout_in[r] \in Nat
      /\ NoCookie.kind = "none" /\ NoCookie # None
  BY NoneAssumption DEF SessionTypeOK, NoCookie, Cookie
<1>4. OnlyLive(jar)'
  <2>1. CASE answer[r] = None /\ FoundOK(r) /\ data[r] = copy[r] /\ data[r] # Empty
    <3>1. /\ OnlyLive(cookie[r]) /\ cookie[r] # NoCookie
          /\ KeptWith(cookie[r], copy[r], timeout_in[r])
      BY <2>1 DEF FoundOK
    <3>2. CASE jar = cookie[r]
      BY <1>1, <2>1, <3>1, <3>2 DEF OnlyLive, Live
    <3>3. CASE jar = NoCookie /\ cookie[r].expires < now
      <4>1. timeout_in[r] < now /\ \A s \in Sids : ~Live(s)
        BY <1>3, <3>1, <3>3, Expired
      <4> QED
        BY <1>1, <1>3, <2>1, <3>3, <4>1 DEF OnlyLive, Live
    <3> QED
      BY <1>2, <3>2, <3>3
  <2>2. CASE /\ answer[r] = None /\ cookie[r] = NoCookie /\ data[r] = Empty
             /\ \A s \in Sids : ~Live(s)
    BY <1>1, <1>2, <1>3, <2>2 DEF OnlyLive, Live
  <2>3. CASE answer[r] = NoCookie
    <3>1. \A s \in Sids : ~Live(s)
      BY <1>1, <1>2, <2>3 DEF SessionOK
    <3> QED
      BY <1>1, <1>3, <2>3, <3>1 DEF OnlyLive, Live
  <2>4. CASE answer[r] \notin {None, NoCookie}
    <3>1. OnlyLive(answer[r])
      BY <1>1, <1>2, <2>4 DEF SessionOK
    <3> QED
      BY <1>1, <2>4, <3>1 DEF OnlyLive, Live
  <2> QED
    BY <1>1, <1>2, <2>1, <2>2, <2>3, <2>4 DEF SessionOK
<1>5. \A q \in Requests : ~Active(q)'
  BY <1>1, OthersIdle DEF Active
<1> QED
  BY <1>4, <1>5 DEF AllKept, SessionOK, Active

(* A file expires, or the cookie, or time goes by: what is kept with a     *)
(* cookie is so, as far as its time is not over.                           *)
LEMMA KeptLater ==
    ASSUME SessionTypeOK, SessionTypeOK', GcEffect \/ ForgetEffect \/ TickEffect,
           NEW c \in Cookie, NEW d \in Session, NEW t \in Nat
    PROVE  /\ \A s \in Sids : Live(s)' => Live(s)
           /\ KeptWith(c, d, t) => KeptWith(c, d, t)'
<1>1. now \in Nat /\ now' \in Nat /\ now' >= now
  BY DEF SessionTypeOK, GcEffect, ForgetEffect, TickEffect
<1>2. \A s \in Sids : \/ files'[s] = files[s]
                      \/ files[s] # None /\ files[s].expires < now /\ files'[s] = None
  BY DEF GcEffect, ForgetEffect, TickEffect, SessionTypeOK
<1>3. \A s \in Sids : files[s] # None => files[s].expires \in Nat
  BY FileParts DEF SessionTypeOK
<1>4. \A s \in Sids : Live(s)' => Live(s)
  BY <1>1, <1>2, <1>3 DEF Live
<1>5. ASSUME KeptWith(c, d, t) PROVE KeptWith(c, d, t)'
  <2>1. c = NoCookie => d = Empty \/ t < now'
    BY <1>1, <1>5 DEF KeptWith
  <2>2. ASSUME c.kind = "I"
        PROVE  \/ files'[c.sid] = None /\ t < now'
               \/ files'[c.sid] = [expires |-> t, header |-> d, body |-> d]
    <3>1. c.sid \in Sids
      BY <2>2, CookieKinds
    <3>2. CASE files[c.sid] = None /\ t < now
      BY <1>1, <1>2, <3>1, <3>2
    <3>3. CASE files[c.sid] = [expires |-> t, header |-> d, body |-> d]
      <4>1. files[c.sid].expires = t
        BY <3>3
      <4> QED
        BY <1>1, <1>2, <3>1, <3>3, <4>1
    <3> QED
      BY <1>5, <2>2, <3>2, <3>3 DEF KeptWith
  <2> QED
    BY <1>5, <2>1, <2>2 DEF KeptWith
<1> QED
  BY <1>4, <1>5

-----------------------------------------------------------------------------
(* One request at a time, and no response lost, but the process may be     *)
(* killed: what is kept for the cookie of the browser is the session it    *)
(* was told of, or one that has begun to be saved since.                   *)
Waits == ~together /\ lost = 0

AnswerOK(r) ==
    /\ answer[r] # None => pc[r] \in {"write", "reply"}
    /\ pc[r] = "reply" /\ answer[r] # None =>
         KeptWith(answer[r], data[r], IF answer[r] = NoCookie THEN 0 ELSE answer[r].expires)
    /\ pc[r] = "loaded" => \/ data[r] \in {left.data} \cup killed
                           \/ data[r] = Empty /\ (left.till < now \/ killed # {})
SessionThere ==
    /\ killed = {} /\ Saved = {} => KeptWith(jar, left.data, left.till)
    /\ jar.kind = "C" => jar.data = left.data
    /\ jar.kind = "I" /\ files[jar.sid] # None /\ files[jar.sid].header = files[jar.sid].body =>
         files[jar.sid].body \in {left.data} \cup killed \cup Saved
WaitInv ==
    /\ crashes = 0 => killed = {}
    /\ Waits => /\ \A q, r \in Requests : Active(q) /\ Active(r) => q = r
                /\ \A r \in Requests : AnswerOK(r)
                /\ SessionThere

(* What follows is about one request that is alone. *)
Alone(r) == \A q \in Requests \ {r} : ~Active(q) /\ answer[q] = None
WaitOK == (\A r \in Requests : AnswerOK(r)) /\ SessionThere

LEMMA AloneStays ==
    ASSUME SessionTypeOK, WaitOK, NEW r \in Requests, Alone(r), Others(r)
    PROVE  /\ Alone(r)' /\ \A q \in Requests \ {r} : AnswerOK(q)'
           /\ Saved = IF answer[r] = None THEN {} ELSE {data[r]}
           /\ Saved' = IF answer'[r] = None THEN {} ELSE {data'[r]}
BY DEF Alone, Others, AnswerOK, Active, Saved

(* The request finds what is there. *)
LEMMA WaitLoad ==
    ASSUME SessionTypeOK, SessionTypeOK', WaitOK, NEW r \in Requests, Alone(r), Others(r), Load(r)
    PROVE  WaitOK'
<1>1. /\ pc[r] = "idle" /\ pc'[r] = "loaded" /\ data'[r] = Found.data /\ answer' = answer
      /\ jar' = jar /\ now' = now /\ left' = left /\ killed' = killed
      /\ \A s \in Sids : files'[s] = IF Found = NotFound /\ Holds(jar, s) THEN None ELSE files[s]
  BY LoadStep
<1>2. answer[r] = None /\ Saved = {} /\ Saved' = {}
  BY <1>1, AloneStays DEF WaitOK, AnswerOK
<1>3. /\ jar \in Cookie /\ now \in Nat /\ left.data \in Session /\ left.till \in Nat
      /\ jar.kind \in {"none", "C", "I"} /\ (jar = NoCookie <=> jar.kind = "none")
      /\ jar.kind = "I" => jar.sid \in Sids /\ Holds(jar, jar.sid)
  BY CookieKinds, HoldsNone DEF SessionTypeOK
<1>4. CASE Found = NotFound
  <2>1. Found.data = Empty
    BY <1>4 DEF NotFound
  <2>2. ASSUME killed = {} PROVE data'[r] = left.data \/ left.till < now
    <3>1. KeptWith(jar, left.data, left.till)
      BY <1>2, <2>2 DEF WaitOK, SessionThere
    <3>2. CASE jar.kind = "none"
      BY <1>1, <1>3, <2>1, <3>1, <3>2 DEF KeptWith
    <3>3. CASE jar.kind = "C"
      <4>1. jar.expires < now \/ Found.data = jar.data
        BY <1>3, <3>3, CookieKinds, FoundCases
      <4> QED
        BY <1>1, <3>1, <3>3, <4>1 DEF KeptWith
    <3>4. CASE jar.kind = "I"
      <4>1. CASE files[jar.sid] = None /\ left.till < now
        BY <4>1
      <4>2. CASE files[jar.sid] = [expires |-> left.till, header |-> left.data, body |-> left.data]
        <5>1. Readable(files[jar.sid]) => Found.data = left.data
          BY <1>3, <3>4, <4>2, FoundCases, ARecord
        <5> QED
          BY <1>1, <1>3, <4>2, <5>1, ARecord DEF Readable
      <4> QED
        BY <3>1, <3>4, <4>1, <4>2 DEF KeptWith
    <3> QED
      BY <1>3, <3>2, <3>3, <3>4
  <2>3. ASSUME killed = {} PROVE KeptWith(jar, left.data, left.till)'
    <3>1. KeptWith(jar, left.data, left.till)
      BY <1>2, <2>3 DEF WaitOK, SessionThere
    <3>2. jar.kind = "I" => files'[jar.sid] = None
      BY <1>1, <1>3, <1>4
    <3>3. jar.kind = "I" => left.till < now
      <4>1. ASSUME jar.kind = "I", left.till >= now PROVE FALSE
        <5>1. files[jar.sid] = [expires |-> left.till, header |-> left.data, body |-> left.data]
          BY <1>3, <3>1, <4>1 DEF KeptWith
        <5>2. Found.data = left.data /\ left.data # Empty
          BY <1>3, <3>1, <4>1, <5>1, FoundCases, ARecord DEF Readable, KeptWith
        <5> QED
          BY <2>1, <5>2
      <4> QED
        BY <1>3, <4>1
    <3> QED
      BY <1>1, <3>1, <3>2, <3>3 DEF KeptWith
  <2>4. SessionThere'
    <3>1. jar.kind = "I" => files'[jar.sid] = None
      BY <1>1, <1>3, <1>4
    <3> QED
      BY <1>1, <1>2, <2>3, <3>1 DEF WaitOK, SessionThere
  <2> QED
    BY <1>1, <1>2, <2>1, <2>2, <2>4, AloneStays DEF WaitOK, AnswerOK
<1>5. CASE Found # NotFound
  <2>1. \A s \in Sids : files'[s] = files[s]
    BY <1>1, <1>5
  <2>2. Found.data \in {left.data} \cup killed
    BY <1>2, <1>5, FoundCases DEF WaitOK, SessionThere
  <2>3. SessionThere'
    BY <1>1, <1>2, <1>3, <2>1 DEF WaitOK, SessionThere, KeptWith
  <2> QED
    BY <1>1, <1>2, <2>2, <2>3, AloneStays DEF WaitOK, AnswerOK
<1> QED
  BY <1>4, <1>5

(* It works, or begins to save, and does not touch what is there but for   *)
(* removing it when it has an answer of its own.                           *)
LEMMA WaitHandle ==
    ASSUME SessionTypeOK, SessionTypeOK', WaitOK, NEW r \in Requests, Alone(r), Others(r),
           HandleEffect(r) \/ ShortEffect(r) \/ IdEffect(r)
    PROVE  WaitOK'
<1>1. /\ pc[r] \in {"loaded", "save"} /\ pc'[r] \in {"save", "write", "reply"}
      /\ jar' = jar /\ now' = now /\ left' = left /\ killed' = killed
      /\ jar.kind = "I" => jar.sid \in Sids
  BY CookieKinds DEF HandleEffect, Same, ShortEffect, IdEffect, request, history, SessionTypeOK
<1>2. answer[r] = None /\ Saved = {}
  BY <1>1, AloneStays DEF WaitOK, AnswerOK
<1>3. \A s \in Sids : files'[s] = files[s] \/ (files'[s] = None /\ answer'[r] # None)
  <2>1. HandleEffect(r) => files' = files
    BY DEF HandleEffect, Same
  <2>2. IdEffect(r) => pc'[r] = "write"
    BY DEF IdEffect
  <2>3. IdEffect(r) => answer'[r] # None
    <3>1. pc'[r] = "write" => answer'[r] \in IdCookie
      BY DEF SessionTypeOK
    <3>2. answer'[r] \in IdCookie => answer'[r] \in Cookie
      BY DEF Cookie
    <3> QED
      BY <2>2, <3>1, <3>2, CookieKinds
  <2> QED
    BY <2>1, <2>2, <2>3, HoldsNone, NoneAssumption DEF HandleEffect, ShortEffect, IdEffect, GoneWith, Cookie
<1>4. AnswerOK(r)'
  <2>1. CASE HandleEffect(r)
    BY <1>1, <1>2, <2>1 DEF HandleEffect, Same, AnswerOK
  <2>2. CASE IdEffect(r)
    BY <1>1, <2>2 DEF IdEffect, AnswerOK
  <2>3. CASE ShortEffect(r)
    <3>1. CASE answer'[r] = NoCookie /\ data[r] = Empty
      <4>1. NoCookie.kind = "none"
        BY DEF NoCookie
      <4> QED
        BY <1>1, <2>3, <3>1, <4>1 DEF ShortEffect, request, AnswerOK, KeptWith
    <3>2. CASE answer'[r] = None
      BY <1>1, <2>3, <3>2 DEF ShortEffect, AnswerOK
    <3>3. CASE answer'[r] \in Cookie /\ answer'[r].kind = "C" /\ answer'[r].data = data[r] /\ data[r] # Empty
      <4>1. answer'[r] # NoCookie /\ data'[r] = data[r] /\ pc'[r] = "reply"
        BY <2>3, <3>3, CookieKinds DEF ShortEffect, request
      <4> QED
        BY <3>3, <4>1 DEF AnswerOK, KeptWith
    <3> QED
      BY <2>3, <3>1, <3>2, <3>3 DEF ShortEffect
  <2> QED
    BY <2>1, <2>2, <2>3
<1>5. SessionThere'
  <2>1. Saved' = {} => answer'[r] = None
    BY AloneStays
  <2> QED
    BY <1>1, <1>2, <1>3, <2>1 DEF WaitOK, SessionThere, KeptWith
<1> QED
  BY <1>4, <1>5, AloneStays DEF WaitOK

(* What is written is what the response will tell the browser of. *)
LEMMA WaitWrite ==
    ASSUME SessionTypeOK, SessionTypeOK', WaitOK, NEW r \in Requests, Alone(r), Others(r),
           FileEffect(r)
    PROVE  WaitOK'
<1>1. PICK s \in Sids : s = answer[r].sid
  BY DEF FileEffect
<1>2. /\ files'[s] = [expires |-> session_age(r), header |-> data[r], body |-> data[r]]
      /\ files'[s].body = data[r]
      /\ \A t \in Sids : t # s => files'[t] = files[t]
  BY <1>1, FileWritten
<1>3. /\ pc[r] = "write" /\ pc'[r] = "reply" /\ jar' = jar /\ now' = now /\ data' = data
      /\ left' = left /\ killed' = killed /\ answer'[r] \in IdCookie /\ answer'[r].sid = s
      /\ answer'[r].expires = session_age(r) /\ data[r] # Empty
      /\ jar.kind = "I" => jar.sid \in Sids
  BY <1>1, CookieKinds DEF FileEffect, request, SessionTypeOK
<1>4. /\ answer'[r].kind = "I" /\ answer'[r] # None /\ answer'[r] # NoCookie
      /\ answer[r] # None
  <2>1. answer'[r] \in Cookie /\ answer'[r].kind = "I" /\ answer[r] \in Cookie
    BY <1>3 DEF Cookie, IdCookie, SessionTypeOK
  <2> QED
    BY <2>1, CookieKinds
<1>5. Saved = {data[r]} /\ Saved' = {data[r]}
  BY <1>3, <1>4, AloneStays
<1>6. AnswerOK(r)'
  BY <1>2, <1>3, <1>4 DEF AnswerOK, KeptWith
<1>7. SessionThere'
  BY <1>2, <1>3, <1>5 DEF WaitOK, SessionThere
<1> QED
  BY <1>6, <1>7, AloneStays DEF WaitOK

(* The browser is told of it. *)
LEMMA WaitReply ==
    ASSUME SessionTypeOK, SessionTypeOK', WaitOK, NEW r \in Requests, Alone(r), Others(r),
           ReplyEffect(r)
    PROVE  WaitOK'
<1>1. /\ pc[r] = "reply" /\ pc'[r] = "idle" /\ answer'[r] = None /\ files' = files /\ now' = now
      /\ jar' = IF answer[r] = None THEN jar ELSE answer[r]
      /\ left' = IF answer[r] = None THEN left
                 ELSE [data |-> data[r],
                       till |-> IF answer[r] = NoCookie THEN 0 ELSE answer[r].expires]
      /\ killed' = IF answer[r] = None THEN killed ELSE {}
  BY DEF ReplyEffect, Blank
<1>2. Saved' = {}
  BY <1>1, AloneStays
<1>3. AnswerOK(r)'
  BY <1>1 DEF AnswerOK
<1>4. SessionThere'
  <2>1. CASE answer[r] = None
    <3>1. Saved = {}
      BY <2>1, AloneStays
    <3> QED
      BY <1>1, <1>2, <2>1, <3>1 DEF WaitOK, SessionThere, KeptWith
  <2>2. CASE answer[r] # None
    <3>1. KeptWith(answer[r], data[r], IF answer[r] = NoCookie THEN 0 ELSE answer[r].expires)
      BY <1>1, <2>2 DEF WaitOK, AnswerOK
    <3>2. /\ jar' = answer[r] /\ left'.data = data[r]
          /\ left'.till = IF answer[r] = NoCookie THEN 0 ELSE answer[r].expires
      BY <1>1, <2>2
    <3>3. KeptWith(jar, left.data, left.till)'
      BY <1>1, <3>1, <3>2 DEF KeptWith
    <3>4. \A t \in Nat : [expires |-> t, header |-> data[r], body |-> data[r]].body = data[r]
      OBVIOUS
    <3>5. answer[r].kind = "I" => files[answer[r].sid] = None \/ files[answer[r].sid].body = data[r]
      BY <3>1 DEF KeptWith
    <3> QED
      BY <1>1, <3>1, <3>2, <3>3, <3>5 DEF SessionThere, KeptWith
  <2> QED
    BY <2>1, <2>2
<1> QED
  BY <1>3, <1>4, AloneStays DEF WaitOK

(* A process that is killed leaves what was there, or what it was saving;  *)
(* or a file that is not whole.                                            *)
LEMMA WaitCrash ==
    ASSUME SessionTypeOK, SessionTypeOK', WaitOK, CrashEffect
    PROVE  WaitOK'
<1>1. /\ \A q \in Requests : pc'[q] = "idle" /\ answer'[q] = None
      /\ jar' = jar /\ now' = now /\ left' = left /\ killed' = killed \cup Saved
      /\ jar.kind = "I" => jar.sid \in Sids
  BY CookieKinds DEF CrashEffect, Blank, SessionTypeOK
<1>2. Saved' = {}
  BY <1>1 DEF Saved
<1>3. SessionThere'
  <2>1. CASE files' = files
    BY <1>1, <1>2, <2>1 DEF WaitOK, SessionThere, KeptWith
  <2>2. ASSUME NEW r \in Requests, Torn(r) PROVE SessionThere'
    <3>1. PICK s \in Sids : s = answer[r].sid
      BY <2>2 DEF Torn
    <3>2. files'[s].header = data[r] /\ \A t \in Sids : t # s => files'[t] = files[t]
      BY <2>2, <3>1, FileTorn
    <3>3. data[r] \in Saved
      <4>1. answer[r] # None
        BY <2>2, WriterHolds, HoldsNone DEF Torn
      <4> QED
        BY <4>1 DEF Saved
    <3> QED
      BY <1>1, <1>2, <3>2, <3>3 DEF WaitOK, SessionThere
  <2> QED
    BY <2>1, <2>2 DEF CrashEffect
<1> QED
  BY <1>1, <1>3 DEF WaitOK, AnswerOK

(* A file expires, or the cookie, or time goes by. *)
LEMMA WaitIdle ==
    ASSUME SessionTypeOK, SessionTypeOK', WaitOK, GcEffect \/ ForgetEffect \/ TickEffect
    PROVE  WaitOK'
<1>1. /\ pc' = pc /\ data' = data /\ answer' = answer /\ left' = left /\ killed' = killed
      /\ jar' = jar \/ (jar # NoCookie /\ jar.expires < now /\ jar' = NoCookie)
  BY DEF GcEffect, ForgetEffect, TickEffect, Idle, request, history
<1>2. /\ now \in Nat /\ now' \in Nat /\ now' >= now /\ left.till \in Nat /\ left.data \in Session
      /\ jar \in Cookie /\ (jar.kind = "I" => jar.sid \in Sids)
      /\ \A s \in Sids : files'[s] = files[s] \/ files'[s] = None
  BY CookieKinds DEF SessionTypeOK, GcEffect, ForgetEffect, TickEffect
<1>3. NoCookie.kind = "none"
  BY DEF NoCookie
<1>4. ASSUME NEW r \in Requests PROVE AnswerOK(r)'
  <2>1. AnswerOK(r) /\ answer[r] \in Cookie \cup {None} /\ data[r] \in Session
    BY DEF WaitOK, SessionTypeOK
  <2>2. ASSUME pc[r] = "reply", answer[r] # None
        PROVE  KeptWith(answer[r], data[r], IF answer[r] = NoCookie THEN 0 ELSE answer[r].expires)'
    <3>1. PICK c \in Cookie, d \in Session, t \in Nat :
            c = answer[r] /\ d = data[r] /\ t = IF answer[r] = NoCookie THEN 0 ELSE answer[r].expires
      <4>1. answer[r] # NoCookie => answer[r].expires \in Nat
        BY <2>1, <2>2, CookieKinds
      <4> QED
        BY <2>1, <2>2, <4>1
    <3>2. KeptWith(c, d, t)
      BY <2>1, <2>2, <3>1 DEF AnswerOK
    <3>3. KeptWith(c, d, t)'
      BY <3>2, KeptLater
    <3> QED
      BY <1>1, <3>1, <3>3 DEF KeptWith
  <2>3. pc'[r] = "loaded" => \/ data'[r] \in {left'.data} \cup killed'
                             \/ data'[r] = Empty /\ (left'.till < now' \/ killed' # {})
    BY <1>1, <1>2, <2>1 DEF AnswerOK
  <2> QED
    BY <1>1, <2>1, <2>2, <2>3 DEF AnswerOK
<1>5. Saved' = Saved
  BY <1>1 DEF Saved
<1>6. ASSUME killed = {}, Saved = {} PROVE KeptWith(jar, left.data, left.till)'
  <2>1. KeptWith(jar, left.data, left.till)
    BY <1>6 DEF WaitOK, SessionThere
  <2>2. CASE jar' = jar
    <3>1. PICK c \in Cookie, d \in Session, t \in Nat : c = jar /\ d = left.data /\ t = left.till
      BY <1>2
    <3>2. KeptWith(c, d, t)'
      BY <2>1, <3>1, KeptLater
    <3> QED
      BY <1>1, <2>2, <3>1, <3>2 DEF KeptWith
  <2>3. CASE jar # NoCookie /\ jar.expires < now /\ jar' = NoCookie
    <3>1. left.till < now
      <4>1. jar.kind \in {"C", "I"}
        BY <1>2, <2>3, CookieKinds
      <4> QED
        BY <2>1, <2>3, <4>1 DEF KeptWith
    <3>2. left'.till < now'
      BY <1>1, <1>2, <3>1
    <3> QED
      BY <1>3, <2>3, <3>2 DEF KeptWith
  <2> QED
    BY <1>1, <2>2, <2>3
<1>7. SessionThere'
  BY <1>1, <1>2, <1>3, <1>5, <1>6 DEF WaitOK, SessionThere
<1> QED
  BY <1>4, <1>7 DEF WaitOK

(* As long as the browser waits, it did before. *)
LEMMA WaitsBefore ==
    ASSUME SessionTypeOK, Next, Waits'
    PROVE  /\ Waits /\ \A r \in Requests : ~LostEffect(r)
           /\ \A r \in Requests : Load(r) => \A q \in Requests : ~Active(q)
<1>1. lost \in Nat /\ lost' = 0 /\ together \in BOOLEAN /\ ~together'
  BY DEF SessionTypeOK, Waits
<1>2. ASSUME NEW r \in Requests, Load(r) PROVE Waits /\ \A q \in Requests : ~Active(q)
  BY <1>1, <1>2, LoadStep DEF Waits
<1>3. ASSUME NEW r \in Requests PROVE ~LostEffect(r)
  BY <1>1 DEF LostEffect
<1>4. ASSUME NEW r \in Requests,
             \/ HandleEffect(r) \/ ShortEffect(r) \/ IdEffect(r) \/ FileEffect(r)
             \/ ReplyEffect(r)
      PROVE  Waits
  BY <1>1, <1>4 DEF Waits, HandleEffect, Same, ShortEffect, IdEffect, FileEffect, ReplyEffect, history
<1>5. ASSUME CrashEffect \/ GcEffect \/ ForgetEffect \/ TickEffect PROVE Waits
  BY <1>1, <1>5 DEF Waits, CrashEffect, GcEffect, ForgetEffect, TickEffect, Idle, history
<1> QED
  BY <1>2, <1>3, <1>4, <1>5, StepKinds

(* Always so. *)
LEMMA WaitInvariant == Spec => [](SessionTypeOK /\ WaitInv)
<1>1. Init => WaitInv
  <2> SUFFICES ASSUME Init PROVE WaitInv
    OBVIOUS
  <2>1. /\ \A r \in Requests : Blank(r)
        /\ jar = NoCookie /\ left.data = Empty /\ killed = {} /\ NoCookie.kind = "none"
    BY InitOK DEF Init, NoCookie
  <2> QED
    BY <2>1 DEF WaitInv, AnswerOK, SessionThere, KeptWith, Active, Blank
<1>2. SessionTypeOK /\ WaitInv /\ SessionTypeOK' /\ [Next]_vars => WaitInv'
  <2> SUFFICES ASSUME SessionTypeOK, WaitInv, SessionTypeOK', [Next]_vars PROVE WaitInv'
    OBVIOUS
  <2>1. CASE UNCHANGED vars
    BY <2>1 DEF vars, WaitInv, Waits, AnswerOK, SessionThere, Saved, KeptWith, Active
  <2>2. ASSUME Next PROVE crashes' = 0 => killed' = {}
    <3>1. crashes \in Nat
      BY DEF SessionTypeOK
    <3>2. ASSUME CrashEffect PROVE crashes' # 0
      BY <3>1, <3>2 DEF CrashEffect
    <3>3. ASSUME GcEffect \/ ForgetEffect \/ TickEffect PROVE crashes' = crashes /\ killed' = killed
      BY <3>3 DEF GcEffect, ForgetEffect, TickEffect, Idle, history
    <3>4. ASSUME NEW r \in Requests,
                 \/ Load(r) \/ HandleEffect(r) \/ ShortEffect(r) \/ IdEffect(r) \/ FileEffect(r)
                 \/ ReplyEffect(r) \/ LostEffect(r)
          PROVE  crashes' = crashes /\ (killed' = killed \/ killed' = {})
      BY <3>4, LoadStep DEF HandleEffect, Same, ShortEffect, IdEffect, FileEffect, ReplyEffect,
                            LostEffect, history
    <3> QED
      BY <2>2, <3>2, <3>3, <3>4, StepKinds DEF WaitInv
  <2>3. ASSUME Next, Waits'
        PROVE  WaitOK' /\ \A q, p \in Requests : Active(q)' /\ Active(p)' => q = p
    <3>1. /\ Waits /\ \A r \in Requests : ~LostEffect(r)
          /\ \A r \in Requests : Load(r) => \A q \in Requests : ~Active(q)
      BY <2>3, WaitsBefore
    <3>2. WaitOK /\ \A q, p \in Requests : Active(q) /\ Active(p) => q = p
      BY <3>1 DEF WaitInv, WaitOK
    <3>3. ASSUME NEW r \in Requests, Others(r),
                 \/ Load(r) \/ HandleEffect(r) \/ ShortEffect(r) \/ IdEffect(r) \/ FileEffect(r)
                 \/ ReplyEffect(r)
          PROVE  WaitOK' /\ \A q, p \in Requests : Active(q)' /\ Active(p)' => q = p
      <4>1. Active(r) \/ \A q \in Requests : ~Active(q)
        BY <3>1, <3>3 DEF HandleEffect, ShortEffect, IdEffect, FileEffect, ReplyEffect, Active
      <4>2. Alone(r)
        BY <3>2, <4>1 DEF Alone, WaitOK, AnswerOK, Active
      <4>3. \A q, p \in Requests : Active(q)' /\ Active(p)' => q = p
        BY <3>2, <4>2, <3>3, AloneStays DEF Alone
      <4> QED
        BY <3>2, <3>3, <4>2, <4>3, WaitLoad, WaitHandle, WaitWrite, WaitReply
    <3>4. ASSUME CrashEffect
          PROVE  WaitOK' /\ \A q, p \in Requests : Active(q)' /\ Active(p)' => q = p
      BY <3>2, <3>4, WaitCrash DEF CrashEffect, Blank, Active
    <3>5. ASSUME GcEffect \/ ForgetEffect \/ TickEffect
          PROVE  WaitOK' /\ \A q, p \in Requests : Active(q)' /\ Active(p)' => q = p
      <4>1. pc' = pc
        BY <3>5 DEF GcEffect, ForgetEffect, TickEffect, Idle
      <4> QED
        BY <3>2, <3>5, <4>1, WaitIdle DEF Active
    <3> QED
      BY <2>3, <3>1, <3>3, <3>4, <3>5, StepKinds
  <2> QED
    BY <2>1, <2>2, <2>3 DEF WaitInv, WaitOK
<1> QED
  BY <1>1, <1>2, TypesKept, PTL DEF Spec

(* With one request at a time and no lost response, a request finds the    *)
(* session that the browser was last told of, in the cookie or in the      *)
(* file, until its time is over; when a process was killed that had begun  *)
(* to save another, also this one or none, but never a part of it.         *)
THEOREM SessionAlwaysKept == Spec => []SessionKept
<1>1. SessionTypeOK /\ WaitInv => SessionKept
  BY DEF WaitInv, Waits, AnswerOK, SessionKept
<1> QED
  BY <1>1, WaitInvariant, PTL

-----------------------------------------------------------------------------

(* So all of it stays. *)
LEMMA KeptIdle ==
    ASSUME SessionTypeOK, SessionTypeOK', AllKept, GcEffect \/ ForgetEffect \/ TickEffect
    PROVE  AllKept'
<1>1. /\ pc' = pc /\ cookie' = cookie /\ data' = data /\ copy' = copy /\ answer' = answer
      /\ timeout_in' = timeout_in /\ left' = left
      /\ jar' = jar \/ (jar # NoCookie /\ jar.expires < now /\ jar' = NoCookie)
  BY DEF GcEffect, ForgetEffect, TickEffect, Idle, request, history
<1>2. now \in Nat /\ now' \in Nat /\ now' >= now
  BY DEF SessionTypeOK, GcEffect, ForgetEffect, TickEffect
<1>3. /\ NoCookie \in Cookie /\ Empty \in Session /\ 0 \in Nat /\ jar \in Cookie
      /\ left.data \in Session /\ left.till \in Nat
  BY SessionKeys DEF Cookie, SessionTypeOK
<1>4. \A s \in Sids : Live(s)' => Live(s)
  BY <1>3, KeptLater
<1>5. jar # NoCookie => jar.expires \in Nat
  BY <1>3, CookieKinds
<1>6. ASSUME NEW r \in Requests PROVE SessionOK(r)'
  <2>1. /\ SessionOK(r) /\ cookie[r] \in Cookie /\ copy[r] \in Session /\ timeout_in[r] \in Nat
        /\ data[r] \in Session /\ answer[r] \in Cookie \cup {None}
    BY DEF AllKept, SessionTypeOK
  <2>2. FoundOK(r) => FoundOK(r)'
    <3>1. KeptWith(cookie[r], copy[r], timeout_in[r]) => KeptWith(cookie[r], copy[r], timeout_in[r])'
      <4>1. PICK c \in Cookie, d \in Session, t \in Nat :
              c = cookie[r] /\ d = copy[r] /\ t = timeout_in[r]
        BY <2>1
      <4>2. KeptWith(c, d, t) => KeptWith(c, d, t)'
        BY KeptLater
      <4> QED
        BY <1>1, <4>1, <4>2 DEF KeptWith
    <3> QED
      BY <1>1, <1>4, <3>1 DEF FoundOK, OnlyLive
  <2>3. OnlyLive(answer[r]) => OnlyLive(answer[r])'
    BY <1>1, <1>4 DEF OnlyLive
  <2>4. ASSUME answer[r] \notin {None, NoCookie}, KeptWith(answer[r], data[r], answer[r].expires)
        PROVE  KeptWith(answer[r], data[r], answer[r].expires)'
    <3>1. answer[r] \in Cookie /\ answer[r].expires \in Nat
      BY <2>1, <2>4, CookieKinds
    <3>2. PICK c \in Cookie, d \in Session, t \in Nat :
            c = answer[r] /\ d = data[r] /\ t = answer[r].expires
      BY <2>1, <3>1
    <3>3. KeptWith(c, d, t) => KeptWith(c, d, t)'
      BY KeptLater
    <3> QED
      BY <1>1, <2>4, <3>2, <3>3 DEF KeptWith
  <2>5. cookie[r] # NoCookie => cookie[r].expires \in Nat
    BY <2>1, CookieKinds
  <2>6. Active(r)' => jar' = cookie'[r] \/ (jar' = NoCookie /\ cookie'[r] # NoCookie /\ cookie'[r].expires < now')
    BY <1>1, <1>2, <2>1, <2>5 DEF SessionOK, Active
  <2> QED
    BY <1>1, <1>4, <2>1, <2>2, <2>3, <2>4, <2>6 DEF SessionOK
<1>7. ASSUME \A r \in Requests : ~Active(r)'
      PROVE  OnlyLive(jar)' /\ KeptWith(jar, left.data, left.till)'
  <2>1. OnlyLive(jar) /\ KeptWith(jar, left.data, left.till)
    BY <1>1, <1>7 DEF AllKept, Active
  <2>2. CASE jar' = jar
    <3>1. PICK c \in Cookie, d \in Session, t \in Nat :
            c = jar /\ d = left.data /\ t = left.till
      BY <1>3
    <3>2. KeptWith(c, d, t) => KeptWith(c, d, t)'
      BY KeptLater
    <3> QED
      BY <1>1, <1>4, <2>1, <2>2, <3>1, <3>2 DEF OnlyLive, KeptWith
  <2>3. CASE jar # NoCookie /\ jar.expires < now /\ jar' = NoCookie
    <3>1. left.till < now /\ \A s \in Sids : ~Live(s)
      BY <1>3, <2>1, <2>3, Expired
    <3>2. NoCookie.kind = "none"
      BY DEF NoCookie
    <3>3. OnlyLive(jar)'
      BY <1>4, <3>1 DEF OnlyLive
    <3>4. left'.till < now'
      BY <1>1, <1>2, <1>3, <3>1
    <3> QED
      BY <2>3, <3>2, <3>3, <3>4 DEF KeptWith
  <2> QED
    BY <1>1, <2>2, <2>3
<1> QED
  BY <1>6, <1>7 DEF AllKept

(* Where the session is, always. *)
LEMMA StillInvariant == Spec => [](SessionTypeOK /\ StillInv)
<1>1. Init => StillInv
  <2> SUFFICES ASSUME Init PROVE StillInv
    OBVIOUS
  <2>1. /\ \A r \in Requests : Blank(r)
        /\ \A s \in Sids : files[s] = None
        /\ jar = NoCookie /\ left.data = Empty /\ NoCookie.kind = "none"
    BY InitOK DEF Init, NoCookie
  <2>2. OneAtATime /\ \A r \in Requests : SessionOK(r)
    BY <2>1 DEF OneAtATime, SessionOK, Active, Blank
  <2>3. OnlyLive(jar) /\ KeptWith(jar, left.data, left.till)
    BY <2>1 DEF OnlyLive, Live, KeptWith
  <2> QED
    BY <2>2, <2>3 DEF StillInv
<1>2. SessionTypeOK /\ StillInv /\ SessionTypeOK' /\ WaitInv' /\ [Next]_vars => StillInv'
  <2> SUFFICES ASSUME SessionTypeOK, StillInv, SessionTypeOK', WaitInv', [Next]_vars PROVE StillInv'
    OBVIOUS
  <2>1. CASE UNCHANGED vars
    BY <2>1 DEF vars, StillInv, Still, Calm, OneAtATime, SessionOK, FoundOK, OnlyLive, Live, KeptWith,
                Active
  <2>2. ASSUME Next, Still' PROVE OneAtATime' /\ AllKept'
    <3>0. ASSUME \A q \in Requests : ~Active(q)' PROVE KeptWith(jar, left.data, left.till)'
      <4>1. /\ Waits' /\ crashes' = 0
            /\ \A q \in Requests : answer'[q] = None
        <5>1. Waits' /\ crashes' = 0
          BY <2>2 DEF Still, Calm, Waits
        <5>2. \A q \in Requests : AnswerOK(q)'
          BY <2>2, <5>1 DEF WaitInv
        <5>3. \A q \in Requests : pc'[q] = "idle"
          BY <3>0 DEF Active
        <5> QED
          BY <5>1, <5>2, <5>3 DEF AnswerOK
      <4> QED
        BY <2>2, <4>1 DEF WaitInv, SessionThere, Saved
    <3>1. Still /\ Calm' /\ ~CrashEffect /\ \A r \in Requests : ~LostEffect(r)
      BY <2>2, StillBefore
    <3>2. OneAtATime /\ AllKept
      BY <3>1 DEF StillInv, AllKept
    <3>3. OneAtATime'
      BY <2>2, <3>1, <3>2, OneAtATimeStep
    <3>4. ASSUME NEW r \in Requests, Load(r) PROVE \A q \in Requests : ~Active(q)
      BY <2>2, <3>1, <3>4, CalmBefore
    <3>5. AllKept'
      <4>1. ASSUME NEW r \in Requests, Others(r), ReplyEffect(r)
            PROVE  KeptWith(jar, left.data, left.till)'
        <5>1. Active(r) /\ ~Active(r)'
          BY <4>1 DEF ReplyEffect, Blank, Active
        <5> QED
          BY <3>0, <3>2, <4>1, <5>1, OthersIdle
      <4> QED
        BY <2>2, <3>1, <3>2, <3>4, <4>1, StepKinds, KeptLoad, KeptHandle, KeptShort, KeptWrite,
           KeptReply, KeptIdle
    <3> QED
      BY <3>3, <3>5
  <2> QED
    BY <2>1, <2>2 DEF StillInv, AllKept
<1> QED
  BY <1>1, <1>2, WaitInvariant, PTL DEF Spec

(* With one request at a time, no crash and no lost response, no file      *)
(* stays behind that the browser has not the id of, but for those that gc  *)
(* removes.                                                                *)
THEOREM NoFileEverLeft == Spec => []NoFileLeft
<1>1. SessionTypeOK /\ StillInv => NoFileLeft
  BY DEF StillInv, Still, Calm, Active, OnlyLive, Live, Holds, NoFileLeft
<1> QED
  BY <1>1, StillInvariant, PTL

=============================================================================
