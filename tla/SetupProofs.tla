----------------------------- MODULE SetupProofs -----------------------------
(***************************************************************************)
(* Proofs about Setup: for any number of requests, forms, users and posts. *)
(***************************************************************************)
EXTENDS Setup, TLAPS

Database == [configured: BOOLEAN, texts: [Texts -> Forms \cup {None}], users: SUBSET Names,
             version: Nat, open: [Posts -> BOOLEAN], link: [Posts -> BOOLEAN]]
Configuring == {"mark", "blog_title", "blog_description", "contact", "user", "commit"}
Upgrading == {"version", "upgraded"}

(* What makes a state of the database whole. *)
Whole(d) == d.configured => /\ \E f \in Forms : \A k \in Texts : d.texts[k] = f
                            /\ d.users # {}
InStep(d) == d.version = Expected => d.link = d.open

SetupTypeOK ==
    /\ db \in Database /\ writer \in Requests \cup {None}
    /\ writer # None => work \in Database
    /\ pc \in [Requests -> {"idle", "delete", "read", "links", "checked"} \cup Configuring \cup Upgrading]
    /\ form \in [Requests -> Forms \cup {None}] /\ name \in [Requests -> Names \cup {None}]
    /\ seen \in [Requests -> Database]

(* The transaction is that of the one request that is in the middle of it. *)
OneWriter == \A r \in Requests : pc[r] \in Configuring \cup Upgrading <=> writer = r

(* The options that the configuration has written so far. *)
Written(r) == CASE pc[r] = "blog_description" -> {"blog_title"}
                [] pc[r] = "contact" -> {"blog_title", "blog_description"}
                [] pc[r] \in {"user", "commit"} -> Texts
                [] OTHER -> {}
ConfigureOK(r) ==
    /\ pc[r] \in {"delete"} \cup Configuring => form[r] \in Forms /\ name[r] \in Names
    /\ pc[r] \in Configuring => \A k \in Written(r) : work.texts[k] = form[r]
    /\ pc[r] = "commit" => work.users # {}
UpgradeOK(r) == pc[r] \in Upgrading => Whole(work) /\ work.link = work.open

SetupInv ==
    /\ SetupTypeOK /\ OneWriter
    /\ \A r \in Requests : ConfigureOK(r) /\ UpgradeOK(r) /\ Whole(seen[r])
    /\ Whole(db) /\ InStep(db) /\ (writer # None => InStep(work))
    /\ CachedWhole

-----------------------------------------------------------------------------
(* The places of a request, inside a transaction or not. *)
Inside == Configuring \cup Upgrading
Outside == {"idle", "delete", "read", "links", "checked"}

(* A statement that writes: nobody else is in a transaction. *)
LEMMA WriteStep ==
  ASSUME SetupInv, NEW r \in Requests, NEW to \in Inside, NEW new \in Database, InStep(new),
         Write(r, new), pc' = [pc EXCEPT ![r] = to], UNCHANGED <<form, name, seen, cache>>,
         ConfigureOK(r)', UpgradeOK(r)'
  PROVE  SetupInv'
<1>1. writer' = r /\ work' = new /\ db' = db /\ writer \in {None, r} /\ r # None
  BY NoneAssumption DEF Write
<1>2. pc'[r] = to /\ \A q \in Requests \ {r} : pc'[q] = pc[q] /\ pc[q] \notin Inside
  BY <1>1, NoneAssumption DEF SetupInv, SetupTypeOK, OneWriter, Inside
<1>3. SetupTypeOK'
  BY <1>1 DEF SetupInv, SetupTypeOK, Inside
<1>4. OneWriter'
  BY <1>1, <1>2 DEF OneWriter, Inside
<1>5. ASSUME NEW q \in Requests \ {r} PROVE ConfigureOK(q)' /\ UpgradeOK(q)'
  BY <1>2, <1>5 DEF SetupInv, ConfigureOK, UpgradeOK, Inside, Configuring, Upgrading
<1> QED BY <1>1, <1>3, <1>4, <1>5 DEF SetupInv, CachedWhole

(* The end of a transaction. *)
LEMMA EndStep ==
  ASSUME SetupInv, NEW r \in Requests, NEW to \in {"idle", "checked"}, pc[r] \in Inside,
         Rollback \/ (Commit(r) /\ Whole(work)), pc' = [pc EXCEPT ![r] = to],
         UNCHANGED <<form, name, seen, cache>>
  PROVE  SetupInv'
<1>1. writer = r /\ writer # None /\ writer' = None
  BY NoneAssumption DEF SetupInv, OneWriter, Inside, Rollback, Commit
<1>2. db' \in Database /\ Whole(db') /\ InStep(db')
  BY <1>1 DEF SetupInv, SetupTypeOK, Rollback, Commit
<1>3. pc'[r] = to /\ \A q \in Requests \ {r} : pc'[q] = pc[q] /\ pc[q] \notin Inside
  BY <1>1 DEF SetupInv, SetupTypeOK, OneWriter, Inside
<1>4. SetupTypeOK'
  BY <1>1, <1>2 DEF SetupInv, SetupTypeOK
<1>5. OneWriter'
  BY <1>1, <1>3, NoneAssumption DEF OneWriter, Inside, Configuring, Upgrading
<1>6. \A q \in Requests : ConfigureOK(q)' /\ UpgradeOK(q)'
  <2>1. ConfigureOK(r)' /\ UpgradeOK(r)'
    BY <1>3 DEF ConfigureOK, UpgradeOK, Configuring, Upgrading
  <2>2. ASSUME NEW q \in Requests \ {r} PROVE ConfigureOK(q)' /\ UpgradeOK(q)'
    BY <1>3, <2>2 DEF SetupInv, ConfigureOK, UpgradeOK, Inside, Configuring, Upgrading
  <2> QED BY <2>1, <2>2
<1> QED BY <1>1, <1>2, <1>4, <1>5, <1>6 DEF SetupInv, CachedWhole, Whole, InStep

(* A step outside of a transaction. *)
LEMMA OutsideStep ==
  ASSUME SetupInv, NEW r \in Requests, NEW to \in Outside, pc[r] \in Outside,
         pc' = [pc EXCEPT ![r] = to], UNCHANGED <<db, work, writer>>,
         form' \in [Requests -> Forms \cup {None}], name' \in [Requests -> Names \cup {None}],
         \A q \in Requests \ {r} : form'[q] = form[q] /\ name'[q] = name[q],
         to = "delete" => form'[r] \in Forms /\ name'[r] \in Names,
         seen' = seen \/ seen' = [seen EXCEPT ![r] = db], CachedWhole'
  PROVE  SetupInv'
<1>1. pc'[r] = to /\ \A q \in Requests \ {r} : pc'[q] = pc[q]
  BY DEF SetupInv, SetupTypeOK
<1>2. SetupTypeOK' /\ \A q \in Requests : Whole(seen'[q])
  <2>1. seen' \in [Requests -> Database] /\ \A q \in Requests : seen'[q] \in {seen[q], db}
    BY DEF SetupInv, SetupTypeOK
  <2>2. \A q \in Requests : Whole(seen'[q])
    BY <2>1 DEF SetupInv
  <2> QED BY <2>1, <2>2 DEF SetupInv, SetupTypeOK, Outside
<1>3. OneWriter'
  BY <1>1 DEF SetupInv, OneWriter, Outside, Configuring, Upgrading
<1>4. \A q \in Requests : ConfigureOK(q)' /\ UpgradeOK(q)'
  <2>1. ConfigureOK(r)' /\ UpgradeOK(r)'
    BY <1>1 DEF ConfigureOK, UpgradeOK, Outside, Configuring, Upgrading
  <2>2. ASSUME NEW q \in Requests \ {r} PROVE ConfigureOK(q)' /\ UpgradeOK(q)'
    BY <1>1, <2>2 DEF SetupInv, ConfigureOK, UpgradeOK, Written, Whole
  <2> QED BY <2>1, <2>2
<1> QED BY <1>2, <1>3, <1>4 DEF SetupInv, Whole, InStep

(* The statements of config::configure. *)
LEMMA ConfigureStep ==
  ASSUME SetupInv, NEW r \in Requests,
         \/ Configure(r) \/ DeleteOptions(r) \/ InsertOption(r) \/ InsertUser(r)
         \/ DuplicateUser(r) \/ ConfigureCommit(r)
  PROVE  SetupInv'
<1> USE DEF Goes
<1>1. CASE Configure(r)
  <2>1. PICK f \in Forms, n \in Names : /\ form' = [form EXCEPT ![r] = f]
                                        /\ name' = [name EXCEPT ![r] = n]
    BY <1>1 DEF Configure
  <2>2. form' \in [Requests -> Forms \cup {None}] /\ form'[r] \in Forms
    BY <2>1 DEF SetupInv, SetupTypeOK
  <2>3. name' \in [Requests -> Names \cup {None}] /\ name'[r] \in Names
    BY <2>1 DEF SetupInv, SetupTypeOK
  <2>4. \A q \in Requests \ {r} : form'[q] = form[q] /\ name'[q] = name[q]
    BY <2>1 DEF SetupInv, SetupTypeOK
  <2>5. /\ pc[r] \in Outside /\ "delete" \in Outside /\ pc' = [pc EXCEPT ![r] = "delete"]
        /\ UNCHANGED <<db, work, writer, seen, cache>> /\ CachedWhole'
    BY <1>1 DEF Configure, Outside, SetupInv, CachedWhole
  <2> QED BY <2>2, <2>3, <2>4, <2>5, OutsideStep
<1>2. CASE DeleteOptions(r)
  <2> DEFINE new == [db EXCEPT !.texts = [k \in Texts |-> None], !.configured = FALSE]
  <2>1. pc[r] = "delete" /\ pc' = [pc EXCEPT ![r] = "mark"] /\ UNCHANGED <<form, name, seen, cache>>
    BY <1>2 DEF DeleteOptions
  <2>2. writer # r
    BY <2>1 DEF SetupInv, OneWriter, Configuring, Upgrading
  <2>3. Write(r, new)
    BY <1>2, <2>2 DEF DeleteOptions, View
  <2>4. new \in Database /\ InStep(new)
    BY DEF SetupInv, SetupTypeOK, Database, InStep
  <2>5. pc'[r] = "mark" /\ form[r] \in Forms /\ name[r] \in Names
    BY <2>1 DEF SetupInv, SetupTypeOK, ConfigureOK
  <2>6. ConfigureOK(r)' /\ UpgradeOK(r)' /\ "mark" \in Inside
    BY <2>1, <2>5 DEF ConfigureOK, UpgradeOK, Written, Configuring, Upgrading, Inside
  <2> QED BY <2>1, <2>3, <2>4, <2>6, WriteStep
<1>3. CASE InsertOption(r) \/ InsertUser(r)
  <2>1. /\ pc[r] \in Configuring /\ writer = r /\ View(r) = work /\ work \in Database /\ InStep(work)
        /\ form[r] \in Forms /\ name[r] \in Names /\ \A k \in Written(r) : work.texts[k] = form[r]
        /\ UNCHANGED <<form, name, seen, cache>>
    <3>1. pc[r] \in Configuring /\ UNCHANGED <<form, name, seen, cache>>
      BY <1>3 DEF InsertOption, InsertUser, Configuring, Texts
    <3>2. writer = r /\ writer # None
      BY <3>1, NoneAssumption DEF SetupInv, OneWriter
    <3> QED BY <3>1, <3>2 DEF SetupInv, SetupTypeOK, ConfigureOK, View
  <2>2. CASE pc[r] = "mark"
    <3> DEFINE new == [work EXCEPT !.configured = TRUE]
    <3>1. Write(r, new) /\ pc' = [pc EXCEPT ![r] = "blog_title"] /\ work' = new
      BY <1>3, <2>1, <2>2 DEF InsertOption, InsertUser, After, Write
    <3>2. new \in Database /\ InStep(new)
      BY <2>1 DEF Database, InStep
    <3>3. pc'[r] = "blog_title"
      BY <3>1 DEF SetupInv, SetupTypeOK
    <3>4. ConfigureOK(r)' /\ UpgradeOK(r)' /\ "blog_title" \in Inside
      BY <2>1, <3>3 DEF ConfigureOK, UpgradeOK, Written, Configuring, Upgrading, Inside
    <3> QED BY <2>1, <3>1, <3>2, <3>4, WriteStep
  <2>3. CASE pc[r] \in Texts
    <3> DEFINE new == [work EXCEPT !.texts[pc[r]] = form[r]]
               to == After(pc[r])
    <3>1. Write(r, new) /\ pc' = [pc EXCEPT ![r] = to] /\ work' = new
      BY <1>3, <2>1, <2>3 DEF InsertOption, InsertUser, Write, Texts
    <3>2. /\ new \in Database /\ InStep(new) /\ new.texts[pc[r]] = form[r]
          /\ \A k \in Texts \ {pc[r]} : new.texts[k] = work.texts[k]
      BY <2>1, <2>3 DEF Database, InStep
    <3>3. to \in {"blog_description", "contact", "user"} /\ pc'[r] = to
      BY <2>3, <3>1 DEF After, Texts, SetupInv, SetupTypeOK
    <3>4. Written(r)' = Written(r) \cup {pc[r]}
      BY <2>3, <3>3 DEF Written, After, Texts
    <3>5. \A k \in Written(r)' : work'.texts[k] = form'[r]
      <4>1. Written(r) \subseteq Texts \ {pc[r]}
        BY <2>3 DEF Written, Texts
      <4> HIDE DEF new
      <4> QED BY <2>1, <3>1, <3>2, <3>4, <4>1
    <3>6. ConfigureOK(r)' /\ UpgradeOK(r)' /\ to \in Inside
      <4> HIDE DEF to, new
      <4> QED BY <2>1, <3>3, <3>5 DEF ConfigureOK, UpgradeOK, Configuring, Upgrading, Inside
    <3> HIDE DEF to, new
    <3> QED BY <2>1, <3>1, <3>2, <3>6, WriteStep
  <2>4. CASE pc[r] = "user"
    <3> DEFINE new == [work EXCEPT !.users = @ \cup {name[r]}]
    <3>1. Write(r, new) /\ pc' = [pc EXCEPT ![r] = "commit"] /\ work' = new
      BY <1>3, <2>1, <2>4 DEF InsertOption, InsertUser, Texts, Write
    <3>2. new \in Database /\ InStep(new) /\ new.users # {} /\ new.texts = work.texts
      BY <2>1 DEF Database, InStep
    <3>3. pc'[r] = "commit"
      BY <3>1 DEF SetupInv, SetupTypeOK
    <3>4. \A k \in Texts : work'.texts[k] = form'[r]
      BY <2>1, <2>4, <3>1, <3>2 DEF Written
    <3> HIDE DEF new
    <3>5. ConfigureOK(r)' /\ UpgradeOK(r)' /\ "commit" \in Inside
      BY <2>1, <3>1, <3>2, <3>3, <3>4 DEF ConfigureOK, UpgradeOK, Written, Configuring, Upgrading, Inside
    <3> QED BY <2>1, <3>1, <3>2, <3>5, WriteStep
  <2> QED BY <1>3, <2>2, <2>3, <2>4 DEF InsertOption, InsertUser
<1>4. CASE DuplicateUser(r)
  BY <1>4, EndStep DEF DuplicateUser, Inside, Configuring
<1>5. CASE ConfigureCommit(r)
  <2>1. pc[r] = "commit" /\ pc[r] \in Inside /\ Commit(r) /\ pc' = [pc EXCEPT ![r] = "idle"]
        /\ UNCHANGED <<form, name, seen, cache>>
    BY <1>5 DEF ConfigureCommit, Inside, Configuring
  <2>2. Whole(work)
    BY <2>1 DEF SetupInv, ConfigureOK, Configuring, Written, Whole
  <2> QED BY <2>1, <2>2, EndStep
<1> QED BY <1>1, <1>2, <1>3, <1>4, <1>5

(* basic_master::prepare and upgrade. *)
LEMMA PrepareStep ==
  ASSUME SetupInv, NEW r \in Requests,
         \/ Prepare(r) \/ CheckVersion(r) \/ UpgradeLinks(r) \/ UpgradeVersion(r)
         \/ UpgradeCommit(r) \/ StoreOptions(r)
  PROVE  SetupInv'
<1> USE DEF Goes
<1>1. CASE Prepare(r)
  <2>1. /\ pc[r] \in Outside /\ "read" \in Outside /\ pc' = [pc EXCEPT ![r] = "read"]
        /\ UNCHANGED <<db, work, writer, form, name, cache>> /\ seen' = [seen EXCEPT ![r] = db]
        /\ CachedWhole'
    BY <1>1 DEF Prepare, Outside, SetupInv, CachedWhole
  <2> QED BY <2>1, OutsideStep DEF SetupInv, SetupTypeOK
<1>2. CASE CheckVersion(r)
  <2>1. PICK to \in {"checked", "links", "idle"} : pc' = [pc EXCEPT ![r] = to]
    BY <1>2 DEF CheckVersion
  <2>2. /\ pc[r] \in Outside /\ to \in Outside /\ to # "delete"
        /\ UNCHANGED <<db, work, writer, form, name, seen, cache>> /\ CachedWhole'
    BY <1>2 DEF CheckVersion, Outside, SetupInv, CachedWhole
  <2> QED BY <2>1, <2>2, OutsideStep DEF SetupInv, SetupTypeOK
<1>3. CASE UpgradeLinks(r)
  <2> DEFINE new == [db EXCEPT !.link = db.open]
  <2>1. pc[r] = "links" /\ pc' = [pc EXCEPT ![r] = "version"] /\ UNCHANGED <<form, name, seen, cache>>
    BY <1>3 DEF UpgradeLinks
  <2>2. writer # r
    BY <2>1 DEF SetupInv, OneWriter, Configuring, Upgrading
  <2>3. Write(r, new) /\ work' = new
    BY <1>3, <2>2 DEF UpgradeLinks, View, Write
  <2>4. new \in Database /\ InStep(new) /\ new.link = new.open /\ Whole(new)
    BY DEF SetupInv, SetupTypeOK, Database, InStep, Whole
  <2>5. pc'[r] = "version"
    BY <2>1 DEF SetupInv, SetupTypeOK
  <2>6. ConfigureOK(r)' /\ UpgradeOK(r)' /\ "version" \in Inside
    BY <2>3, <2>4, <2>5 DEF ConfigureOK, UpgradeOK, Whole, Configuring, Upgrading, Inside
  <2> QED BY <2>1, <2>3, <2>4, <2>6, WriteStep
<1>4. CASE UpgradeVersion(r)
  <2> DEFINE new == [work EXCEPT !.version = 3]
  <2>1. pc[r] = "version" /\ pc' = [pc EXCEPT ![r] = "upgraded"] /\ UNCHANGED <<form, name, seen, cache>>
    BY <1>4 DEF UpgradeVersion
  <2>2. writer = r /\ work \in Database /\ Whole(work) /\ work.link = work.open
    BY <2>1, NoneAssumption DEF SetupInv, SetupTypeOK, OneWriter, UpgradeOK, Upgrading
  <2>3. Write(r, new) /\ work' = new
    BY <1>4, <2>2 DEF UpgradeVersion, View, Write
  <2>4. new \in Database /\ InStep(new) /\ new.link = new.open /\ Whole(new)
    BY <2>2 DEF Database, InStep, Whole
  <2>5. pc'[r] = "upgraded"
    BY <2>1 DEF SetupInv, SetupTypeOK
  <2>6. ConfigureOK(r)' /\ UpgradeOK(r)' /\ "upgraded" \in Inside
    BY <2>3, <2>4, <2>5 DEF ConfigureOK, UpgradeOK, Whole, Configuring, Upgrading, Inside
  <2> QED BY <2>1, <2>3, <2>4, <2>6, WriteStep
<1>5. CASE UpgradeCommit(r)
  <2>1. pc[r] = "upgraded" /\ pc[r] \in Inside /\ Commit(r) /\ pc' = [pc EXCEPT ![r] = "checked"]
        /\ UNCHANGED <<form, name, seen, cache>>
    BY <1>5 DEF UpgradeCommit, Inside, Upgrading
  <2>2. Whole(work)
    BY <2>1 DEF SetupInv, UpgradeOK, Upgrading
  <2> QED BY <2>1, <2>2, EndStep
<1>6. CASE StoreOptions(r)
  <2>1. /\ pc[r] \in Outside /\ "idle" \in Outside /\ pc' = [pc EXCEPT ![r] = "idle"]
        /\ UNCHANGED <<db, work, writer, form, name, seen>>
    BY <1>6 DEF StoreOptions, Outside
  <2>2. CachedWhole'
    BY <1>6 DEF StoreOptions, SetupInv, Whole, CachedWhole
  <2> QED BY <2>1, <2>2, OutsideStep DEF SetupInv, SetupTypeOK
<1> QED BY <1>1, <1>2, <1>3, <1>4, <1>5, <1>6

(* A post is published, the process is killed, or something else happens. *)
LEMMA OtherStep ==
  ASSUME SetupInv, (\E p \in Posts : Flip(p)) \/ Crash \/ UNCHANGED vars
  PROVE  SetupInv'
<1>1. ASSUME NEW p \in Posts, Flip(p) PROVE SetupInv'
  <2>1. UNCHANGED <<work, writer, pc, form, name, seen, cache>> /\ writer = None
    BY <1>1 DEF Flip
  <2>2. db' \in Database /\ Whole(db') /\ InStep(db')
    <3>1. /\ db.open \in [Posts -> BOOLEAN] /\ db.link \in [Posts -> BOOLEAN] /\ db \in Database
      BY DEF SetupInv, SetupTypeOK, Database
    <3>2. db' = [db EXCEPT !.open = [db.open EXCEPT ![p] = ~db.open[p]],
                           !.link = [db.link EXCEPT ![p] = ~db.open[p]]]
      BY <1>1, <3>1 DEF Flip, Database
    <3>3. db' \in Database
      BY <3>1, <3>2 DEF Database
    <3>4. Whole(db')
      BY <3>1, <3>2 DEF SetupInv, Whole, Database
    <3>5. InStep(db')
      BY <3>1, <3>2 DEF SetupInv, InStep, Database
    <3> QED BY <3>3, <3>4, <3>5
  <2>3. SetupTypeOK'
    BY <2>1, <2>2 DEF SetupInv, SetupTypeOK
  <2>4. OneWriter' /\ CachedWhole' /\ \A r \in Requests : ConfigureOK(r)' /\ UpgradeOK(r)' /\ Whole(seen'[r])
    BY <2>1 DEF SetupInv, OneWriter, CachedWhole, ConfigureOK, UpgradeOK, Written, Whole
  <2> QED BY <2>1, <2>2, <2>3, <2>4 DEF SetupInv, Whole, InStep
<1>2. CASE Crash
  <2>1. /\ UNCHANGED <<db, form, name, seen>> /\ writer' = None /\ cache' = None
        /\ pc' = [r \in Requests |-> "idle"]
    BY <1>2 DEF Crash, Rollback
  <2>2. SetupTypeOK'
    BY <2>1 DEF SetupInv, SetupTypeOK
  <2>3. OneWriter' /\ CachedWhole' /\ \A r \in Requests : ConfigureOK(r)' /\ UpgradeOK(r)'
    BY <2>1, NoneAssumption DEF OneWriter, CachedWhole, ConfigureOK, UpgradeOK, Configuring, Upgrading
  <2> QED BY <2>1, <2>2, <2>3 DEF SetupInv, Whole, InStep
<1>3. CASE UNCHANGED vars
  BY <1>3 DEF vars, SetupInv, SetupTypeOK, OneWriter, CachedWhole, ConfigureOK, UpgradeOK,
              Written, Whole, InStep
<1> QED BY <1>1, <1>2, <1>3

(* The invariant holds at the beginning. *)
LEMMA SetupInit == Init => SetupInv
<1> SUFFICES ASSUME Init PROVE SetupInv
  OBVIOUS
<1>1. db \in Database /\ db.configured = FALSE
  BY VersionsAssumption DEF Init, Database
<1>2. SetupTypeOK
  BY <1>1 DEF Init, SetupTypeOK
<1>3. OneWriter /\ CachedWhole /\ \A r \in Requests : ConfigureOK(r) /\ UpgradeOK(r) /\ Whole(seen[r])
  BY <1>1, NoneAssumption
  DEF Init, OneWriter, CachedWhole, ConfigureOK, UpgradeOK, Whole, Configuring, Upgrading
<1> QED BY <1>1, <1>2, <1>3 DEF Init, SetupInv, Whole, InStep

(* Every step keeps it. *)
LEMMA SetupHolds == Spec => []SetupInv
<1>1. SetupInv /\ [Next]_vars => SetupInv'
  BY ConfigureStep, PrepareStep, OtherStep DEF Next, Step
<1> QED BY <1>1, SetupInit, PTL DEF Spec

(* A configured blog has all options of one form and a user, whoever else  *)
(* configures it and wherever config::configure fails or is cut off.       *)
THEOREM AlwaysConfiguredWhole == Spec => []ConfiguredWhole
<1>1. SetupInv => ConfiguredWhole
  BY DEF SetupInv, Whole, ConfiguredWhole
<1> QED BY <1>1, SetupHolds, PTL

(* A database of version 3 has the is_open of every post in post2cat,      *)
(* however often it is upgraded and whatever is published meanwhile.       *)
THEOREM AlwaysUpgradedWhole == Spec => []UpgradedWhole
<1>1. SetupInv => UpgradedWhole
  BY DEF SetupInv, InStep, UpgradedWhole
<1> QED BY <1>1, SetupHolds, PTL

(* The options that basic_master::prepare caches are those of one form,    *)
(* also when they were read before another configuration.                  *)
THEOREM AlwaysCachedWhole == Spec => []CachedWhole
<1>1. SetupInv => CachedWhole
  BY DEF SetupInv
<1> QED BY <1>1, SetupHolds, PTL

=============================================================================
