-------------------------- MODULE RulePolicyProofs --------------------------
(***************************************************************************)
(* For every set of rules, texts and keys, with or without --watch and for *)
(* every kind of change: the variables keep their types, what decides is   *)
(* signed, what is enforced is on record, a held change stays on show, and *)
(* no rule disappears between two calls without a reload or a denial, each *)
(* with the exception its property names.                                  *)
(***************************************************************************)
EXTENDS RulePolicy, TLAPS

----------------------------------------------------------------------------
(* Types.                                                                  *)

\* What is served is a snapshot.
LEMMA SnapType ==
    ASSUME NEW f \in File, NEW why \in {"no", "weaker", "unsigned"}, NEW key
    PROVE  Snap(f, why, key) \in Snapshot
  BY DEF Snap, Snapshot, File

\* What OnChange may serve and put on record.
LEMMA OnChangeType ==
    ASSUME TypeOK, NEW f \in File, NEW old \in Snapshot \cup {None}, NEW key
    PROVE  /\ OnChange(old, f, key).served \in Snapshot
           /\ OnChange(old, f, key).approved \in Record \cup {None}
           /\ OnChange(old, f, key).held \in File \cup {None}
<1>1. Snap(f, "no", key) \in Snapshot /\ Snap(f, "weaker", key) \in Snapshot
  BY SnapType
<1>2. [ids |-> f.ids] \in Record
  BY DEF File, Record
<1>3. CASE First(old)
  BY <1>1, <1>2, <1>3 DEF OnChange, TypeOK
<1>4. CASE ~First(old) /\ (~Weakens(old, f) \/ Watch)
  BY <1>1, <1>2, <1>4 DEF OnChange, TypeOK
<1>5. CASE ~First(old) /\ Weakens(old, f) /\ ~Watch
  BY <1>1, <1>5 DEF OnChange, TypeOK
<1> QED
  BY <1>3, <1>4, <1>5

\* A decided call leaves the verdict and the ghosts in their types.
LEMMA DecideType ==
    ASSUME TypeOK, NEW key \in Key \cup {NoKey}, NEW v, Decide(v),
           \/ v \in {Denied, Unconfigured, Failed}
           \/ \E s \in Snapshot : v = Verdict(s, key)
    PROVE  /\ verdict' \in Verdicts
           /\ chain' \in SUBSET Rule
<1>1. /\ v.kind = "rules" => v.ids \in SUBSET Rule
      /\ v \in Verdicts
  <2>1. CASE v \in {Denied, Unconfigured, Failed}
    BY <2>1 DEF Denied, Unconfigured, Failed, Verdicts
  <2>2. CASE \E s \in Snapshot : v = Verdict(s, key)
    <3>1. PICK s \in Snapshot : v = Verdict(s, key)
      BY <2>2
    <3>2. CASE s.held # "no"
      BY <3>1, <3>2 DEF Verdict, Denied, Verdicts
    <3>3. CASE s.held = "no" /\ ~s.loads
      BY <3>1, <3>3 DEF Verdict, Failed, Verdicts
    <3>4. CASE s.held = "no" /\ s.loads
      <4>1. v = [kind |-> "rules", ids |-> s.ids, sig |-> s.sig, signing |-> key,
                 crossed |-> s.crossed]
        BY <3>1, <3>4 DEF Verdict
      <4> QED
        BY <4>1 DEF Snapshot, Verdicts
    <3> QED
      BY <3>2, <3>3, <3>4
  <2> QED
    BY <2>1, <2>2
<1>2. v.kind = "rules" => Owed(v.ids) \in SUBSET Rule
  BY <1>1 DEF Owed
<1> QED
  BY <1>1, <1>2 DEF Decide, TypeOK

\* A load leaves everything but the file in its type.
LEMMA LoadType ==
    ASSUME TypeOK, NEW f \in File, NEW key \in Key \cup {NoKey},
           LoadUnsigned(f, key) \/ LoadTouched(f, key) \/ LoadChanged(f, key),
           Cached(key) = None => ~Untouched(f, key)
    PROVE  /\ entry' \in Entry
           /\ approved' \in Record \cup {None}
           /\ held' \in File \cup {None}
           /\ lost' \in BOOLEAN
           /\ \E s \in Snapshot : Decide(Verdict(s, key))
<1>1. Cached(key) \in Entry \cup {None}
  BY DEF Cached, Usable, TypeOK
<1>2. CASE LoadUnsigned(f, key)
  <2>1. Kept(Cached(key), f, key) \in Snapshot
    BY <1>1, SnapType DEF Kept, Entry
  <2> DEFINE e == [loaded |-> f, served |-> Kept(Cached(key), f, key), unsigned |-> TRUE,
                   placeholder |-> Cached(key) = None \/ Cached(key).placeholder,
                   missing |-> FALSE, signing |-> key]
  <2>2. (Cached(key) = None \/ Cached(key).placeholder) \in BOOLEAN
    BY <1>1 DEF Entry
  <2>3. e \in Entry
    BY <2>1, <2>2 DEF Entry, TypeOK
  <2>4. /\ entry' = e
        /\ Decide(Verdict(Kept(Cached(key), f, key), key))
        /\ UNCHANGED <<approved, held>>
        /\ lost' = FALSE
    BY <1>2 DEF LoadUnsigned
  <2> QED
    BY <2>1, <2>3, <2>4 DEF TypeOK
<1>3. CASE LoadTouched(f, key)
  <2>1. Cached(key) \in Entry /\ Cached(key).served \in Snapshot
    BY <1>1, <1>3 DEF LoadTouched, Entry
  <2> QED
    BY <1>3, <2>1 DEF LoadTouched, TypeOK
<1>4. CASE LoadChanged(f, key)
  <2> DEFINE r == OnChange(Old(key), f, key)
             e == [loaded |-> f, served |-> r.served, unsigned |-> FALSE,
                   placeholder |-> FALSE, missing |-> FALSE, signing |-> key]
  <2>1. Old(key) \in Snapshot \cup {None}
    BY <1>1 DEF Old, Entry
  <2>2. /\ r.served \in Snapshot
        /\ r.approved \in Record \cup {None}
        /\ r.held \in File \cup {None}
    BY <2>1, OnChangeType
  <2>3. e \in Entry
    BY <2>2 DEF Entry, TypeOK
  <2>4. /\ entry' = e /\ approved' = r.approved /\ held' = r.held /\ lost' = FALSE
        /\ Decide(Verdict(r.served, key))
    BY <1>4 DEF LoadChanged
  <2> QED
    BY <2>2, <2>3, <2>4
<1> QED
  BY <1>2, <1>3, <1>4

\* What resolve leaves, under any requirement, has its type.
LEMMA ResolveType ==
    ASSUME TypeOK, NEW key \in Key \cup {NoKey},
           ResolveMissing(key) \/ ResolveCached(key) \/ ResolveLoad(key)
    PROVE  /\ disk' \in File \cup {Missing}
           /\ stale' \in BOOLEAN
           /\ entry' \in Entry \cup {None}
           /\ approved' \in Record \cup {None}
           /\ held' \in File \cup {None}
           /\ verdict' \in Verdicts
           /\ chain' \in SUBSET Rule
           /\ lost' \in BOOLEAN
<1>0. Cached(key) \in Entry \cup {None}
  BY DEF Cached, Usable, TypeOK
<1>1. CASE ResolveMissing(key)
  <2>0. UNCHANGED <<disk, stale, approved, held, lost>>
    BY <1>1 DEF ResolveMissing
  <2>1. CASE key = NoKey
    <3>1. entry' = None /\ Decide(Unconfigured)
      BY <1>1, <2>1 DEF ResolveMissing
    <3> QED
      BY <2>0, <3>1, DecideType DEF TypeOK
  <2>2. CASE key # NoKey /\ Cached(key) # None /\ ~Cached(key).placeholder
    <3>1. /\ entry' = [Cached(key) EXCEPT !.missing = TRUE]
          /\ Decide(Verdict(Cached(key).served, key))
      BY <1>1, <2>2 DEF ResolveMissing
    <3>2. entry' \in Entry /\ Cached(key).served \in Snapshot
      BY <1>0, <2>2, <3>1 DEF Entry
    <3> QED
      BY <2>0, <3>1, <3>2, DecideType DEF TypeOK
  <2>3. CASE key # NoKey /\ ~(Cached(key) # None /\ ~Cached(key).placeholder)
    <3>1. entry' = None /\ Decide(Denied)
      BY <1>1, <2>3 DEF ResolveMissing
    <3> QED
      BY <2>0, <3>1, DecideType DEF TypeOK
  <2> QED
    BY <2>1, <2>2, <2>3
<1>2. CASE ResolveCached(key)
  <2>1. /\ entry' = Cached(key)
        /\ Decide(Verdict(Cached(key).served, key))
        /\ UNCHANGED <<disk, stale, approved, held, lost>>
    BY <1>2 DEF ResolveCached
  <2>2. Cached(key) \in Entry /\ Cached(key).served \in Snapshot
    BY <1>0, <1>2 DEF ResolveCached, Entry
  <2> QED
    BY <2>1, <2>2, DecideType DEF TypeOK
<1>3. CASE ResolveLoad(key)
  <2>1. disk \in File /\ disk' \in File /\ stale' \in BOOLEAN
    BY <1>3 DEF ResolveLoad, TypeOK
  <2>2. CASE LoadUnsigned(disk, key) \/ LoadTouched(disk, key) \/ LoadChanged(disk, key)
    <3>1. Cached(key) = None => ~Untouched(disk, key)
      BY DEF Untouched
    <3>2. /\ entry' \in Entry
          /\ approved' \in Record \cup {None}
          /\ held' \in File \cup {None}
          /\ lost' \in BOOLEAN
          /\ \E s \in Snapshot : Decide(Verdict(s, key))
      BY <2>1, <2>2, <3>1, LoadType
    <3> QED
      BY <2>1, <3>2, DecideType
  <2>3. CASE LoadFails(disk, key)
    <3>1. /\ entry' = Cached(key)
          /\ held' \in {held, None}
          /\ lost' \in BOOLEAN
          /\ Decide(Failed)
          /\ approved' = approved
      BY <2>3 DEF LoadFails, TypeOK
    <3> QED
      BY <1>0, <2>1, <3>1, DecideType DEF TypeOK
  <2> QED
    BY <1>3, <2>2, <2>3 DEF ResolveLoad
<1> QED
  BY <1>1, <1>2, <1>3

\* Every step keeps the types.
LEMMA TypeStep == TypeOK /\ [Next]_vars => TypeOK'
<1> SUFFICES ASSUME TypeOK, [Next]_vars
             PROVE  TypeOK'
  OBVIOUS
<1>1. CASE \E c \in Call : Ask(c)
  BY <1>1 DEF Ask, TypeOK, ruleVars, adminVars, ghosts
<1>2. CASE \E c \in Call : Resolve(c)
  <2>1. PICK c \in Call : Resolve(c)
    BY <1>2
  <2>2. asked[c] \in Key \cup {NoKey}
    BY <2>1 DEF Resolve, TypeOK
  <2>3. asked' \in [Call -> Key \cup {NoKey, None}] /\ UNCHANGED <<signing, adminVars>>
    BY <2>1 DEF Resolve, TypeOK
  <2>4. ResolveMissing(asked[c]) \/ ResolveCached(asked[c]) \/ ResolveLoad(asked[c])
    BY <2>1 DEF Resolve
  <2>5. /\ disk' \in File \cup {Missing}
        /\ stale' \in BOOLEAN
        /\ entry' \in Entry \cup {None}
        /\ approved' \in Record \cup {None}
        /\ held' \in File \cup {None}
        /\ verdict' \in Verdicts
        /\ chain' \in SUBSET Rule
        /\ lost' \in BOOLEAN
    BY <2>2, <2>4, ResolveType
  <2> QED
    BY <2>3, <2>5 DEF TypeOK, adminVars
<1>3. CASE ReloadTake
  BY <1>3 DEF ReloadTake, TypeOK, ghosts
<1>4. CASE ReloadPut
  <2>1. taken \in File /\ taken.ids \in SUBSET Rule
    BY <1>4 DEF ReloadPut, TypeOK, File
  <2> QED
    BY <1>4, <2>1 DEF ReloadPut, TypeOK, Record
<1>5. CASE ReloadFails
  BY <1>5 DEF ReloadFails, TypeOK, ruleVars
<1>6. CASE ReloadInvalidate
  BY <1>6 DEF ReloadInvalidate, TypeOK, ghosts
<1>7. CASE \E f \in File : Save(f)
  BY <1>7 DEF Save, TypeOK, ruleVars, adminVars, ghosts
<1>8. CASE Delete
  BY <1>8 DEF Delete, TypeOK, ruleVars, adminVars, ghosts
<1>9. CASE \E k \in Key \cup {NoKey} : ChangeKey(k)
  BY <1>9 DEF ChangeKey, TypeOK, ruleVars, adminVars, ghosts
<1>10. CASE Restart
  BY <1>10 DEF Restart, TypeOK
<1>11. CASE UNCHANGED vars
  BY <1>11 DEF vars, TypeOK, ruleVars, adminVars, ghosts
<1> QED
  BY <1>1, <1>2, <1>3, <1>4, <1>5, <1>6, <1>7, <1>8, <1>9, <1>10, <1>11 DEF Next

\* TypeOK is an invariant of resolve, reload and every change around them.
THEOREM TypeCorrect == Spec => []TypeOK
<1>1. Init => TypeOK
  <2> SUFFICES ASSUME Init
               PROVE  TypeOK
    OBVIOUS
  <2>1. signing \in Key \cup {NoKey} /\ asked \in [Call -> Key \cup {NoKey, None}]
    BY DEF Init
  <2>2. verdict \in Verdicts
    BY DEF Init, NoVerdict, Verdicts
  <2> QED
    BY <2>1, <2>2 DEF Init, TypeOK
<1> QED
  BY <1>1, TypeStep, PTL DEF Spec

----------------------------------------------------------------------------
(* The invariant behind the policy's promises.                             *)

\* The cache decides calls by its rules.
Serves == entry # None /\ entry.served.held = "no"

\* Rules that serve a signing requirement were signed under it, unless it
\* was changed while they were loaded.
ServedIsSigned ==
    Serves /\ entry.signing # NoKey /\ ~entry.served.crossed
        => entry.served.sig = entry.signing

\* Rules that serve are the ones on record.  While a reload has put its
\* record and not dropped the cache, that holds of the rules still owed.
ServedIsOnRecord ==
    /\ Serves /\ (admin # "put" \/ taken = None) => approved = [ids |-> entry.served.ids]
    /\ Serves /\ admin = "put" /\ taken # None =>
            /\ approved # None
            /\ entry.served.ids \cap taken.ids \subseteq approved.ids

\* The rules owed to the calls to come are kept in two places: the cache,
\* and the record that a restarted policy compares the file with.
OwedIsKept ==
    ~Watch => /\ Serves => chain \subseteq entry.served.ids
              /\ entry # None /\ ~Serves => chain = {}
              /\ approved = None => chain = {}
              /\ approved # None => chain \subseteq approved.ids

Policy == ServedIsSigned /\ ServedIsOnRecord /\ OwedIsKept /\ UnsignedNeverDecides

\* What NoSilentWeakening says of a step, and what it says of one that
\* does not find the rule file missing.
KeepsOwed ==
    /\ verdict'.kind \in {"rules", "unconfigured"}
    /\ verdict' # verdict
    /\ ~Watch
    => \/ chain \subseteq RulesOf(verdict')
       \/ disk = Missing /\ \E c \in Call : asked[c] = NoKey /\ asked'[c] = None

KeepsRules ==
    /\ verdict'.kind # "unconfigured" \/ verdict' = verdict
    /\ verdict'.kind = "rules" /\ verdict' # verdict /\ ~Watch => chain \subseteq verdict'.ids

LEMMA RulesKeepOwed == KeepsRules => KeepsOwed
  BY DEF KeepsRules, KeepsOwed, RulesOf

\* A verdict by rules is by the snapshot that was served.
LEMMA VerdictOf ==
    ASSUME NEW s \in Snapshot, NEW key
    PROVE  /\ Verdict(s, key).kind = "rules" =>
                /\ s.held = "no"
                /\ Verdict(s, key).ids = s.ids
                /\ Verdict(s, key).sig = s.sig
                /\ Verdict(s, key).signing = key
                /\ Verdict(s, key).crossed = s.crossed
           /\ Verdict(s, key).kind = "denied" <=> s.held # "no"
           /\ Verdict(s, key).kind # "unconfigured"
  BY DEF Verdict, Denied, Failed

\* A call that is denied, or finds no library, owes nothing new.
LEMMA DenyStep ==
    ASSUME TypeOK, Policy, NEW v \in {Denied, Unconfigured}, Decide(v),
           entry' = None \/ (entry' # None /\ entry'.served.held # "no" /\ v = Denied),
           UNCHANGED <<approved, admin, taken>>
    PROVE  Policy' /\ (v = Denied => KeepsRules)
<1>1. v.kind # "rules" /\ verdict' = v /\ chain' \in {chain, {}}
  BY DEF Decide, Denied, Unconfigured
<1>2. ~Serves'
  BY DEF Serves
<1>3. entry' # None => chain' = {}
  BY DEF Decide, Denied
<1>4. OwedIsKept'
  BY <1>1, <1>2, <1>3 DEF Policy, OwedIsKept
<1>5. v = Denied => v.kind = "denied"
  BY DEF Denied
<1> QED
  BY <1>1, <1>2, <1>4, <1>5
     DEF Policy, ServedIsSigned, ServedIsOnRecord, UnsignedNeverDecides, KeepsRules

\* A call that ends in an error leaves the rules as they were.
LEMMA FailStep ==
    ASSUME TypeOK, Policy, NEW key, entry' = Cached(key), Decide(Failed),
           UNCHANGED <<approved, admin, taken>>
    PROVE  Policy' /\ KeepsRules
<1>1. entry' = None \/ entry' = entry
  BY DEF Cached, Usable
<1>2. verdict' = Failed /\ chain' = chain /\ verdict'.kind = "error"
  BY DEF Decide, Failed
<1> QED
  BY <1>1, <1>2 DEF Policy, Serves, ServedIsSigned, ServedIsOnRecord, OwedIsKept,
                    UnsignedNeverDecides, KeepsRules

\* A call decided by what the cache already served.
LEMMA KeepStep ==
    ASSUME TypeOK, Policy, NEW key, Cached(key) # None, entry' \in Entry,
           entry'.served = Cached(key).served, entry'.signing = key,
           Decide(Verdict(Cached(key).served, key)), UNCHANGED <<approved, admin, taken>>
    PROVE  Policy' /\ KeepsRules
<1> DEFINE s == Cached(key).served
           v == Verdict(s, key)
<1>1. entry \in Entry /\ Cached(key) = entry /\ entry.signing = key /\ s \in Snapshot
  BY DEF Cached, Usable, TypeOK, Entry
<1>2. entry # None /\ entry' # None
  BY <1>1, MarkAssumption
<1>3. Serves <=> s.held = "no"
  BY <1>1, <1>2 DEF Serves
<1>4. Serves' <=> s.held = "no"
  BY <1>2 DEF Serves
<1>5. /\ v.kind = "rules" => /\ s.held = "no" /\ v.ids = s.ids /\ v.sig = s.sig
                             /\ v.signing = key /\ v.crossed = s.crossed
      /\ v.kind = "denied" <=> s.held # "no"
      /\ v.kind # "unconfigured"
  BY <1>1, VerdictOf
<1>6. /\ verdict' = v
      /\ v.kind = "rules" => chain' = Owed(v.ids)
      /\ v.kind = "denied" => chain' = {}
      /\ v.kind \notin {"rules", "denied"} => chain' = chain
  BY DEF Decide
<1>7. ServedIsSigned' /\ ServedIsOnRecord'
  BY <1>1, <1>3, <1>4 DEF Policy, ServedIsSigned, ServedIsOnRecord
<1>8. UnsignedNeverDecides'
  BY <1>1, <1>3, <1>5, <1>6 DEF Policy, ServedIsSigned, UnsignedNeverDecides
<1>9. KeepsRules
  BY <1>1, <1>3, <1>5, <1>6 DEF Policy, OwedIsKept, KeepsRules
<1>10. ASSUME ~Watch
       PROVE  /\ Serves' => chain' \subseteq entry'.served.ids
              /\ ~Serves' => chain' = {}
              /\ approved = None => chain' = {}
              /\ approved # None => chain' \subseteq approved.ids
  <2>1. CASE v.kind = "denied"
    BY <1>4, <1>5, <1>6, <2>1
  <2>2. CASE v.kind = "rules"
    <3>1. Serves /\ Serves' /\ chain' = Owed(s.ids)
      BY <1>3, <1>4, <1>5, <1>6, <2>2
    <3>2. Owed(s.ids) \subseteq s.ids
      BY DEF Owed
    <3>3. CASE admin = "put" /\ taken # None
      <4>1. approved # None /\ s.ids \cap taken.ids \subseteq approved.ids
        BY <1>1, <3>1, <3>3 DEF Policy, ServedIsOnRecord
      <4> QED
        BY <3>1, <3>2, <3>3, <4>1 DEF Owed
    <3>4. CASE ~(admin = "put" /\ taken # None)
      <4>1. approved = [ids |-> s.ids]
        BY <1>1, <3>1, <3>4 DEF Policy, ServedIsOnRecord
      <4>2. approved \in Record
        BY <1>1, <4>1 DEF Record, Snapshot
      <4>3. approved # None /\ approved.ids = s.ids
        BY <4>1, <4>2, MarkAssumption
      <4> QED
        BY <3>1, <3>2, <4>3
    <3> QED
      BY <3>3, <3>4
  <2>3. CASE v.kind \notin {"rules", "denied"}
    BY <1>1, <1>3, <1>4, <1>5, <1>6, <1>10, <2>3 DEF Policy, OwedIsKept
  <2> QED
    BY <2>1, <2>2, <2>3
<1>11. OwedIsKept'
  BY <1>10 DEF OwedIsKept
<1> QED
  BY <1>7, <1>8, <1>9, <1>11 DEF Policy

\* A call decided by a file that is now served and put on record.
LEMMA RecordStep ==
    ASSUME TypeOK, Policy, NEW f \in File, NEW key, ~Refused(f, key),
           ~Watch => chain \subseteq f.ids,
           entry' \in Entry, entry'.served = Snap(f, "no", key), entry'.signing = key,
           approved' = [ids |-> f.ids], Decide(Verdict(Snap(f, "no", key), key)),
           UNCHANGED <<admin, taken>>
    PROVE  Policy' /\ KeepsRules
<1> DEFINE s == Snap(f, "no", key)
           v == Verdict(s, key)
<1>1. /\ s \in Snapshot /\ s.held = "no" /\ s.ids = f.ids /\ s.sig = f.sig
      /\ s.crossed <=> key # NoKey /\ signing # key
  BY SnapType DEF Snap
<1>2. /\ v.kind = "rules" => /\ v.ids = f.ids /\ v.sig = f.sig
                             /\ v.signing = key /\ v.crossed = s.crossed
      /\ v.kind \notin {"denied", "unconfigured"}
  BY <1>1, VerdictOf
<1>3. /\ verdict' = v
      /\ v.kind = "rules" => chain' = Owed(f.ids)
      /\ v.kind # "rules" => chain' = chain
  BY <1>2 DEF Decide
<1>4. approved' # None /\ approved'.ids = f.ids
  BY MarkAssumption DEF File, Record
<1>5. Owed(f.ids) \subseteq f.ids
  BY DEF Owed
<1>6. key # NoKey /\ ~s.crossed => f.sig = key
  BY <1>1 DEF Refused
<1>7. Serves' /\ entry' # None
  BY <1>1, MarkAssumption DEF Serves
<1>8. ServedIsSigned' /\ UnsignedNeverDecides'
  BY <1>1, <1>2, <1>3, <1>6 DEF ServedIsSigned, UnsignedNeverDecides
<1>9. ServedIsOnRecord'
  BY <1>1, <1>4 DEF ServedIsOnRecord
<1>10. ~Watch => chain' \subseteq f.ids
  BY <1>3, <1>5
<1>11. OwedIsKept'
  BY <1>1, <1>4, <1>7, <1>10 DEF OwedIsKept
<1>12. KeepsRules
  BY <1>2, <1>3 DEF KeepsRules
<1> QED
  BY <1>8, <1>9, <1>11, <1>12 DEF Policy

\* A call that has a changed file loaded, the three outcomes of OnChange.
LEMMA ChangedStep ==
    ASSUME TypeOK, Policy, NEW f \in File, NEW key, LoadChanged(f, key), entry' \in Entry,
           UNCHANGED <<admin, taken>>
    PROVE  Policy' /\ KeepsRules
<1> DEFINE old == Old(key)
           r == OnChange(old, f, key)
<1>1. /\ ~Refused(f, key)
      /\ entry'.served = r.served
      /\ entry'.signing = key
      /\ approved' = r.approved
      /\ Decide(Verdict(r.served, key))
  BY DEF LoadChanged
<1>2. /\ Cached(key) # None => entry \in Entry /\ Cached(key) = entry /\ entry # None
      /\ old # None => Cached(key) # None /\ old = entry.served /\ old \in Snapshot
  BY DEF Cached, Usable, Old, TypeOK, Entry
<1>3. CASE First(old)
  <2>1. r = [served |-> Snap(f, "no", key), approved |-> [ids |-> f.ids], held |-> held]
    BY <1>3 DEF OnChange
  <2>2. ~Watch => chain \subseteq f.ids
    BY <1>3 DEF First, Policy, OwedIsKept
  <2> HIDE DEF r, old
  <2> QED
    BY <1>1, <2>1, <2>2, RecordStep
<1>4. CASE ~First(old) /\ (~Weakens(old, f) \/ Watch)
  <2>1. r = [served |-> Snap(f, "no", key), approved |-> [ids |-> f.ids], held |-> None]
    BY <1>4 DEF OnChange
  <2>2. ASSUME ~Watch
        PROVE  chain \subseteq f.ids
    <3>1. Base(old) \subseteq f.ids
      BY <1>4, <2>2 DEF Weakens
    <3>2. CASE old = None
      BY <1>4, <2>2, <3>1, <3>2 DEF First, Base, Policy, OwedIsKept
    <3>3. CASE old # None
      BY <1>2, <2>2, <3>1, <3>3 DEF Base, Policy, OwedIsKept, Serves
    <3> QED
      BY <3>2, <3>3
  <2> HIDE DEF r, old
  <2> QED
    BY <1>1, <2>1, <2>2, RecordStep
<1>5. CASE ~First(old) /\ Weakens(old, f) /\ ~Watch
  <2>1. r = [served |-> IF old = None THEN Snap(f, "weaker", key) ELSE old,
             approved |-> approved, held |-> f]
    BY <1>5 DEF OnChange
  <2>2. CASE old = None
    <3>1. r.served = Snap(f, "weaker", key) /\ r.served.held = "weaker"
      BY <2>1, <2>2 DEF Snap
    <3>2. Verdict(r.served, key) = Denied
      BY <3>1 DEF Verdict
    <3> HIDE DEF r, old
    <3> QED
      BY <1>1, <2>1, <3>1, <3>2, DenyStep
  <2>3. CASE old # None
    <3>1. r.served = Cached(key).served /\ Cached(key) # None /\ approved' = approved
      BY <1>1, <1>2, <2>1, <2>3
    <3> HIDE DEF r, old
    <3> QED
      BY <1>1, <3>1, KeepStep
  <2> QED
    BY <2>2, <2>3
<1> QED
  BY <1>3, <1>4, <1>5

\* A call that has a file loaded.
LEMMA LoadStep ==
    ASSUME TypeOK, Policy, NEW f \in File, NEW key \in Key \cup {NoKey},
           LoadUnsigned(f, key) \/ LoadTouched(f, key) \/ LoadChanged(f, key),
           UNCHANGED <<admin, taken>>
    PROVE  Policy' /\ KeepsRules
<1>1. entry' \in Entry
  <2>1. Cached(key) = None => ~Untouched(f, key)
    BY DEF Untouched
  <2> QED
    BY <2>1, LoadType
<1>2. CASE LoadUnsigned(f, key)
  <2>1. /\ entry'.served = Kept(Cached(key), f, key)
        /\ entry'.signing = key
        /\ Decide(Verdict(Kept(Cached(key), f, key), key))
        /\ approved' = approved
    BY <1>2 DEF LoadUnsigned
  <2>2. CASE Cached(key) # None /\ ~Cached(key).placeholder
    <3>1. Kept(Cached(key), f, key) = Cached(key).served
      BY <2>2 DEF Kept
    <3> QED
      BY <1>1, <2>1, <2>2, <3>1, KeepStep
  <2>3. CASE ~(Cached(key) # None /\ ~Cached(key).placeholder)
    <3>0. entry' # None
      BY <1>1, MarkAssumption
    <3>1. Kept(Cached(key), f, key) = Snap(f, "unsigned", key) /\ Snap(f, "unsigned", key).held = "unsigned"
      BY <2>3 DEF Kept, Snap
    <3>2. Verdict(Kept(Cached(key), f, key), key) = Denied
      BY <3>1 DEF Verdict
    <3> QED
      BY <2>1, <3>0, <3>1, <3>2, DenyStep
  <2> QED
    BY <2>2, <2>3
<1>3. CASE LoadTouched(f, key)
  <2>1. Cached(key) # None /\ entry' = Cached(key) /\ Decide(Verdict(Cached(key).served, key)) /\ approved' = approved
    BY <1>3 DEF LoadTouched, Untouched
  <2>2. entry'.signing = key
    BY <2>1 DEF Cached, Usable
  <2> QED
    BY <1>1, <2>1, <2>2, KeepStep
<1>4. CASE LoadChanged(f, key)
  BY <1>1, <1>4, ChangedStep
<1> QED
  BY <1>2, <1>3, <1>4

\* A call under the requirement it read.
LEMMA ResolveStep ==
    ASSUME TypeOK, Policy, NEW c \in Call, Resolve(c)
    PROVE  Policy' /\ KeepsOwed
<1> DEFINE key == asked[c]
<1>0. /\ key \in Key \cup {NoKey}
      /\ asked'[c] = None
      /\ UNCHANGED <<admin, taken>>
  BY DEF Resolve, TypeOK, adminVars
<1>1. CASE ResolveMissing(key)
  <2>1. approved' = approved
    BY <1>1 DEF ResolveMissing
  <2>2. CASE key = NoKey
    <3>1. entry' = None /\ Decide(Unconfigured) /\ disk = Missing
      BY <1>1, <2>2 DEF ResolveMissing
    <3>2. Policy'
      BY <1>0, <2>1, <3>1, DenyStep
    <3>3. KeepsOwed
      BY <1>0, <2>2, <3>1 DEF KeepsOwed
    <3> QED
      BY <3>2, <3>3
  <2>3. CASE key # NoKey /\ Cached(key) # None /\ ~Cached(key).placeholder
    <3>1. entry' = [Cached(key) EXCEPT !.missing = TRUE] /\ Decide(Verdict(Cached(key).served, key))
      BY <1>1, <2>3 DEF ResolveMissing
    <3>2. Cached(key) \in Entry /\ Cached(key).signing = key
      BY <2>3 DEF Cached, Usable, TypeOK
    <3>3. entry' \in Entry /\ entry'.served = Cached(key).served /\ entry'.signing = key
      BY <3>1, <3>2 DEF Entry
    <3> HIDE DEF key
    <3> QED
      BY <1>0, <2>1, <2>3, <3>1, <3>3, KeepStep, RulesKeepOwed
  <2>4. CASE key # NoKey /\ ~(Cached(key) # None /\ ~Cached(key).placeholder)
    <3>1. entry' = None /\ Decide(Denied)
      BY <1>1, <2>4 DEF ResolveMissing
    <3> QED
      BY <1>0, <2>1, <3>1, DenyStep, RulesKeepOwed
  <2> QED
    BY <2>2, <2>3, <2>4
<1>2. CASE ResolveCached(key)
  <2>1. /\ Cached(key) # None
        /\ entry' = Cached(key)
        /\ Decide(Verdict(Cached(key).served, key))
        /\ approved' = approved
    BY <1>2 DEF ResolveCached
  <2>2. Cached(key) \in Entry /\ Cached(key).signing = key
    BY <2>1 DEF Cached, Usable, TypeOK
  <2> HIDE DEF key
  <2> QED
    BY <1>0, <2>1, <2>2, KeepStep, RulesKeepOwed
<1>3. CASE ResolveLoad(key)
  <2>1. disk \in File
    BY <1>3 DEF ResolveLoad, TypeOK
  <2>2. CASE LoadUnsigned(disk, key) \/ LoadTouched(disk, key) \/ LoadChanged(disk, key)
    BY <1>0, <2>1, <2>2, LoadStep, RulesKeepOwed
  <2>3. CASE LoadFails(disk, key)
    <3>1. entry' = Cached(key) /\ Decide(Failed) /\ approved' = approved
      BY <2>3 DEF LoadFails
    <3> HIDE DEF key
    <3> QED
      BY <1>0, <3>1, FailStep, RulesKeepOwed
  <2> QED
    BY <1>3, <2>2, <2>3 DEF ResolveLoad
<1> QED
  BY <1>1, <1>2, <1>3 DEF Resolve

\* Every step keeps the policy's invariant and what NoSilentWeakening asks.
LEMMA PolicyStep == TypeOK /\ TypeOK' /\ Policy /\ [Next]_vars => Policy' /\ KeepsOwed
<1> SUFFICES ASSUME TypeOK, TypeOK', Policy, [Next]_vars
             PROVE  Policy' /\ KeepsOwed
  OBVIOUS
<1> USE DEF adminVars, ruleVars, ghosts
<1>1. CASE \E c \in Call : Ask(c)
  BY <1>1 DEF Ask, Policy, Serves, ServedIsSigned, ServedIsOnRecord,
              OwedIsKept, UnsignedNeverDecides, KeepsOwed
<1>2. CASE \E c \in Call : Resolve(c)
  BY <1>2, ResolveStep
<1>3. CASE ReloadFails
  BY <1>3 DEF ReloadFails, Policy, Serves, ServedIsSigned, ServedIsOnRecord,
              OwedIsKept, UnsignedNeverDecides, KeepsOwed
<1>4. CASE ReloadTake
  <2>1. /\ UNCHANGED <<entry, approved, verdict, chain>>
        /\ admin = "idle"
        /\ admin' = "popped" \/ (admin' = "put" /\ taken' = None)
    BY <1>4 DEF ReloadTake
  <2> QED
    BY <2>1 DEF Policy, Serves, ServedIsSigned, ServedIsOnRecord, OwedIsKept,
                UnsignedNeverDecides, KeepsOwed
<1>5. CASE ReloadPut
  <2>1. /\ UNCHANGED <<entry, verdict, taken>>
        /\ approved' = [ids |-> taken.ids]
        /\ chain' = chain \cap taken.ids
        /\ taken # None
        /\ admin' = "put"
    BY <1>5 DEF ReloadPut, TypeOK
  <2>2. approved' # None /\ approved'.ids = taken.ids
    BY <2>1, MarkAssumption DEF TypeOK, File, Record
  <2> QED
    BY <2>1, <2>2 DEF Policy, Serves, ServedIsSigned, ServedIsOnRecord, OwedIsKept,
                      UnsignedNeverDecides, KeepsOwed
<1>6. CASE ReloadInvalidate
  BY <1>6 DEF ReloadInvalidate, Policy, Serves, ServedIsSigned, ServedIsOnRecord,
              OwedIsKept, UnsignedNeverDecides, KeepsOwed
<1>7. CASE \E f \in File : Save(f)
  BY <1>7 DEF Save, Policy, Serves, ServedIsSigned, ServedIsOnRecord,
              OwedIsKept, UnsignedNeverDecides, KeepsOwed
<1>8. CASE Delete
  BY <1>8 DEF Delete, Policy, Serves, ServedIsSigned, ServedIsOnRecord,
              OwedIsKept, UnsignedNeverDecides, KeepsOwed
<1>9. CASE \E k \in Key \cup {NoKey} : ChangeKey(k)
  BY <1>9 DEF ChangeKey, Policy, Serves, ServedIsSigned, ServedIsOnRecord,
              OwedIsKept, UnsignedNeverDecides, KeepsOwed
<1>10. CASE Restart
  BY <1>10 DEF Restart, Policy, Serves, ServedIsSigned, ServedIsOnRecord,
               OwedIsKept, UnsignedNeverDecides, KeepsOwed
<1>11. CASE UNCHANGED vars
  BY <1>11 DEF vars, Policy, Serves, ServedIsSigned, ServedIsOnRecord,
               OwedIsKept, UnsignedNeverDecides, KeepsOwed
<1> QED
  BY <1>1, <1>2, <1>3, <1>4, <1>5, <1>6, <1>7, <1>8, <1>9, <1>10, <1>11 DEF Next

\* The invariant: served rules are signed, on record and owe nothing.
THEOREM PolicyHolds == Spec => []Policy
<1>1. Init => Policy
  BY DEF Init, Policy, Serves, ServedIsSigned, ServedIsOnRecord, OwedIsKept,
         UnsignedNeverDecides, NoVerdict
<1> QED
  BY <1>1, TypeCorrect, PolicyStep, PTL DEF Spec

\* Rules that decide are signed by the key the call read as required, or were
\* loaded while that requirement was changed.
THEOREM SignedDecides == Spec => []UnsignedNeverDecides
<1>1. Policy => UnsignedNeverDecides
  BY DEF Policy
<1> QED
  BY <1>1, PolicyHolds, PTL

\* What is enforced is on record as approved.
THEOREM EnforcedOnRecord == Spec => []EnforcedIsApproved
<1>1. Policy => EnforcedIsApproved
  BY DEF Policy, ServedIsOnRecord, Serves, EnforcedIsApproved
<1> QED
  BY <1>1, PolicyHolds, PTL

\* From one call that is let through to the next, rules disappear only
\* through a reload or after a denial, or for a call that reads that no
\* signature is required and finds no rule file.
THEOREM WeakeningIsNeverSilent == Spec => NoSilentWeakening
<1>1. TypeOK /\ TypeOK' /\ Policy /\ [Next]_vars
        => [/\ verdict'.kind \in {"rules", "unconfigured"}
            /\ verdict' # verdict
            /\ ~Watch
            => \/ chain \subseteq RulesOf(verdict')
               \/ disk = Missing /\ \E c \in Call : asked[c] = NoKey /\ asked'[c] = None]_vars
  BY PolicyStep DEF KeepsOwed
<1> QED
  BY <1>1, TypeCorrect, PolicyHolds, PTL DEF Spec, NoSilentWeakening

----------------------------------------------------------------------------
(* Held changes.                                                           *)

\* Every step keeps a change that is not applied on show.
LEMMA HeldStep == TypeOK /\ TypeOK' /\ HeldIsShown /\ [Next]_vars => HeldIsShown'
<1> SUFFICES ASSUME TypeOK, TypeOK', HeldIsShown, [Next]_vars
             PROVE  HeldIsShown'
  OBVIOUS
<1> USE DEF adminVars, ruleVars, ghosts
<1>1. CASE \E c \in Call : Ask(c)
  BY <1>1 DEF Ask, HeldIsShown
<1>2. CASE \E c \in Call : Resolve(c)
  <2>1. PICK c \in Call : Resolve(c)
    BY <1>2
  <2> DEFINE key == asked[c]
  <2>2. admin' = admin
    BY <2>1 DEF Resolve
  <2>3. CASE ResolveMissing(key)
    BY <2>2, <2>3 DEF ResolveMissing, HeldIsShown, Cached, Usable, TypeOK, Entry
  <2>4. CASE ResolveCached(key)
    BY <2>2, <2>4 DEF ResolveCached, HeldIsShown, Cached, Usable
  <2>5. CASE ResolveLoad(key)
    <3>1. CASE LoadUnsigned(disk, key)
      BY <3>1 DEF LoadUnsigned, HeldIsShown
    <3>2. CASE LoadTouched(disk, key)
      BY <2>2, <3>2 DEF LoadTouched, Untouched, HeldIsShown, Cached, Usable
    <3>3. CASE LoadChanged(disk, key)
      <4> DEFINE r == OnChange(Old(key), disk, key)
      <4>1. /\ entry'.served = r.served
            /\ entry'.loaded = disk
            /\ held' = r.held
        BY <3>3 DEF LoadChanged
      <4>2. disk # None
        BY <2>5, MarkAssumption DEF ResolveLoad, TypeOK
      <4>3. \/ r.served = Snap(disk, "no", key)
            \/ r.held = disk
        BY DEF OnChange
      <4>4. Snap(disk, "no", key).ids = disk.ids /\ Snap(disk, "no", key).held = "no"
        BY DEF Snap
      <4> HIDE DEF r
      <4> QED
        BY <4>1, <4>2, <4>3, <4>4 DEF HeldIsShown
    <3>4. CASE LoadFails(disk, key)
      BY <2>2, <3>4 DEF LoadFails, HeldIsShown, Cached, Usable
    <3> QED
      BY <2>5, <3>1, <3>2, <3>3, <3>4 DEF ResolveLoad
  <2> QED
    BY <2>1, <2>3, <2>4, <2>5 DEF Resolve
<1>3. CASE ReloadFails
  BY <1>3 DEF ReloadFails, HeldIsShown
<1>4. CASE ReloadTake
  BY <1>4 DEF ReloadTake, HeldIsShown
<1>5. CASE ReloadPut
  BY <1>5 DEF ReloadPut, HeldIsShown
<1>6. CASE ReloadInvalidate
  BY <1>6 DEF ReloadInvalidate, HeldIsShown
<1>7. CASE \E f \in File : Save(f)
  BY <1>7 DEF Save, HeldIsShown
<1>8. CASE Delete
  BY <1>8 DEF Delete, HeldIsShown
<1>9. CASE \E k \in Key \cup {NoKey} : ChangeKey(k)
  BY <1>9 DEF ChangeKey, HeldIsShown
<1>10. CASE Restart
  BY <1>10 DEF Restart, HeldIsShown
<1>11. CASE UNCHANGED vars
  BY <1>11 DEF vars, HeldIsShown
<1> QED
  BY <1>1, <1>2, <1>3, <1>4, <1>5, <1>6, <1>7, <1>8, <1>9, <1>10, <1>11 DEF Next

\* A change that is not applied is shown by `rules status`, unless its record
\* could not be written.
THEOREM HeldShown == Spec => []HeldIsShown
<1>1. Init => HeldIsShown
  BY DEF Init, HeldIsShown
<1> QED
  BY <1>1, TypeCorrect, HeldStep, PTL DEF Spec
=============================================================================
