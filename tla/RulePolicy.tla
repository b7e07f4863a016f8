----------------------------- MODULE RulePolicy -----------------------------
(***************************************************************************)
(* Which rules a call is decided by: SnapshotStore.resolve                 *)
(* (sponsio/daemon/guard_service.py) with the RulePolicy and the           *)
(* ApprovedRulesets of sponsio/daemon/integrity.py, for one bucket.        *)
(*                                                                         *)
(* A call reads the signing requirement of daemon.yaml before the store's  *)
(* lock; under the lock, where the rest of resolve is one step, the check  *)
(* of a loaded file reads it again.  `sponsio rules reload` takes that     *)
(* lock only to drop the cache at its end, so its steps interleave with    *)
(* the calls.  The rule file changes at any time, also while resolve is    *)
(* reading it, and writing the approved ruleset may raise.                 *)
(*                                                                         *)
(* Abstractions.  A file is the ids of its contracts and settings, a       *)
(* variant of its text (comments, order, descriptions: what changes the    *)
(* content hash and no id), whether it loads, and who signed it.  The      *)
(* packs a library includes are part of its content.  Audit records and    *)
(* warnings are left out.                                                  *)
(***************************************************************************)
EXTENDS Naturals

CONSTANTS
    Call,       \* calls that may be in flight together
    Rule,       \* ids of contracts and settings
    Text,       \* variants of a file with the same ids
    Key,        \* signing keys
    NoKey,      \* the bucket needs no signature; a file nobody signed
    Missing,    \* there is no rule file
    None,       \* no cache entry, no held change, no approved ruleset
    Watch,      \* `daemon run --watch`: apply every change
    Change      \* what happens to this instance's files and configuration

\* "race": a save during a load; "unwritable": the record cannot be written.
AllChanges == {"restart", "delete", "key", "race", "broken", "unwritable"}

ASSUME WatchAssumption == Watch \in BOOLEAN
ASSUME ChangeAssumption == Change \subseteq AllChanges

\* A rule file.  One that does not load has no ids (ruleset(None)).
File == {f \in [ids : SUBSET Rule, text : Text, loads : BOOLEAN, sig : Key \cup {NoKey}] :
            /\ ~f.loads => f.ids = {}
            /\ ~f.loads => "broken" \in Change}

\* What resolve returns: a loaded file, and why its calls are denied.
\* "weaker": held after a restart, with the weaker file's config in it.
\* "unsigned": held without any config.  crossed is a ghost: the signing
\* requirement changed between the two times its load read it.
Snapshot == [ids : SUBSET Rule, text : Text, loads : BOOLEAN, sig : Key \cup {NoKey},
             held : {"no", "weaker", "unsigned"}, crossed : BOOLEAN]

Entry == [loaded : File, served : Snapshot, unsigned : BOOLEAN,
          placeholder : BOOLEAN, missing : BOOLEAN, signing : Key \cup {NoKey}]

\* What a call was decided by, and the signing requirement it met.
Verdicts == [kind : {"none", "denied", "unconfigured", "error"}]
            \cup [kind : {"rules"}, ids : SUBSET Rule, sig : Key \cup {NoKey},
                  signing : Key \cup {NoKey}, crossed : BOOLEAN]

Record == [ids : SUBSET Rule]       \* <state>/rules/<bucket>.json

ASSUME MarkAssumption == /\ NoKey \notin Key
                         /\ None \notin Key \cup {NoKey}
                         /\ Missing \notin File
                         /\ None \notin File \cup Snapshot \cup Entry \cup Record

VARIABLES
    disk,       \* the rule file
    stale,      \* its (mtime, size) differs from the cache entry's stats
    signing,    \* the signing requirement in daemon.yaml
    asked,      \* the requirement each call in flight has read
    entry,      \* the bucket's cache entry
    approved,   \* ids in <state>/rules/<bucket>.json
    held,       \* the change waiting for a reload
    admin,      \* where a reload is: "idle", "popped" or "put"
    taken,      \* the change that reload took
    verdict     \* what the last call was decided by

\* ghosts.  chain: the rules the last call was decided by, less what a reload
\* gave up since, or none after a denied call.  lost: a held change was
\* dropped for a record that could then not be written.
VARIABLES chain, lost

ruleVars == <<entry, approved, held>>
adminVars == <<admin, taken>>
ghosts == <<chain, lost>>
vars == <<disk, stale, signing, asked, ruleVars, adminVars, verdict, ghosts>>

----------------------------------------------------------------------------
(* Snapshots.                                                              *)

Bytes(f) == <<f.ids, f.text, f.loads>>      \* content_hash covers these

Snap(f, why, key) ==
    [ids |-> IF why = "unsigned" THEN {} ELSE f.ids, text |-> f.text,
     loads |-> f.loads \/ why = "unsigned", sig |-> f.sig, held |-> why,
     crossed |-> key # NoKey /\ signing # key]

\* The signature check of a call that read that a key is required: the
\* files must be signed by the key required by now, and a file that does
\* not load proves nothing.
Refused(f, key) == key # NoKey /\ (signing \notin {NoKey, f.sig} \/ ~f.loads)

\* Mutant for Usable: the requirement it was checked under is not compared.
AnyEntry(e, key) == e

\* The cache entry this call may use: one checked under another signing
\* requirement is dropped.
Usable(e, key) == IF e # None /\ e.signing # key THEN None ELSE e

----------------------------------------------------------------------------
(* RulePolicy.__call__: what a changed library serves.  Returns what is    *)
(* served and the new approved and held rules.                             *)

First(old) == old = None /\ approved = None
Base(old) == IF old = None THEN approved.ids ELSE old.ids
Weakens(old, f) == ~(Base(old) \subseteq f.ids)

\* Mutants for OnChange: the first snapshot after a restart is compared with nothing.
OnChangeTrustingRestart(old, f, key) ==
    IF old = None \/ ~Weakens(old, f) \/ Watch
    THEN [served |-> Snap(f, "no", key), approved |-> [ids |-> f.ids], held |-> None]
    ELSE [served |-> old, approved |-> approved, held |-> f]

\* A held change is not kept for `rules status`.
OnChangeForgetting(old, f, key) ==
    IF First(old) \/ ~Weakens(old, f) \/ Watch
    THEN [served |-> Snap(f, "no", key), approved |-> [ids |-> f.ids], held |-> held]
    ELSE [served |-> IF old = None THEN Snap(f, "weaker", key) ELSE old,
          approved |-> approved, held |-> held]

\* A strengthened library is not put on record.
OnChangeNotRecording(old, f, key) ==
    IF First(old) \/ ~Weakens(old, f) \/ Watch
    THEN [served |-> Snap(f, "no", key), held |-> None,
          approved |-> IF approved = None THEN [ids |-> f.ids] ELSE approved]
    ELSE [served |-> IF old = None THEN Snap(f, "weaker", key) ELSE old,
          approved |-> approved, held |-> f]

OnChange(old, f, key) ==
    CASE First(old) ->
            [served |-> Snap(f, "no", key), approved |-> [ids |-> f.ids], held |-> held]
      [] ~First(old) /\ (~Weakens(old, f) \/ Watch) ->
            [served |-> Snap(f, "no", key), approved |-> [ids |-> f.ids], held |-> None]
      [] ~First(old) /\ Weakens(old, f) /\ ~Watch ->
            [served |-> IF old = None THEN Snap(f, "weaker", key) ELSE old,
             approved |-> approved, held |-> f]

----------------------------------------------------------------------------
(* A call's verdict, and what it leaves owed.                              *)

NoVerdict == [kind |-> "none"]
Denied == [kind |-> "denied"]
Unconfigured == [kind |-> "unconfigured"]

Failed == [kind |-> "error"]        \* resolve raised, or the library does not load

Verdict(s, key) ==
    IF s.held # "no" THEN Denied
    ELSE IF ~s.loads THEN Failed
    ELSE [kind |-> "rules", ids |-> s.ids, sig |-> s.sig, signing |-> key,
          crossed |-> s.crossed]

\* Once a reload put its record, only that record's rules are owed.
Owed(ids) == IF admin = "put" /\ taken # None THEN ids \cap taken.ids ELSE ids

Decide(v) ==
    /\ verdict' = v
    /\ chain' = CASE v.kind = "rules" -> Owed(v.ids)
                  [] v.kind = "denied" -> {}
                  [] OTHER -> chain

----------------------------------------------------------------------------
(* resolve.  key is the requirement the call read before the lock.         *)

Ask(c) ==
    /\ asked[c] = None
    /\ asked' = [asked EXCEPT ![c] = signing]
    /\ UNCHANGED <<disk, stale, signing, ruleVars, adminVars, verdict, ghosts>>

Cached(key) == Usable(entry, key)

\* _missing_signed, or no library at all.
ResolveMissing(key) ==
    /\ disk = Missing
    /\ IF key = NoKey
       THEN entry' = None /\ Decide(Unconfigured)
       ELSE IF Cached(key) # None /\ ~Cached(key).placeholder
            THEN /\ entry' = [Cached(key) EXCEPT !.missing = TRUE]
                 /\ Decide(Verdict(Cached(key).served, key))
            ELSE entry' = None /\ Decide(Denied)
    /\ UNCHANGED <<disk, stale, approved, held, lost>>

\* The file's stats are the entry's: nothing is read.
ResolveCached(key) ==
    /\ disk # Missing
    /\ Cached(key) # None
    /\ ~stale
    /\ entry' = Cached(key)
    /\ Decide(Verdict(Cached(key).served, key))
    /\ UNCHANGED <<disk, stale, approved, held, lost>>

\* What an unsigned file leaves served: the last rules that passed.
Kept(e, f, key) == IF e # None /\ ~e.placeholder THEN e.served ELSE Snap(f, "unsigned", key)

LoadUnsigned(f, key) ==
    LET served == Kept(Cached(key), f, key)
    IN /\ Refused(f, key)
       /\ entry' = [loaded |-> f, served |-> served, unsigned |-> TRUE,
                    placeholder |-> Cached(key) = None \/ Cached(key).placeholder,
                    missing |-> FALSE, signing |-> key]
       /\ Decide(Verdict(served, key))
       /\ lost' = FALSE
       /\ UNCHANGED <<approved, held>>

Untouched(f, key) ==
    /\ Cached(key) # None
    /\ Bytes(Cached(key).loaded) = Bytes(f)
    /\ ~Cached(key).unsigned
    /\ ~Cached(key).missing

\* Touched but not changed: only the entry's stats move.
LoadTouched(f, key) ==
    /\ ~Refused(f, key)
    /\ Untouched(f, key)
    /\ entry' = Cached(key)
    /\ Decide(Verdict(Cached(key).served, key))
    /\ UNCHANGED <<approved, held, lost>>

\* The rules a changed file is compared with.
Old(key) == IF Cached(key) = None \/ Cached(key).placeholder THEN None ELSE Cached(key).served

LoadChanged(f, key) ==
    LET r == OnChange(Old(key), f, key)
    IN /\ ~Refused(f, key)
       /\ ~Untouched(f, key)
       /\ entry' = [loaded |-> f, served |-> r.served, unsigned |-> FALSE,
                    placeholder |-> FALSE, missing |-> FALSE, signing |-> key]
       /\ approved' = r.approved
       /\ held' = r.held
       /\ lost' = FALSE
       /\ Decide(Verdict(r.served, key))

\* The record cannot be written: _apply has dropped the held change by
\* then, resolve raises, and the call is answered as an error.
LoadFails(f, key) ==
    /\ "unwritable" \in Change
    /\ ~Refused(f, key)
    /\ ~Untouched(f, key)
    /\ ~First(Old(key)) /\ Weakens(Old(key), f) => Watch
    /\ entry' = Cached(key)
    /\ held' = IF First(Old(key)) THEN held ELSE None
    /\ lost' = (lost \/ held' # held)
    /\ Decide(Failed)
    /\ UNCHANGED approved

\* The file is read, and then its stats are taken.  A save in between is
\* noticed later only where the stats recorded are those of the bytes read
\* (_load_recorded, signed buckets).
ResolveLoad(key) ==
    /\ disk # Missing
    /\ Cached(key) = None \/ stale
    /\ \/ /\ LoadUnsigned(disk, key) \/ LoadTouched(disk, key) \/ LoadChanged(disk, key)
          /\ \/ UNCHANGED disk /\ stale' = FALSE
             \/ "race" \in Change /\ disk' \in File /\ stale' = (key # NoKey)
       \/ LoadFails(disk, key) /\ UNCHANGED <<disk, stale>>

Resolve(c) ==
    /\ asked[c] # None
    /\ ResolveMissing(asked[c]) \/ ResolveCached(asked[c]) \/ ResolveLoad(asked[c])
    /\ asked' = [asked EXCEPT ![c] = None]
    /\ UNCHANGED <<signing, adminVars>>

----------------------------------------------------------------------------
(* `sponsio rules reload`: RulePolicy.reload takes the held change, puts   *)
(* its ids on record, and rules_reload drops the cache.                    *)

ReloadTake ==
    /\ admin = "idle"
    /\ taken' = held
    /\ held' = None
    /\ admin' = IF held = None THEN "put" ELSE "popped"
    /\ UNCHANGED <<disk, stale, signing, asked, entry, approved, verdict, ghosts>>

ReloadPut ==
    /\ admin = "popped"
    /\ approved' = [ids |-> taken.ids]
    /\ admin' = "put"
    /\ chain' = chain \cap taken.ids
    /\ UNCHANGED <<disk, stale, signing, asked, entry, held, taken, verdict, lost>>

\* The record cannot be written: the reload ends in an error, the change it
\* took is gone and the cache stays.
ReloadFails ==
    /\ "unwritable" \in Change
    /\ admin = "popped"
    /\ admin' = "idle"
    /\ taken' = None
    /\ lost' = TRUE
    /\ UNCHANGED <<disk, stale, signing, asked, ruleVars, verdict, chain>>

ReloadInvalidate ==
    /\ admin = "put"
    /\ entry' = None
    /\ admin' = "idle"
    /\ taken' = None
    /\ UNCHANGED <<disk, stale, signing, asked, approved, held, verdict, ghosts>>

----------------------------------------------------------------------------
(* The environment.                                                        *)

Save(f) ==
    /\ disk' = f
    /\ stale' = TRUE
    /\ UNCHANGED <<signing, asked, ruleVars, adminVars, verdict, ghosts>>

Delete ==
    /\ "delete" \in Change
    /\ disk' = Missing
    /\ stale' = TRUE
    /\ UNCHANGED <<signing, asked, ruleVars, adminVars, verdict, ghosts>>

\* The operator turns signing on, off, or to another key.
ChangeKey(k) ==
    /\ "key" \in Change
    /\ signing' = k
    /\ UNCHANGED <<disk, stale, asked, ruleVars, adminVars, verdict, ghosts>>

\* Memory is lost, and the calls in flight; the approved rulesets are on disk.
Restart ==
    /\ "restart" \in Change
    /\ asked' = [c \in Call |-> None]
    /\ entry' = None
    /\ held' = None
    /\ admin' = "idle"
    /\ taken' = None
    /\ lost' = FALSE
    /\ UNCHANGED <<disk, stale, signing, approved, verdict, chain>>

Init ==
    /\ disk \in File
    /\ stale = TRUE
    /\ signing \in IF "key" \in Change THEN Key \cup {NoKey} ELSE {NoKey}
    /\ asked = [c \in Call |-> None]
    /\ entry = None
    /\ approved = None
    /\ held = None
    /\ admin = "idle"
    /\ taken = None
    /\ verdict = NoVerdict
    /\ chain = {}
    /\ lost = FALSE

Next ==
    \/ \E c \in Call : Ask(c) \/ Resolve(c)
    \/ ReloadTake \/ ReloadPut \/ ReloadFails \/ ReloadInvalidate
    \/ \E f \in File : Save(f)
    \/ Delete
    \/ \E k \in Key \cup {NoKey} : ChangeKey(k)
    \/ Restart

Spec == Init /\ [][Next]_vars

----------------------------------------------------------------------------
(* Properties.                                                             *)

TypeOK ==
    /\ disk \in File \cup {Missing}
    /\ stale \in BOOLEAN
    /\ signing \in Key \cup {NoKey}
    /\ asked \in [Call -> Key \cup {NoKey, None}]
    /\ entry \in Entry \cup {None}
    /\ approved \in Record \cup {None}
    /\ held \in File \cup {None}
    /\ admin \in {"idle", "popped", "put"}
    /\ taken \in File \cup {None}
    /\ admin = "popped" => taken # None
    /\ verdict \in Verdicts
    /\ chain \in SUBSET Rule
    /\ lost \in BOOLEAN

\* The rules a call was let through by.  One that meets no library is
\* allowed by none.
RulesOf(v) == IF v.kind = "rules" THEN v.ids ELSE {}

\* "When any contract was removed or changed, the daemon keeps enforcing
\* the rules it has loaded" (docs/concepts/threat-model.md): from one
\* call that is let through to the next, rules disappear only through a
\* reload or after a call was denied because of them.  The one exception is
\* a call that finds no rule file for a bucket it read as needing no
\* signature: none of the bucket's rules is enforced on it, and nothing is
\* said.  The rules stay owed to the calls that find a file again.
NoSilentWeakening ==
    [][/\ verdict'.kind \in {"rules", "unconfigured"}
       /\ verdict' # verdict
       /\ ~Watch
       => \/ chain \subseteq RulesOf(verdict')
          \/ disk = Missing /\ \E c \in Call : asked[c] = NoKey /\ asked'[c] = None]_vars

\* The rules a call is decided by carry the key the call read as required,
\* unless that key was changed while the call that loaded them was under
\* way (the requirement is read twice).
UnsignedNeverDecides ==
    verdict.kind = "rules" /\ verdict.signing # NoKey /\ ~verdict.crossed
        => verdict.sig = verdict.signing

\* What is enforced is on record as approved, so a restart compares the file
\* with it.  (While a reload is between its record and dropping the cache,
\* the record is ahead of the cache.)
EnforcedIsApproved ==
    admin # "put" /\ entry # None /\ entry.served.held = "no"
        => approved = [ids |-> entry.served.ids]

\* A change that is not applied is shown by `rules status`: held is the
\* file that was loaded and not served.  (A reload that took it drops the
\* entry at its end.)  The exception: a held change that was dropped for a
\* record that could then not be written.
HeldIsShown ==
    /\ admin = "idle" /\ entry # None /\ ~entry.unsigned /\ ~entry.missing
    /\ ~(entry.served.ids \subseteq entry.loaded.ids) \/ entry.served.held = "weaker"
    /\ ~lost
    => held # None /\ Bytes(held) = Bytes(entry.loaded)
=============================================================================
