------------------------------ MODULE AuditLog ------------------------------
(* The daemon's audit log, sponsio/daemon/audit.py: one file that every    *)
(* process of the daemon and its command line append to under a file lock, *)
(* each record chained to the one before by number and hash, so that       *)
(* verify can tell when records were taken out.  A process remembers the   *)
(* last record it appended; when the file no longer holds it, the next     *)
(* append first writes a record of the cut, chained to what was lost.      *)
(*                                                                         *)
(* A write may stop anywhere, by an error the caller is spared or by the   *)
(* end of the process, and leaves a part of its line, which the next       *)
(* append ends.  A record's hash is a number of its own: ids counts them.  *)
(* What a record says is left out, but for the records of a cut.           *)
EXTENDS Integers, Sequences

CONSTANTS Proc,      \* the processes that append
          MaxLines,  \* bound on the lines of the file
          MaxId      \* bound on the records ever written

ASSUME BoundsAssumption == MaxLines \in Nat /\ MaxId \in Nat

VARIABLES lines,   \* the file: records, and parts of records
          torn,    \* it does not end in a newline
          head,    \* what each process appended last
          ids,     \* the hashes used so far
          mine,    \* history: what each process appended since it started
          removed  \* history: lines were taken out of the file

avars == <<lines, torn, head, ids, mine, removed>>

Genesis == 0
Junk == [seq |-> 0, id |-> 0, prev |-> 0, cut |-> FALSE]
NoHead == [seq |-> 0, id |-> 0]

Link == [seq : Nat, id : Nat]
Line == [seq : Nat, id : Nat, prev : Nat, cut : BOOLEAN]

\* The chained records among the first n lines, and the last of them.
Chained(f, n) == {i \in 1 .. n : f[i].id # 0}

LastUpTo(f, n) ==
    IF Chained(f, n) = {} THEN NoHead
    ELSE LET i == CHOOSE i \in Chained(f, n) : \A j \in Chained(f, n) : j <= i
         IN  [seq |-> f[i].seq, id |-> f[i].id]

Last(f) == LastUpTo(f, Len(f))

\* Mutant for Holds: only the last record is looked at.
HoldsLast(f, h) == Last(f) = h

\* Read from the end, up to a record with the number of h or a lower one.
Holds(f, h) ==
    \E i \in Chained(f, Len(f)) :
        /\ f[i].seq = h.seq
        /\ f[i].id = h.id
        /\ \A j \in Chained(f, Len(f)) : j > i => f[j].seq > h.seq

After(link, id, cut) ==
    [seq |-> link.seq + 1, id |-> id, prev |-> link.id, cut |-> cut]

\* Mutant for Cut: the last number is compared, not the record.
CutByNumber(p) == IF Last(lines).seq < head[p].seq
                  THEN <<After(head[p], ids + 1, TRUE)>> ELSE <<>>

\* The cut that an append of p has to report first.
Cut(p) == IF head[p] # NoHead /\ ~Holds(lines, head[p])
          THEN <<After(head[p], ids + 1, TRUE)>> ELSE <<>>

\* The record itself, after whatever is last by then.
Record(p) == After(Last(lines \o Cut(p)), ids + Len(Cut(p)) + 1, FALSE)

New(p) == Append(Cut(p), Record(p))

\* Mutant for Wrote: a torn last line is not ended first.
WroteGlued(p, n, rest) ==
    LET new == New(p)
        old == IF torn THEN [lines EXCEPT ![Len(lines)] = Junk] ELSE lines
        whole == old \o SubSeq(new, IF torn THEN 2 ELSE 1, n)
    IN  /\ n \in 0 .. Len(new)
        /\ rest # "nothing" => n < Len(new)
        /\ \/ rest = "nothing" /\ lines' = whole
           \/ rest = "part" /\ lines' = Append(whole, Junk)
           \/ rest = "line" /\ lines' = Append(whole, new[n + 1])
        /\ torn' = (rest # "nothing")
        /\ Len(lines') <= MaxLines
        /\ ids' = ids + n + (IF rest = "line" THEN 1 ELSE 0)
        /\ ids' <= MaxId

\* An append of p wrote the first n of its records whole, and of the next
\* one nothing, a part, or all but the newline.
Wrote(p, n, rest) ==
    LET new == New(p)
        whole == lines \o SubSeq(new, 1, n)
    IN  /\ n \in 0 .. Len(new)
        /\ rest # "nothing" => n < Len(new)
        /\ \/ rest = "nothing" /\ lines' = whole
           \/ rest = "part" /\ lines' = Append(whole, Junk)
           \/ rest = "line" /\ lines' = Append(whole, new[n + 1])
        /\ torn' = (rest # "nothing")
        /\ Len(lines') <= MaxLines
        /\ ids' = ids + n + (IF rest = "line" THEN 1 ELSE 0)
        /\ ids' <= MaxId

\* The records p remembers: those it wrote with their newline.
Remembered(p, n) ==
    LET new == New(p) IN
    /\ head' = IF n = 0 THEN head
               ELSE [head EXCEPT ![p] = [seq |-> new[n].seq, id |-> new[n].id]]
    /\ mine' = [mine EXCEPT ![p] = @ \cup {new[i].id : i \in 1 .. n}]

\* append: the record is in the chain.
AppendRecord(p) ==
    LET n == Len(New(p)) IN
    /\ Wrote(p, n, "nothing")
    /\ Remembered(p, n)
    /\ UNCHANGED removed

\* append gave up: a write raised.
AppendFails(p) ==
    \/ \E n \in 0 .. 1, rest \in {"nothing", "part", "line"} :
           /\ n < Len(New(p))
           /\ Wrote(p, n, rest)
           /\ Remembered(p, n)
           /\ UNCHANGED removed
    \/ UNCHANGED avars

Restarted(p) ==
    /\ head' = [head EXCEPT ![p] = NoHead]
    /\ mine' = [mine EXCEPT ![p] = {}]

\* The process ended inside an append, or outside of one.
Crash(p) ==
    \E n \in 0 .. 2, rest \in {"nothing", "part", "line"} :
        /\ Wrote(p, n, rest)
        /\ Restarted(p)
        /\ UNCHANGED removed

Restart(p) == Restarted(p) /\ UNCHANGED <<lines, torn, ids, removed>>

\* Somebody takes lines out of the file: a tail, the start, any range.
Remove(from, to) ==
    /\ from \in 1 .. to
    /\ to \in DOMAIN lines
    /\ lines' = SubSeq(lines, 1, from - 1) \o SubSeq(lines, to + 1, Len(lines))
    /\ torn' = (torn /\ to < Len(lines))
    /\ removed' = TRUE
    /\ UNCHANGED <<head, ids, mine>>

AuditInit ==
    /\ lines = <<>>
    /\ torn = FALSE
    /\ head = [p \in Proc |-> NoHead]
    /\ ids = 0
    /\ mine = [p \in Proc |-> {}]
    /\ removed = FALSE

AuditNext ==
    \/ \E p \in Proc :
           AppendRecord(p) \/ AppendFails(p) \/ Crash(p)
    \/ \E p \in Proc : Restart(p)
    \/ \E from, to \in 1 .. MaxLines : Remove(from, to)

AuditSpec == AuditInit /\ [][AuditNext]_avars
-----------------------------------------------------------------------------
\* verify: each chained record follows the one before by number and hash.
Follows(f, i) == /\ f[i].prev = LastUpTo(f, i - 1).id
                 /\ f[i].seq = LastUpTo(f, i - 1).seq + 1

Unbroken(f) == \A i \in Chained(f, Len(f)) : Follows(f, i)

\* The file has the record a link names.
Has(f, link) == \E i \in Chained(f, Len(f)) :
                    f[i].seq = link.seq /\ f[i].id = link.id

\* verify with the head a running process gave.
Verifies(p) == Unbroken(lines) /\ (head[p] # NoHead => Has(lines, head[p]))

AuditTypeOK ==
    /\ lines \in Seq(Line)
    /\ torn \in BOOLEAN
    /\ head \in [Proc -> Link]
    /\ ids \in Nat
    /\ mine \in [Proc -> SUBSET Nat]
    /\ removed \in BOOLEAN

\* Until lines are taken out the chain is whole and tells of no cut, through
\* every failed and torn write, crash and interleaving of processes.
ChainUnbroken ==
    ~removed => /\ Unbroken(lines)
                /\ \A i \in DOMAIN lines : ~lines[i].cut

\* A process whose last record is still in the file has no cut to report: what
\* others append, and take out, is not taken for its own record gone.
HeldIsFound ==
    \A p \in Proc :
        head[p] # NoHead /\ Has(lines, head[p]) => Cut(p) = <<>>

\* When a record a running process appended is gone, verify with what that
\* process remembers says so, however much was appended since.
CutIsSeen ==
    \A p \in Proc :
        (\E id \in mine[p] : \A i \in DOMAIN lines : lines[i].id # id)
        => ~Verifies(p)
=============================================================================
