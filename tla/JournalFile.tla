----------------------------- MODULE JournalFile ------------------------------
(***************************************************************************)
(* A job's journal (crates/duet-ops/src/journal.rs): the records, what an  *)
(* append does to the file, what a crash may leave of it, and what a       *)
(* startup scan makes of what is left.  A line is abstracted to the record *)
(* it parses to, or to Garbage; a step's own contents live in the job's    *)
(* plan, so that a record names a step by its index.                       *)
(***************************************************************************)
EXTENDS Naturals, Sequences, FiniteSets

JobStarted(job) == [type |-> "JobStarted", job |-> job]

(* partial is the number of the .duet-partial-* name chosen for this       *)
(* attempt, 0 for a step that stages nothing.                              *)
Intent(step, partial) ==
  [type |-> "Intent", step |-> step, partial |-> partial]

Completion(step, outcome) ==
  [type |-> "Completion", step |-> step, outcome |-> outcome]

JobFinished(outcome) == [type |-> "JobFinished", outcome |-> outcome]

Garbage == [type |-> "Garbage"]

Has(lines, record) == \E i \in 1..Len(lines) : lines[i] = record

Intended(lines) ==
  {lines[i].step : i \in {j \in 1..Len(lines) : lines[j].type = "Intent"}}

Completed(lines) ==
  {lines[i].step : i \in {j \in 1..Len(lines) : lines[j].type = "Completion"}}

-----------------------------------------------------------------------------
(* The file: its lines, and whether the last one lacks its newline.        *)
NoFile == [lines |-> <<>>, open |-> FALSE]

(* One write at the end of the file: bytes that follow an unterminated     *)
(* line continue it, and two records on one line parse as neither.         *)
AppendTo(file, records) ==
  IF records = <<>> THEN file
  ELSE IF file.open
       THEN [lines |-> SubSeq(file.lines, 1, Len(file.lines) - 1)
                         \o <<Garbage>> \o Tail(records),
             open  |-> FALSE]
       ELSE [lines |-> file.lines \o records, open |-> FALSE]

(* What a power loss may leave when only the first synced lines are        *)
(* durable: any longer prefix, the last line possibly torn, or whole but   *)
(* without its newline.  A line that lacked its newline still does.        *)
Survivors(file, synced) ==
  LET Prefix(k) == SubSeq(file.lines, 1, k)
      unsynced  == (synced + 1)..Len(file.lines)
  IN  {[lines |-> Prefix(k), open |-> file.open /\ k = Len(file.lines)]
         : k \in unsynced \cup {synced}}
        \cup {[lines |-> Prefix(k), open |-> TRUE] : k \in unsynced}
        \cup {[lines |-> Append(Prefix(k - 1), Garbage), open |-> TRUE]
                : k \in unsynced}

-----------------------------------------------------------------------------
(* A scan drops a torn tail; a bad line followed by a good one is not one. *)
TornTail(lines) ==
  \A i, j \in 1..Len(lines) :
    i < j /\ lines[i] = Garbage => lines[j] = Garbage

Parsed(lines) ==
  SubSeq(lines, 1, Cardinality({i \in 1..Len(lines) : lines[i] # Garbage}))

Corrupt == [type |-> "corrupt"]
Nothing == [type |-> "nothing"]

(* The last Intent of a step that never completed names its partial.       *)
LastPartial(records, step) ==
  LET mine == {i \in 1..Len(records) :
                 records[i].type = "Intent" /\ records[i].step = step}
  IN  records[CHOOSE i \in mine : \A j \in mine : j <= i].partial

Fold(records) ==
  LET of(type) == {i \in 1..Len(records) : records[i].type = type}
      incomplete == Intended(records) \ Completed(records)
  IN  IF records = <<>> THEN Nothing
      ELSE IF of("JobStarted") # {1} THEN Corrupt
      ELSE [type       |-> "report",
            job        |-> records[1].job,
            incomplete |-> incomplete,
            orphans    |-> {<<s, LastPartial(records, s)>> : s \in
                              {t \in incomplete : LastPartial(records, t) # 0}},
            finished   |-> of("JobFinished") # {}]

Replay(lines) == IF TornTail(lines) THEN Fold(Parsed(lines)) ELSE Corrupt

===============================================================================
