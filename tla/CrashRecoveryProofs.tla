-------------------------- MODULE CrashRecoveryProofs --------------------------
(***************************************************************************)
(* Theorems about CrashRecovery: what was resolved stays resolved and what *)
(* is left on disk stays named, for any plans, any number of ids, lives    *)
(* and faults.                                                             *)
(***************************************************************************)
EXTENDS CrashRecovery, PickedProofs

(* What a journal's lines can be.                                          *)
JobIds == [id : Ids, plan : Seq(Items)]
Lines ==
  [type : {"JobStarted"}, job : JobIds]
    \cup [type : {"Intent"}, step : Nat, partial : Nat]
    \cup [type : {"Completion"}, step : Nat, outcome : {"Succeeded", "Skipped"}]
    \cup [type : {"JobFinished"}, outcome : {"Completed", "Cancelled"}]
    \cup {Garbage}

Files == [lines : Seq(Lines), open : BOOLEAN]

Places ==
  {"none", "opened", "starting", "ready", "intent", "staged", "published", "ended"}
Jobs == [at : Places, plan : Seq(Items), step : Nat, name : Nat]

Reports ==
  [type : {"report"}, job : JobIds, incomplete : SUBSET Nat,
   orphans : SUBSET (Nat \X Nat), finished : BOOLEAN]

Actions ==
  [kind : {"resume", "discard"}, report : Reports, doomed : SUBSET Nat, todo : Seq(Lines)]

Named == {"intent", "staged", "published"}

Filed(id) ==
  /\ synced[id] <= Len(files[id].lines)
  /\ files[id].open => files[id].lines # << >>

Employed(id) ==
  /\ jobs[id].at \in Named => jobs[id].name \in 1..names
  /\ jobs[id].at # "none" => jobs[id].step >= 1

Disked ==
  /\ files \in [Ids -> Files] /\ synced \in [Ids -> Nat]
  /\ \A id \in Ids : Filed(id)

Working ==
  /\ names \in Nat /\ nextId \in Nat
  /\ partials \subseteq [id : Ids, name : Nat]
  /\ \A p \in partials : p.name \in 1..names
  /\ jobs \in [Ids -> Jobs]
  /\ \A id \in Ids : Employed(id)

Asking ==
  /\ reports \subseteq Reports
  /\ action = NoAction \/ action \in Actions
  /\ history \in [asked : SUBSET Items, handed : SUBSET Nat, retired : SUBSET Reports]

Living ==
  /\ session \in 0..MaxSessions /\ faults \in Nat /\ up \in BOOLEAN
  /\ ~up => reports = {} /\ action = NoAction /\ \A id \in Ids : jobs[id].at = "none"

Typed == Disked /\ Working /\ Asking /\ Living

(* A scan reads the lines before the first that cannot follow: the start   *)
(* of another job, or bytes that parse as nothing.  What comes after it    *)
(* can only make the file unreadable.                                      *)
Break(lines, b) ==
  /\ b \in 1..Len(lines)
  /\ \/ lines[b].type = "Garbage"
     \/ b = 1 /\ lines[b].type # "JobStarted"
     \/ b # 1 /\ lines[b].type = "JobStarted"
Clear(lines, j) == j \in 1..Len(lines) /\ \A b \in 1..j : ~Break(lines, b)
Broken(lines) == \E b \in 1..Len(lines) : Break(lines, b)

(* Nothing that is written behind the k-th line makes this readable again. *)
Dead(lines, k) ==
  \E i, j \in 1..k :
    /\ i < j
    /\ \/ lines[j].type = "JobStarted"
       \/ lines[i].type = "Garbage" /\ lines[j].type # "Garbage"

(* The k-th line stays, whatever crashes and appends follow.               *)
Durable(id, k) ==
  k \in 0..synced[id] /\ (files[id].open => k < Len(files[id].lines))

Speaks(lines, j, step) == lines[j].type \in {"Intent", "Completion"} /\ lines[j].step = step

Begun(id) == jobs[id].at \notin {"none", "opened"}

(* Every journal names its own job, and plans what it intends.             *)
Headed(lines) == lines # << >> => lines[1].type \in {"JobStarted", "Garbage"}

Own(id) ==
  LET lines == files[id].lines
  IN /\ Headed(lines)
     /\ \A j \in 1..Len(lines) : lines[j].type = "JobStarted" => lines[j].job.id = id
     /\ \A j \in 1..Len(lines) :
          Clear(lines, j) /\ lines[j].type = "Intent" =>
            lines[j].step \in 1..Len(lines[1].job.plan) /\ lines[j].partial \in 1..names

(* A report that is listed, or that is being answered.                     *)
On(id) ==
  \/ \E r \in reports : r.job.id = id
  \/ action # NoAction /\ action.report.job.id = id

(* A job runs in a file of its own, or behind a line that breaks it off.   *)
Intending(lines, job) ==
  \E k \in 1..Len(lines) :
    /\ job.at \in Named => lines[k] = Intent(job.step, job.name)
    /\ \A j \in 1..Len(lines) :
         (j # k \/ job.at \notin Named) /\ lines[j].type \in {"Intent", "Completion"} =>
           lines[j].step < job.step

Fresh(id) ==
  LET lines == files[id].lines
      job == jobs[id]
  IN /\ lines # << >> /\ ~Broken(lines) /\ ~On(id)
     /\ lines[1].job.plan = job.plan
     /\ Intending(lines, job)
     /\ \A p \in partials :
          p.id = id => p.name \in history.handed \/ (job.at = "staged" /\ p.name = job.name)

Behind(id) ==
  LET lines == files[id].lines
  IN Broken(lines) /\ (jobs[id].at \in Named => Dead(lines, Len(lines)))

Runs(id) == Begun(id) => ~files[id].open /\ (Fresh(id) \/ Behind(id))

(* A partial on disk.                                                      *)
Lost(id) == \E k \in Nat : Durable(id, k) /\ Dead(files[id].lines, k)

Announces(lines, k, name) ==
  /\ Clear(lines, k)
  /\ lines[k].type = "Intent" /\ lines[k].partial = name
  /\ \A j \in 1..Len(lines) :
       j # k /\ Clear(lines, j) => ~Speaks(lines, j, lines[k].step)

Announced(p) == \E k \in Nat : Durable(p.id, k) /\ Announces(files[p.id].lines, k, p.name)

Accounted(p) == p.name \in history.handed \/ Lost(p.id) \/ Announced(p)

(* Of a report's steps, those that are still to be resolved; and how many  *)
(* records are left to write.                                              *)
Pending(lines, rest) ==
  \A j \in 1..Len(lines) : lines[j].type = "Intent" =>
    \/ lines[j].step \in rest
    \/ \E c \in 1..Len(lines) : lines[c].type = "Completion" /\ lines[c].step = lines[j].step

FollowsOn(file, at, rest, left) ==
  LET lines == file.lines
  IN /\ lines # << >>
     /\ file.open => left >= 2
     /\ ~file.open /\ Broken(lines) => Dead(lines, Len(lines)) \/ left >= 1
     /\ ~file.open /\ ~Broken(lines) => at \in {"none", "opened"} /\ Pending(lines, rest)

Follows(id, rest, left) == FollowsOn(files[id], jobs[id].at, rest, left)

Covered(id, some) ==
  \A p \in partials : p.id = id => p.name \in history.handed \/ Lost(p.id) \/ p.name \in some

NamesOf(orphans) == {o[2] : o \in orphans}

Listed(r) ==
  /\ r.job.id \in Ids
  /\ r.incomplete # {} /\ r.incomplete \subseteq 1..Len(r.job.plan)
  /\ Follows(r.job.id, r.incomplete, 2)
  /\ Covered(r.job.id, NamesOf(r.orphans))

ToDo(todo) == {todo[i].step : i \in {j \in 1..Len(todo) : todo[j].type = "Completion"}}

Resolves(id, doomed, todo) ==
  /\ id \in Ids
  /\ Follows(id, ToDo(todo), Len(todo))
  /\ \A i \in 1..Len(todo) : todo[i].type \in {"Completion", "JobFinished"}
  /\ Covered(id, doomed)

Answering ==
  action # NoAction => Resolves(action.report.job.id, action.doomed, action.todo)

(* A journal whose report was retired.                                     *)
Resolved(lines, k) ==
  \A j \in 1..k : Clear(lines, j) /\ lines[j].type = "Intent" =>
    \E c \in 1..k : Clear(lines, c) /\ lines[c].type = "Completion" /\ lines[c].step = lines[j].step

Stopped(lines, k) == \E b \in 1..(k + 1) : Break(lines, b)

Settled(id) ==
  LET lines == files[id].lines
  IN \E k \in Nat :
       /\ k >= 1 /\ Durable(id, k)
       /\ \/ Dead(lines, k)
          \/ Resolved(lines, k) /\ ((Len(lines) = k /\ ~Begun(id)) \/ Stopped(lines, k))

Gone(r) == r.job.id \in Ids /\ Settled(r.job.id) /\ ~On(r.job.id)

Inv ==
  /\ Typed
  /\ \A id \in Ids : Own(id) /\ Runs(id)
  /\ \A p \in partials : Accounted(p)
  /\ \A r \in reports : Listed(r)
  /\ Answering
  /\ \A r \in history.retired : Gone(r)

-----------------------------------------------------------------------------
(* Facts about lines.                                                      *)
LEMMA LineFacts ==
  ASSUME NEW l \in Lines
  PROVE  /\ l.type \in {"JobStarted", "Intent", "Completion", "JobFinished", "Garbage"}
         /\ l.type = "Garbage" <=> l = Garbage
         /\ l.type = "JobStarted" => l.job \in JobIds
         /\ l.type = "Intent" => l.step \in Nat /\ l.partial \in Nat
         /\ l.type = "Completion" => l.step \in Nat
<1>1. CASE l = Garbage
  BY <1>1 DEF Garbage
<1>2. CASE l \in [type : {"JobStarted"}, job : JobIds]
  BY <1>2 DEF Garbage
<1>3. CASE l \in [type : {"Intent"}, step : Nat, partial : Nat]
  BY <1>3 DEF Garbage
<1>4. CASE l \in [type : {"Completion"}, step : Nat, outcome : {"Succeeded", "Skipped"}]
  BY <1>4 DEF Garbage
<1>5. CASE l \in [type : {"JobFinished"}, outcome : {"Completed", "Cancelled"}]
  BY <1>5 DEF Garbage
<1> QED
  BY <1>1, <1>2, <1>3, <1>4, <1>5 DEF Lines

LEMMA Recorded ==
  /\ \A job \in JobIds : JobStarted(job) \in Lines
  /\ \A s, n \in Nat : Intent(s, n) \in Lines
  /\ \A s \in Nat : \A o \in {"Succeeded", "Skipped"} : Completion(s, o) \in Lines
  /\ \A o \in {"Completed", "Cancelled"} : JobFinished(o) \in Lines
  /\ Garbage \in Lines
BY DEF Lines, JobStarted, Intent, Completion, JobFinished, Garbage

(* The first k lines of L are those of M.                                  *)
Keeps(L, M, k) ==
  k \in Nat /\ k <= Len(L) /\ k <= Len(M) /\ \A i \in 1..k : M[i] = L[i]

LEMMA BreakKept ==
  ASSUME NEW L \in Seq(Lines), NEW M \in Seq(Lines), NEW k, Keeps(L, M, k), NEW b \in 1..k
  PROVE  /\ Break(L, b) <=> Break(M, b)
         /\ b \in 1..Len(L) /\ b \in 1..Len(M) /\ M[b] = L[b]
<1>1. b \in 1..Len(L) /\ b \in 1..Len(M) /\ M[b] = L[b]
  BY LenProperties DEF Keeps
<1> QED
  BY <1>1 DEF Break

LEMMA ClearKept ==
  ASSUME NEW L \in Seq(Lines), NEW M \in Seq(Lines), NEW k, Keeps(L, M, k), NEW j \in 1..k
  PROVE  Clear(L, j) <=> Clear(M, j)
<1>1. j \in 1..Len(L) /\ j \in 1..Len(M) /\ k \in Nat
  BY BreakKept DEF Keeps
<1>2. \A b \in 1..j : Break(L, b) <=> Break(M, b)
  BY <1>1, BreakKept
<1> QED
  BY <1>1, <1>2 DEF Clear

LEMMA DeadKept ==
  ASSUME NEW L, NEW M, NEW k, Keeps(L, M, k), Dead(L, k)
  PROVE  Dead(M, k)
BY DEF Keeps, Dead

LEMMA DeadGrows ==
  ASSUME NEW L, NEW k \in Nat, NEW m \in Nat, k <= m, Dead(L, k)
  PROVE  Dead(L, m)
BY DEF Dead

LEMMA BrokenKept ==
  ASSUME NEW L \in Seq(Lines), NEW M \in Seq(Lines), NEW k, Keeps(L, M, k),
         NEW b \in 1..k, Break(L, b)
  PROVE  Broken(M)
BY BreakKept DEF Broken

(* A line is one that a scan reads, or it comes behind a break.            *)
LEMMA ClearFacts ==
  ASSUME NEW L \in Seq(Lines), NEW j, Clear(L, j)
  PROVE  /\ j \in 1..Len(L) /\ L[j] \in Lines /\ L[j].type # "Garbage"
         /\ L[j].type = "JobStarted" <=> j = 1
         /\ \A i \in 1..j : Clear(L, i)
<1>1. j \in 1..Len(L) /\ L[j] \in Lines
  BY ElementOfSeq DEF Clear
<1>2. ~Break(L, j)
  BY <1>1, LenProperties DEF Clear
<1>3. \A i \in 1..j : i \in 1..Len(L) /\ 1..i \subseteq 1..j
  BY <1>1, LenProperties
<1> QED
  BY <1>1, <1>2, <1>3 DEF Clear, Break

LEMMA UnbrokenClear ==
  ASSUME NEW L \in Seq(Lines), ~Broken(L), NEW j \in 1..Len(L)
  PROVE  Clear(L, j)
BY LenProperties DEF Broken, Clear

LEMMA DeadBroken ==
  ASSUME NEW L \in Seq(Lines), Dead(L, Len(L))
  PROVE  Broken(L)
BY LenProperties DEF Dead, Broken, Break

(* What is written behind a break.                                         *)
LEMMA BehindBreak ==
  ASSUME NEW L \in Seq(Lines), NEW M \in Seq(Lines), Headed(L),
         Keeps(L, M, Len(L)), Len(M) = Len(L) + 1, NEW b \in 1..Len(L), Break(L, b),
         M[Len(M)].type # "Garbage"
  PROVE  Dead(M, Len(M))
<1>1. Len(L) \in Nat /\ L # << >> /\ b \in 1..Len(M) /\ Len(M) \in 1..Len(M)
  BY LenProperties, EmptySeq
<1>2. 1 \in 1..Len(L) /\ M[1] = L[1] /\ M[b] = L[b]
  BY <1>1, LenProperties DEF Keeps
<1>3. L[1].type \in {"JobStarted", "Garbage"}
  BY <1>1 DEF Headed
<1>4. b < Len(M)
  BY <1>1
<1>5. CASE L[b].type = "Garbage"
  BY <1>1, <1>2, <1>4, <1>5 DEF Dead
<1>6. CASE b # 1 /\ L[b].type = "JobStarted"
  <2>1. 1 \in 1..Len(M) /\ 1 < b
    BY <1>1, <1>6
  <2> QED
    BY <1>1, <1>2, <1>6, <2>1 DEF Dead
<1> QED
  BY <1>3, <1>5, <1>6 DEF Break

(* A record that continues a file without breaking it.                     *)
LEMMA Continues ==
  ASSUME NEW L \in Seq(Lines), NEW M \in Seq(Lines), L # << >>,
         Keeps(L, M, Len(L)), Len(M) = Len(L) + 1, ~Broken(L),
         M[Len(M)].type \notin {"Garbage", "JobStarted"}
  PROVE  ~Broken(M)
<1>1. Len(L) \in Nat /\ Len(L) >= 1
  BY LenProperties, EmptySeq
<1>2. SUFFICES ASSUME NEW b \in 1..Len(M), Break(M, b)
               PROVE  FALSE
  BY DEF Broken
<1>3. CASE b = Len(M)
  BY <1>1, <1>2, <1>3 DEF Break
<1>4. CASE b # Len(M)
  <2>1. b \in 1..Len(L)
    BY <1>1, <1>4
  <2> QED
    BY <1>2, <2>1, BreakKept DEF Broken
<1> QED
  BY <1>3, <1>4

(* A start or spoilt bytes behind some lines break them off.               *)
LEMMA BreaksOff ==
  ASSUME NEW M \in Seq(Lines), NEW b \in 1..Len(M),
         M[b].type = "Garbage" \/ (b # 1 /\ M[b].type = "JobStarted")
  PROVE  Broken(M) /\ Break(M, b)
BY DEF Broken, Break

LEMMA ResolvedKept ==
  ASSUME NEW L \in Seq(Lines), NEW M \in Seq(Lines), NEW k, Keeps(L, M, k), Resolved(L, k)
  PROVE  Resolved(M, k)
<1>1. SUFFICES ASSUME NEW j \in 1..k, Clear(M, j), M[j].type = "Intent"
               PROVE  \E c \in 1..k : /\ Clear(M, c) /\ M[c].type = "Completion"
                                      /\ M[c].step = M[j].step
  BY DEF Resolved
<1>2. Clear(L, j) /\ M[j] = L[j]
  BY <1>1, ClearKept, BreakKept
<1>3. PICK c \in 1..k : Clear(L, c) /\ L[c].type = "Completion" /\ L[c].step = L[j].step
  BY <1>1, <1>2 DEF Resolved
<1>4. Clear(M, c) /\ M[c] = L[c]
  BY <1>3, ClearKept, BreakKept
<1> QED
  BY <1>2, <1>3, <1>4

-----------------------------------------------------------------------------
(* What a scan makes of a file.                                            *)
LEMMA Largest ==
  ASSUME NEW n \in Nat, NEW T, Within(T, n), T # {}
  PROVE  \E k \in T : \A j \in T : j <= k
<1>0. \A p \in T : p \in Nat /\ 1 <= p /\ p <= n
  BY DEF Within
<1> DEFINE Up == {m \in Nat : \A j \in T : j <= m}
<1>1. n \in Up /\ Up \subseteq Nat
  BY <1>0
<1>2. PICK k \in Up : \A m \in Up : k <= m
  BY <1>1, Smallest
<1>3. k \in Nat /\ \A j \in T : j \in Nat /\ j <= k
  BY <1>0, <1>2
<1>4. ASSUME k \notin T
      PROVE  FALSE
  <2>1. PICK t \in T : TRUE
    OBVIOUS
  <2>2. k - 1 \in Nat
    BY <1>0, <1>3, <2>1
  <2>3. \A j \in T : j <= k - 1
    BY <1>3, <1>4
  <2> QED
    BY <1>2, <1>3, <2>2, <2>3
<1> QED
  BY <1>3, <1>4

Good(lines) == {i \in 1..Len(lines) : lines[i] # Garbage}

LEMMA TornFacts ==
  ASSUME NEW lines \in Seq(Lines), TornTail(lines)
  PROVE  \E m \in 0..Len(lines) :
           /\ Parsed(lines) \in Seq(Lines) /\ Len(Parsed(lines)) = m
           /\ \A i \in 1..m : Parsed(lines)[i] = lines[i]
           /\ \A i \in 1..Len(lines) : lines[i].type # "Garbage" <=> i <= m
<1> DEFINE n == Len(lines)
           Bad == {i \in 1..n : lines[i] = Garbage}
<1>1. n \in Nat
  BY LenProperties
<1>2. \E m \in 0..n : Good(lines) = 1..m
  <2>1. CASE Bad = {}
    <3>1. Good(lines) = 1..n
      BY <2>1 DEF Good
    <3> QED
      BY <1>1, <3>1
  <2>2. CASE Bad # {}
    <3>1. Bad \in SUBSET Nat
      BY <1>1
    <3>2. PICK b \in Bad : \A j \in Bad : b <= j
      BY <2>2, <3>1, Smallest
    <3>3. b - 1 \in 0..n /\ b \in 1..n /\ lines[b] = Garbage
      BY <1>1
    <3>4. Good(lines) = 1..(b - 1)
      <4>1. ASSUME NEW i \in Good(lines)
            PROVE  i \in 1..(b - 1)
        <5>1. i \in 1..n /\ lines[i] # Garbage
          BY DEF Good
        <5>2. ~(b < i) /\ i # b
          BY <3>3, <5>1 DEF TornTail
        <5> QED
          BY <1>1, <3>3, <5>1, <5>2
      <4>2. ASSUME NEW i \in 1..(b - 1)
            PROVE  i \in Good(lines)
        <5>1. i \in 1..n /\ ~(b <= i)
          BY <1>1, <3>3
        <5> QED
          BY <3>2, <5>1 DEF Good
      <4> QED
        BY <4>1, <4>2
    <3> QED
      BY <3>3, <3>4
  <2> QED
    BY <2>1, <2>2
<1>3. PICK m \in 0..n : Good(lines) = 1..m
  BY <1>2
<1>4. m \in Nat /\ m <= n
  BY <1>1
<1>5. Cardinality(Good(lines)) = m
  BY <1>3, <1>4, FS_Interval
<1>6. Parsed(lines) = SubSeq(lines, 1, m)
  BY <1>5 DEF Parsed, Good
<1>7. /\ SubSeq(lines, 1, m) \in Seq(Lines) /\ Len(SubSeq(lines, 1, m)) = m
      /\ \A i \in 1..m : SubSeq(lines, 1, m)[i] = lines[i]
  BY <1>1, <1>4, SubSeqProperties
<1>8. ASSUME NEW i \in 1..n
      PROVE  lines[i].type # "Garbage" <=> i <= m
  <2>1. lines[i] \in Lines
    BY ElementOfSeq
  <2>2. lines[i] # Garbage <=> i \in 1..m
    BY <1>3 DEF Good
  <2> QED
    BY <1>4, <2>1, <2>2, LineFacts
<1> QED
  BY <1>6, <1>7, <1>8

LEMMA LastFacts ==
  ASSUME NEW records \in Seq(Lines), NEW t \in Intended(records)
  PROVE  \E i \in 1..Len(records) :
           /\ records[i].type = "Intent" /\ records[i].step = t
           /\ LastPartial(records, t) = records[i].partial
           /\ LastPartial(records, t) \in Nat
<1> DEFINE mine == {i \in 1..Len(records) : records[i].type = "Intent" /\ records[i].step = t}
           last == CHOOSE i \in mine : \A j \in mine : j <= i
<1>1. Len(records) \in Nat
  BY LenProperties
<1>2. Within(mine, Len(records)) /\ mine # {}
  BY <1>1 DEF Within, Intended
<1>3. \E i \in mine : \A j \in mine : j <= i
  BY <1>1, <1>2, Largest
<1>4. last \in mine
  BY <1>3
<1>5. LastPartial(records, t) = records[last].partial
  BY DEF LastPartial
<1>6. records[last] \in Lines
  BY <1>4, ElementOfSeq
<1> QED
  BY <1>4, <1>5, <1>6, LineFacts

(* What a report says of its file.                                         *)
Undertakes(lines, s) == \E j \in 1..Len(lines) : Clear(lines, j) /\ lines[j].type = "Intent" /\ lines[j].step = s
Concludes(lines, s) ==
  \E j \in 1..Len(lines) : Clear(lines, j) /\ lines[j].type = "Completion" /\ lines[j].step = s

Reads(lines, report) ==
  /\ report \in Reports
  /\ Clear(lines, 1) /\ report.job = lines[1].job
  /\ \A s : s \in report.incomplete <=> Undertakes(lines, s) /\ ~Concludes(lines, s)
  /\ \A o \in report.orphans : o[1] \in report.incomplete
  /\ \A k \in 1..Len(lines) :
       Announces(lines, k, lines[k].partial) /\ lines[k].partial # 0 =>
         <<lines[k].step, lines[k].partial>> \in report.orphans

LEMMA Distinct ==
  /\ Corrupt # Nothing
  /\ \A r \in Reports : r # Corrupt /\ r # Nothing
<1>1. Corrupt.type = "corrupt" /\ Nothing.type = "nothing" /\ \A r \in Reports : r.type = "report"
  BY DEF Corrupt, Nothing, Reports
<1> QED
  BY <1>1

LEMMA DeadCorrupt ==
  ASSUME NEW lines \in Seq(Lines), Dead(lines, Len(lines))
  PROVE  Replay(lines) = Corrupt
<1>1. Len(lines) \in Nat
  BY LenProperties
<1>2. PICK i \in 1..Len(lines), j \in 1..Len(lines) :
        /\ i < j
        /\ \/ lines[j].type = "JobStarted"
           \/ lines[i].type = "Garbage" /\ lines[j].type # "Garbage"
  BY DEF Dead
<1>3. CASE ~TornTail(lines)
  BY <1>3 DEF Replay
<1>4. CASE TornTail(lines)
  <2>1. PICK m \in 0..Len(lines) :
           /\ Parsed(lines) \in Seq(Lines) /\ Len(Parsed(lines)) = m
           /\ \A k \in 1..m : Parsed(lines)[k] = lines[k]
           /\ \A k \in 1..Len(lines) : lines[k].type # "Garbage" <=> k <= m
    BY <1>4, TornFacts
  <2>2. lines[j].type = "JobStarted" /\ j \in 1..m /\ j # 1
    BY <1>1, <1>2, <2>1
  <2>3. Parsed(lines)[j].type = "JobStarted" /\ j \in 1..Len(Parsed(lines))
    BY <2>1, <2>2
  <2>4. Parsed(lines) # << >>
    BY <2>1, <2>2, EmptySeq
  <2>5. {k \in 1..Len(Parsed(lines)) : Parsed(lines)[k].type = "JobStarted"} # {1}
    BY <2>2, <2>3
  <2> QED
    BY <1>4, <2>4, <2>5 DEF Replay, Fold
<1> QED
  BY <1>3, <1>4

LEMMA ReplayFacts ==
  ASSUME NEW lines \in Seq(Lines)
  PROVE  /\ Replay(lines) \in {Corrupt, Nothing} \/ Reads(lines, Replay(lines))
         /\ Clear(lines, 1) => Replay(lines) # Nothing
<1>1. CASE ~TornTail(lines)
  BY <1>1, Distinct DEF Replay
<1>2. CASE TornTail(lines)
  <2> DEFINE records == Parsed(lines)
             incomplete == Intended(records) \ Completed(records)
             orphans == {<<s, LastPartial(records, s)>> : s \in
                           {t \in incomplete : LastPartial(records, t) # 0}}
             finished == {i \in 1..Len(records) : records[i].type = "JobFinished"} # {}
             report == [type |-> "report", job |-> records[1].job, incomplete |-> incomplete,
                        orphans |-> orphans, finished |-> finished]
             starts == {i \in 1..Len(records) : records[i].type = "JobStarted"}
  <2>1. PICK m \in 0..Len(lines) :
           /\ records \in Seq(Lines) /\ Len(records) = m
           /\ \A k \in 1..m : records[k] = lines[k]
           /\ \A k \in 1..Len(lines) : lines[k].type # "Garbage" <=> k <= m
    BY <1>2, TornFacts
  <2>2. Len(lines) \in Nat /\ m \in Nat /\ \A j \in 1..m : j \in 1..Len(lines)
    BY LenProperties
  <2>3. CASE records = << >>
    <3>1. m = 0
      BY <2>1, <2>3, EmptySeq
    <3>2. ~Clear(lines, 1)
      <4>1. SUFFICES ASSUME Clear(lines, 1) PROVE FALSE
        OBVIOUS
      <4>2. 1 \in 1..Len(lines) /\ lines[1].type # "Garbage"
        BY <4>1, ClearFacts
      <4> QED
        BY <2>1, <3>1, <4>2
    <3>3. Replay(lines) = Nothing
      BY <1>2, <2>3 DEF Replay, Fold
    <3> QED
      BY <3>2, <3>3
  <2>4. CASE records # << >> /\ starts # {1}
    <3>1. Replay(lines) = Corrupt
      BY <1>2, <2>4 DEF Replay, Fold
    <3> QED
      BY <3>1, Distinct
  <2>5. CASE records # << >> /\ starts = {1}
    <3>1. Replay(lines) = report
      BY <1>2, <2>5 DEF Replay, Fold
    <3>2. m >= 1 /\ records[1] \in Lines /\ records[1].type = "JobStarted" /\ records[1].job \in JobIds
      <4>1. 1 \in 1..Len(records) /\ records[1].type = "JobStarted"
        BY <2>5
      <4>2. records[1] \in Lines
        BY <2>1, <4>1, ElementOfSeq
      <4> QED
        BY <2>1, <2>2, <4>1, <4>2, LineFacts
    <3>3. \A j \in 1..Len(lines) : Clear(lines, j) <=> j \in 1..m
      <4>1. ASSUME NEW j \in 1..m
            PROVE  Clear(lines, j)
        <5>1. \A b \in 1..j : b \in 1..m /\ (records[b].type = "JobStarted" <=> b = 1)
                              /\ b \in 1..Len(lines) /\ lines[b] = records[b]
                              /\ lines[b].type # "Garbage"
          BY <2>1, <2>2, <2>5
        <5> QED
          BY <2>2, <5>1 DEF Clear, Break
      <4>2. ASSUME NEW j \in 1..Len(lines), Clear(lines, j)
            PROVE  j \in 1..m
        BY <2>1, <2>2, <4>2, ClearFacts
      <4> QED
        BY <2>2, <4>1, <4>2
    <3>4. \A s : s \in Intended(records) <=> Undertakes(lines, s)
      BY <2>1, <2>2, <3>3 DEF Intended, Undertakes
    <3>5. \A s : s \in Completed(records) <=> Concludes(lines, s)
      BY <2>1, <2>2, <3>3 DEF Completed, Concludes
    <3>6. ASSUME NEW t \in Intended(records)
          PROVE  t \in Nat /\ LastPartial(records, t) \in Nat
      <4>1. PICK i \in 1..Len(records) : records[i].type = "Intent" /\ records[i].step = t
        BY DEF Intended
      <4>2. records[i] \in Lines
        BY <2>1, <4>1, ElementOfSeq
      <4> QED
        BY <2>1, <4>1, <4>2, LineFacts, LastFacts
    <3>7. incomplete \subseteq Nat /\ orphans \subseteq Nat \X Nat
      BY <3>6
    <3>8. ASSUME NEW k \in 1..Len(lines), Announces(lines, k, lines[k].partial),
                 lines[k].partial # 0
          PROVE  <<lines[k].step, lines[k].partial>> \in orphans
      <4> DEFINE s == lines[k].step
      <4>1. k \in 1..m /\ Clear(lines, k) /\ lines[k].type = "Intent" /\ records[k] = lines[k]
        BY <2>1, <3>3, <3>8 DEF Announces
      <4>2. s \in Intended(records)
        BY <3>4, <4>1 DEF Undertakes
      <4>3. ASSUME NEW j \in 1..Len(lines), Clear(lines, j),
                   lines[j].type \in {"Intent", "Completion"}, lines[j].step = s
            PROVE  j = k
        BY <3>8, <4>3 DEF Announces, Speaks
      <4>4. s \notin Completed(records)
        BY <3>5, <4>1, <4>3 DEF Concludes
      <4>5. PICK i \in 1..Len(records) :
               /\ records[i].type = "Intent" /\ records[i].step = s
               /\ LastPartial(records, s) = records[i].partial
        BY <2>1, <4>2, LastFacts
      <4>6. i = k
        BY <2>1, <2>2, <3>3, <4>3, <4>5
      <4> QED
        BY <3>8, <4>1, <4>2, <4>4, <4>5, <4>6
    <3>9. \A o \in orphans : o[1] \in incomplete
      OBVIOUS
    <3>10. /\ report.job = lines[1].job /\ report.incomplete = incomplete
           /\ report.orphans = orphans
      BY <2>1, <3>2
    <3>11. report \in Reports
      BY <2>1, <3>2, <3>7 DEF Reports
    <3>12. Clear(lines, 1)
      BY <2>2, <3>2, <3>3
    <3>13. \A s : s \in incomplete <=> Undertakes(lines, s) /\ ~Concludes(lines, s)
      BY <3>4, <3>5
    <3> HIDE DEF report, incomplete, orphans
    <3>14. Reads(lines, report)
      BY <3>8, <3>9, <3>10, <3>11, <3>12, <3>13 DEF Reads
    <3> QED
      BY <3>1, <3>11, <3>14, Distinct
  <2> QED
    BY <2>3, <2>4, <2>5
<1> QED
  BY <1>1, <1>2

-----------------------------------------------------------------------------
(* What the invariant says of a scan.                                      *)
LEMMA FileFacts ==
  ASSUME Disked, NEW id \in Ids
  PROVE  /\ files[id] \in Files /\ files[id].lines \in Seq(Lines) /\ files[id].open \in BOOLEAN
         /\ Len(files[id].lines) \in Nat /\ synced[id] \in Nat
         /\ synced[id] <= Len(files[id].lines)
         /\ files[id].open => files[id].lines # << >> /\ Len(files[id].lines) >= 1
         /\ \A k : Durable(id, k) => k \in Nat /\ k <= Len(files[id].lines)
<1>1. files[id] \in Files /\ synced[id] \in Nat /\ Filed(id)
  BY DEF Disked
<1>2. files[id].lines \in Seq(Lines) /\ files[id].open \in BOOLEAN
  BY <1>1 DEF Files
<1>3. Len(files[id].lines) \in Nat /\ (files[id].lines # << >> => Len(files[id].lines) >= 1)
  BY <1>2, LenProperties, EmptySeq
<1> QED
  BY <1>1, <1>2, <1>3 DEF Filed, Durable

LEMMA LostCorrupt ==
  ASSUME Disked, NEW id \in Ids, Lost(id)
  PROVE  Scanned(id) = Corrupt
<1> DEFINE lines == files[id].lines
<1>1. PICK k \in Nat : Durable(id, k) /\ Dead(lines, k)
  BY DEF Lost
<1>2. lines \in Seq(Lines) /\ Len(lines) \in Nat /\ k <= Len(lines)
  BY <1>1, FileFacts
<1>3. Dead(lines, Len(lines))
  BY <1>1, <1>2, DeadGrows
<1> QED
  BY <1>2, <1>3, DeadCorrupt DEF Scanned

LEMMA SettledQuiet ==
  ASSUME Disked, NEW id \in Ids, Settled(id)
  PROVE  ~NeedsAttention(id)
<1> DEFINE lines == files[id].lines
<1>1. PICK k \in Nat :
        /\ Durable(id, k)
        /\ \/ Dead(lines, k)
           \/ Resolved(lines, k) /\ (Len(lines) = k \/ Stopped(lines, k))
  BY DEF Settled
<1>2. lines \in Seq(Lines) /\ Len(lines) \in Nat /\ k <= Len(lines)
  BY <1>1, FileFacts
<1>3. CASE Dead(lines, k)
  <2>1. Lost(id)
    BY <1>1, <1>3 DEF Lost
  <2> QED
    BY <2>1, LostCorrupt DEF NeedsAttention
<1>4. CASE Resolved(lines, k) /\ (Len(lines) = k \/ Stopped(lines, k))
  <2>1. ASSUME NEW j, Clear(lines, j)
        PROVE  j \in 1..k
    <3>1. j \in 1..Len(lines)
      BY <2>1 DEF Clear
    <3>2. CASE Len(lines) = k
      BY <3>1, <3>2
    <3>3. CASE Stopped(lines, k)
      <4>1. PICK b \in 1..(k + 1) : Break(lines, b)
        BY <3>3 DEF Stopped
      <4>2. ~(b <= j)
        BY <2>1, <4>1 DEF Clear
      <4> QED
        BY <1>2, <3>1, <4>1, <4>2
    <3> QED
      BY <1>4, <3>2, <3>3
  <2>2. ASSUME NEW s, Undertakes(lines, s)
        PROVE  Concludes(lines, s)
    <3>1. PICK j \in 1..Len(lines) :
             Clear(lines, j) /\ lines[j].type = "Intent" /\ lines[j].step = s
      BY <2>2 DEF Undertakes
    <3>2. PICK c \in 1..k : /\ Clear(lines, c) /\ lines[c].type = "Completion"
                            /\ lines[c].step = lines[j].step
      BY <1>4, <2>1, <3>1 DEF Resolved
    <3> QED
      BY <3>1, <3>2 DEF Concludes, Clear
  <2>3. SUFFICES ASSUME NeedsAttention(id) PROVE FALSE
    OBVIOUS
  <2>4. Reads(lines, Scanned(id))
    BY <1>2, <2>3, ReplayFacts DEF NeedsAttention, Scanned
  <2>5. Scanned(id).incomplete = {}
    BY <2>2, <2>4 DEF Reads
  <2>6. Scanned(id).orphans = {}
    BY <2>4, <2>5 DEF Reads
  <2> QED
    BY <2>3, <2>5, <2>6 DEF NeedsAttention
<1> QED
  BY <1>1, <1>3, <1>4

LEMMA InvRetired == Inv => RetiredStaysGone
<1> SUFFICES ASSUME Inv, NEW r \in history.retired
             PROVE  ~NeedsAttention(r.job.id)
  BY DEF RetiredStaysGone
<1>1. Disked /\ Gone(r)
  BY DEF Inv, Typed
<1> QED
  BY <1>1, SettledQuiet DEF Gone

(* An announced partial is in its journal's report.                        *)
LEMMA AnnouncedNamed ==
  ASSUME Disked, NEW id \in Ids, NEW name, name # 0, NEW k \in Nat,
         Announces(files[id].lines, k, name)
  PROVE  \/ Scanned(id) = Corrupt
         \/ /\ Scanned(id) # Nothing
            /\ \E o \in Scanned(id).orphans : o[2] = name
<1> DEFINE lines == files[id].lines
<1>1. lines \in Seq(Lines)
  BY FileFacts
<1>2. k \in 1..Len(lines) /\ Clear(lines, k) /\ lines[k].partial = name
  BY DEF Announces, Clear
<1>3. Clear(lines, 1)
  BY <1>1, <1>2, ClearFacts
<1>4. SUFFICES ASSUME Scanned(id) # Corrupt
               PROVE  /\ Scanned(id) # Nothing
                      /\ \E o \in Scanned(id).orphans : o[2] = name
  OBVIOUS
<1>5. Scanned(id) # Nothing /\ Reads(lines, Scanned(id))
  BY <1>1, <1>3, <1>4, ReplayFacts DEF Scanned
<1>6. <<lines[k].step, name>> \in Scanned(id).orphans
  BY <1>2, <1>5 DEF Reads
<1> QED
  BY <1>5, <1>6

LEMMA PartialFacts ==
  ASSUME Working, NEW p \in partials
  PROVE  p.id \in Ids /\ p.name \in Nat /\ p.name # 0 /\ names \in Nat /\ p.name \in 1..names
BY DEF Working

LEMMA InvPartials == Inv => PartialsAccounted
<1> SUFFICES ASSUME Inv, NEW p \in partials, p.name \notin history.handed
             PROVE  \/ Scanned(p.id) = Corrupt
                    \/ /\ Scanned(p.id) # Nothing
                       /\ \E o \in Scanned(p.id).orphans : o[2] = p.name
  BY DEF PartialsAccounted
<1>1. Disked /\ Working /\ Accounted(p)
  BY DEF Inv, Typed
<1>2. p.id \in Ids /\ p.name # 0
  BY <1>1, PartialFacts
<1>3. CASE Lost(p.id)
  BY <1>1, <1>2, <1>3, LostCorrupt
<1>4. CASE Announced(p)
  BY <1>1, <1>2, <1>4, AnnouncedNamed DEF Announced
<1> QED
  BY <1>1, <1>3, <1>4 DEF Accounted

LEMMA ReportFacts ==
  ASSUME NEW r \in Reports
  PROVE  r.type = "report" /\ r.job \in JobIds /\ r.job.id \in Ids /\ r.job.plan \in Seq(Items)
         /\ r.incomplete \in SUBSET Nat /\ r.orphans \in SUBSET (Nat \X Nat)
BY DEF Reports, JobIds

LEMMA InvTypes == Inv => TypeOK
<1> SUFFICES ASSUME Inv
             PROVE  TypeOK
  OBVIOUS
<1>1. Disked /\ Working /\ Asking /\ Living
  BY DEF Inv, Typed
<1>2. \A id \in Ids : synced[id] \in 0..Len(files[id].lines)
  BY <1>1, FileFacts
<1>3. \A p \in partials : p.id \in Ids /\ p.name \in 1..names
  BY <1>1, PartialFacts
<1>4. \A id \in Ids : jobs[id].at \in Places
  BY <1>1 DEF Working, Jobs
<1>5. \A r \in reports : r.job.id \in Ids /\ r.incomplete # {}
                         /\ r.incomplete \subseteq 1..Len(r.job.plan)
  BY DEF Inv, Listed
<1> QED
  BY <1>1, <1>2, <1>3, <1>4, <1>5 DEF TypeOK, Working, Living, Places

-----------------------------------------------------------------------------
(* What a step does to a file.                                             *)
LEMMA FileFactsNext ==
  ASSUME Disked', NEW id \in Ids
  PROVE  /\ files'[id] \in Files /\ files'[id].lines \in Seq(Lines)
         /\ files'[id].open \in BOOLEAN
         /\ Len(files'[id].lines) \in Nat /\ synced'[id] \in Nat
         /\ synced'[id] <= Len(files'[id].lines)
         /\ files'[id].open => files'[id].lines # << >> /\ Len(files'[id].lines) >= 1
         /\ \A k : Durable(id, k)' => k \in Nat /\ k <= Len(files'[id].lines)
<1>1. files'[id] \in Files /\ synced'[id] \in Nat /\ Filed(id)'
  BY DEF Disked
<1>2. files'[id].lines \in Seq(Lines) /\ files'[id].open \in BOOLEAN
  BY <1>1 DEF Files
<1>3. Len(files'[id].lines) \in Nat /\ (files'[id].lines # << >> => Len(files'[id].lines) >= 1)
  BY <1>2, LenProperties, EmptySeq
<1> QED
  BY <1>1, <1>2, <1>3 DEF Filed, Durable

(* Nothing, a record, or bytes that continue an unterminated line.         *)
Stays(id) ==
  /\ files'[id] = files[id]
  /\ synced'[id] \in {synced[id], Len(files[id].lines)}

Adds(id, record) ==
  /\ ~files[id].open /\ ~files'[id].open /\ synced'[id] = synced[id]
  /\ Len(files'[id].lines) = Len(files[id].lines) + 1
  /\ Keeps(files[id].lines, files'[id].lines, Len(files[id].lines))
  /\ files'[id].lines[Len(files'[id].lines)] = record

Spoils(id) ==
  /\ files[id].open /\ ~files'[id].open /\ synced'[id] = Len(files[id].lines)
  /\ Len(files'[id].lines) = Len(files[id].lines)
  /\ Keeps(files[id].lines, files'[id].lines, Len(files[id].lines) - 1)
  /\ files'[id].lines[Len(files'[id].lines)] = Garbage

(* What a power loss leaves.                                               *)
Loses(id) ==
  LET m == Len(files'[id].lines)
  IN /\ synced'[id] = m /\ synced[id] <= m /\ m <= Len(files[id].lines)
     /\ files'[id].open => m > synced[id] \/ (files[id].open /\ m = Len(files[id].lines))
     /\ \/ Keeps(files[id].lines, files'[id].lines, m)
        \/ /\ m > synced[id] /\ files'[id].lines[m] = Garbage
           /\ Keeps(files[id].lines, files'[id].lines, m - 1)

LEMMA AppendFacts ==
  ASSUME NEW f \in Files, NEW record \in Lines, f.open => f.lines # << >>
  PROVE  LET L == f.lines
             g == AppendTo(f, <<record>>)
             M == g.lines
         IN /\ g \in Files /\ ~g.open
            /\ f.open => /\ Len(M) = Len(L) /\ Keeps(L, M, Len(L) - 1)
                         /\ M[Len(M)] = Garbage
            /\ ~f.open => /\ Len(M) = Len(L) + 1 /\ Keeps(L, M, Len(L))
                          /\ M[Len(M)] = record
<1> DEFINE L == f.lines
           n == Len(L)
           r == <<record>>
           bad == <<Garbage>>
<1>1. L \in Seq(Lines) /\ n \in Nat /\ f.open \in BOOLEAN
  <2>1. L \in Seq(Lines) /\ f.open \in BOOLEAN
    BY DEF Files
  <2> QED
    BY <2>1, LenProperties
<1>2. r \in Seq(Lines) /\ Len(r) = 1 /\ r[1] = record
  OBVIOUS
<1>3. bad \in Seq(Lines) /\ Len(bad) = 1 /\ bad[1] = Garbage
  BY Recorded
<1> HIDE DEF r, bad
<1>4. r # << >> /\ Tail(r) \in Seq(Lines) /\ Len(Tail(r)) = 0
  BY <1>2, EmptySeq, HeadTailProperties
<1>5. CASE f.open
  <2>1. n >= 1 /\ n - 1 \in Nat
    BY <1>1, <1>5, EmptySeq
  <2> DEFINE A == SubSeq(L, 1, n - 1)
             B == A \o bad
             M == B \o Tail(r)
  <2>2. A \in Seq(Lines) /\ Len(A) = n - 1 /\ \A i \in 1..(n - 1) : A[i] = L[i]
    BY <1>1, <2>1, SubSeqProperties
  <2> HIDE DEF A
  <2>3. /\ B \in Seq(Lines) /\ Len(B) = n
        /\ \A i \in 1..(n - 1) : B[i] = L[i]
        /\ B[n] = Garbage
    BY <1>1, <1>3, <2>1, <2>2, ConcatProperties
  <2> HIDE DEF B
  <2>4. M \in Seq(Lines) /\ Len(M) = n /\ \A i \in 1..n : M[i] = B[i]
    <3> DEFINE rest == Tail(r)
    <3>1. rest \in Seq(Lines) /\ Len(rest) = 0 /\ B \in Seq(Lines) /\ Len(B) = n /\ n \in Nat
      BY <1>1, <1>4, <2>3
    <3> HIDE DEF rest, n
    <3>2. /\ B \o rest \in Seq(Lines) /\ Len(B \o rest) = Len(B) + Len(rest)
          /\ \A i \in 1..(Len(B) + Len(rest)) :
               (B \o rest)[i] = IF i <= Len(B) THEN B[i] ELSE rest[i - Len(B)]
      BY <3>1, ConcatProperties
    <3>3. M = B \o rest
      BY DEF rest
    <3> HIDE DEF M
    <3>4. M \in Seq(Lines) /\ Len(M) = n
      BY <3>1, <3>2, <3>3
    <3>5. \A i \in 1..n : M[i] = B[i]
      BY <3>1, <3>2, <3>3
    <3> QED
      BY <3>4, <3>5
  <2>5. AppendTo(f, <<record>>) = [lines |-> M, open |-> FALSE]
    BY <1>4, <1>5 DEF AppendTo, r, bad, A, B
  <2> HIDE DEF M
  <2>6. [lines |-> M, open |-> FALSE] \in Files
    BY <2>4 DEF Files
  <2>7. Keeps(L, M, n - 1) /\ M[n] = Garbage
    BY <1>1, <2>1, <2>3, <2>4 DEF Keeps
  <2> QED
    BY <1>5, <2>4, <2>5, <2>6, <2>7
<1>6. CASE ~f.open
  <2> DEFINE M == L \o r
  <2>1. /\ M \in Seq(Lines) /\ Len(M) = n + 1
        /\ \A i \in 1..n : M[i] = L[i]
        /\ M[n + 1] = record
    <3>1. /\ M \in Seq(Lines) /\ Len(M) = n + 1
          /\ \A i \in 1..(n + 1) : M[i] = IF i <= n THEN L[i] ELSE r[i - n]
      <4> HIDE DEF L
      <4>1. /\ M \in Seq(Lines) /\ Len(M) = Len(L) + Len(r)
            /\ \A i \in 1..(Len(L) + Len(r)) : M[i] = IF i <= Len(L) THEN L[i] ELSE r[i - Len(L)]
        BY <1>1, <1>2, ConcatProperties
      <4> QED
        BY <1>2, <4>1
    <3>2. n + 1 \in 1..(n + 1) /\ ~(n + 1 <= n) /\ (n + 1) - n = 1
          /\ \A i \in 1..n : i \in 1..(n + 1) /\ i <= n
      BY <1>1
    <3>3. M[n + 1] = r[1]
      BY <3>1, <3>2
    <3> QED
      BY <1>2, <3>1, <3>2, <3>3
  <2>2. AppendTo(f, r) = [lines |-> M, open |-> FALSE]
    BY <1>4, <1>6 DEF AppendTo
  <2>5. AppendTo(f, <<record>>) = AppendTo(f, r)
    BY DEF r
  <2> HIDE DEF M
  <2>3. [lines |-> M, open |-> FALSE] \in Files
    BY <2>1 DEF Files
  <2>4. Keeps(L, M, n)
    BY <1>1, <2>1 DEF Keeps
  <2> QED
    BY <1>6, <2>1, <2>2, <2>3, <2>4, <2>5
<1> QED
  BY <1>1, <1>5, <1>6

LEMMA WriteFacts ==
  ASSUME Disked, NEW id \in Ids, NEW record \in Lines, Write(id, record)
  PROVE  /\ Disked'
         /\ Adds(id, record) \/ Spoils(id)
         /\ \A other \in Ids : other # id => Stays(other)
<1> DEFINE g == AppendTo(files[id], <<record>>)
<1>1. files[id] \in Files /\ (files[id].open => files[id].lines # << >>)
  BY FileFacts
<1>2. /\ g \in Files /\ ~g.open
      /\ files[id].open => /\ Len(g.lines) = Len(files[id].lines)
                           /\ Keeps(files[id].lines, g.lines, Len(files[id].lines) - 1)
                           /\ g.lines[Len(g.lines)] = Garbage
      /\ ~files[id].open => /\ Len(g.lines) = Len(files[id].lines) + 1
                            /\ Keeps(files[id].lines, g.lines, Len(files[id].lines))
                            /\ g.lines[Len(g.lines)] = record
  BY <1>1, AppendFacts
<1>3. /\ files \in [Ids -> Files] /\ synced \in [Ids -> Nat]
      /\ files' = [files EXCEPT ![id] = g]
      /\ synced' = IF files[id].open
                   THEN [synced EXCEPT ![id] = Len(files[id].lines)] ELSE synced
  BY DEF Disked, Write
<1> HIDE DEF g
<1>4. /\ files'[id] = g
      /\ synced'[id] = IF files[id].open THEN Len(files[id].lines) ELSE synced[id]
      /\ \A other \in Ids : other # id =>
           files'[other] = files[other] /\ synced'[other] = synced[other]
  BY <1>3
<1>5. Adds(id, record) \/ Spoils(id)
  BY <1>2, <1>4 DEF Adds, Spoils
<1>6. \A other \in Ids : other # id => Stays(other)
  BY <1>4 DEF Stays
<1>7. files' \in [Ids -> Files] /\ synced' \in [Ids -> Nat]
  <2>1. Len(files[id].lines) \in Nat
    BY FileFacts
  <2> QED
    BY <1>2, <1>3, <2>1
<1>8. Filed(id)'
  <2>1. ~files'[id].open
    BY <1>2, <1>4
  <2>2. synced'[id] <= Len(files'[id].lines)
    BY <1>2, <1>4, FileFacts
  <2> QED
    BY <2>1, <2>2 DEF Filed
<1>9. ASSUME NEW other \in Ids, other # id
      PROVE  Filed(other)'
  BY <1>4, <1>9 DEF Filed, Disked
<1> QED
  BY <1>5, <1>6, <1>7, <1>8, <1>9 DEF Disked

LEMMA SurvivorFacts ==
  ASSUME NEW f \in Files, NEW s \in Nat, s <= Len(f.lines), f.open => f.lines # << >>,
         NEW g \in Survivors(f, s)
  PROVE  LET m == Len(g.lines)
         IN /\ g \in Files /\ s <= m /\ m <= Len(f.lines)
            /\ g.open => m > s \/ (f.open /\ m = Len(f.lines))
            /\ g.open => g.lines # << >>
            /\ \/ Keeps(f.lines, g.lines, m)
               \/ m > s /\ g.lines[m] = Garbage /\ Keeps(f.lines, g.lines, m - 1)
<1> DEFINE L == f.lines
           n == Len(L)
           Prefix(k) == SubSeq(L, 1, k)
           unsynced == (s + 1)..n
<1>1. L \in Seq(Lines) /\ n \in Nat /\ f.open \in BOOLEAN
  <2>1. L \in Seq(Lines) /\ f.open \in BOOLEAN
    BY DEF Files
  <2> QED
    BY <2>1, LenProperties
<1>2. ASSUME NEW k \in 0..n
      PROVE  /\ Prefix(k) \in Seq(Lines) /\ Len(Prefix(k)) = k
             /\ \A i \in 1..k : Prefix(k)[i] = L[i]
             /\ k >= 1 => Prefix(k) # << >>
  <2>1. /\ SubSeq(L, 1, k) \in Seq(Lines) /\ Len(SubSeq(L, 1, k)) = k
        /\ \A i \in 1..k : SubSeq(L, 1, k)[i] = L[i]
    BY <1>1, SubSeqProperties
  <2> QED
    BY <2>1, EmptySeq
<1>3. ASSUME NEW k \in unsynced \cup {s}, g = [lines |-> Prefix(k), open |-> f.open /\ k = n]
      PROVE  /\ g \in Files /\ Len(g.lines) = k /\ k \in s..n /\ Keeps(L, g.lines, k)
             /\ g.open => f.open /\ k = n
             /\ g.open => g.lines # << >>
  <2>1. k \in 0..n /\ k \in s..n
    BY <1>1
  <2>2. k >= 1 \/ k = 0
    BY <2>1
  <2>3. f.open /\ k = n => k >= 1
    BY <1>1, EmptySeq
  <2> HIDE DEF Prefix
  <2>4. g.lines = Prefix(k) /\ g.open = (f.open /\ k = n)
    BY <1>3
  <2>5. Prefix(k) \in Seq(Lines) /\ Len(Prefix(k)) = k /\ \A i \in 1..k : Prefix(k)[i] = L[i]
    BY <1>2, <2>1
  <2>6. g \in Files
    BY <1>1, <1>3, <2>5 DEF Files
  <2>7. Keeps(L, g.lines, k) /\ Len(g.lines) = k
    BY <1>1, <2>1, <2>4, <2>5 DEF Keeps
  <2>8. g.open => f.open /\ k = n
    BY <2>4
  <2>9. g.open => g.lines # << >>
    BY <1>2, <2>1, <2>3, <2>4, <2>8
  <2> QED
    BY <2>1, <2>6, <2>7, <2>8, <2>9
<1>4. ASSUME NEW k \in unsynced, g = [lines |-> Prefix(k), open |-> TRUE]
      PROVE  /\ g \in Files /\ Len(g.lines) = k /\ k \in s..n /\ k > s /\ Keeps(L, g.lines, k)
             /\ g.lines # << >>
  <2>1. k \in 0..n /\ k \in s..n /\ k > s /\ k >= 1
    BY <1>1
  <2> HIDE DEF Prefix
  <2>2. g \in Files
    BY <1>2, <1>4, <2>1 DEF Files
  <2> QED
    BY <1>1, <1>2, <1>4, <2>1, <2>2 DEF Keeps
<1>5. ASSUME NEW k \in unsynced, g = [lines |-> Append(Prefix(k - 1), Garbage), open |-> TRUE]
      PROVE  /\ g \in Files /\ Len(g.lines) = k /\ k \in s..n /\ k > s
             /\ Keeps(L, g.lines, k - 1) /\ g.lines[k] = Garbage /\ g.lines # << >>
  <2>1. k \in 0..n /\ k \in s..n /\ k > s /\ k >= 1 /\ k - 1 \in 0..n
    BY <1>1
  <2> DEFINE A == Prefix(k - 1)
  <2>2. A \in Seq(Lines) /\ Len(A) = k - 1 /\ \A i \in 1..(k - 1) : A[i] = L[i]
    BY <1>2, <2>1
  <2> HIDE DEF A
  <2> DEFINE M == Append(A, Garbage)
  <2>3. /\ M \in Seq(Lines) /\ Len(M) = k /\ \A i \in 1..(k - 1) : M[i] = A[i]
        /\ M[k] = Garbage
    BY <2>1, <2>2, Recorded, AppendProperties
  <2>4. g = [lines |-> M, open |-> TRUE]
    BY <1>5 DEF A
  <2>5. M # << >>
    BY <2>1, <2>3, EmptySeq
  <2> HIDE DEF M
  <2>6. g \in Files
    BY <2>3, <2>4 DEF Files
  <2> QED
    BY <1>1, <2>1, <2>2, <2>3, <2>4, <2>5, <2>6 DEF Keeps
<1>6. \/ \E k \in unsynced \cup {s} : g = [lines |-> Prefix(k), open |-> f.open /\ k = n]
      \/ \E k \in unsynced : g = [lines |-> Prefix(k), open |-> TRUE]
      \/ \E k \in unsynced : g = [lines |-> Append(Prefix(k - 1), Garbage), open |-> TRUE]
  BY DEF Survivors
<1> HIDE DEF Prefix
<1>7. CASE \E k \in unsynced \cup {s} : g = [lines |-> Prefix(k), open |-> f.open /\ k = n]
  <2>1. PICK k \in unsynced \cup {s} : g = [lines |-> Prefix(k), open |-> f.open /\ k = n]
    BY <1>7
  <2>2. /\ g \in Files /\ Len(g.lines) = k /\ k \in s..n /\ Keeps(L, g.lines, k)
        /\ g.open => f.open /\ k = n
        /\ g.open => g.lines # << >>
    BY <1>3, <2>1
  <2> QED
    BY <1>1, <2>2
<1>8. CASE \E k \in unsynced : g = [lines |-> Prefix(k), open |-> TRUE]
  <2>1. PICK k \in unsynced : g = [lines |-> Prefix(k), open |-> TRUE]
    BY <1>8
  <2>2. /\ g \in Files /\ Len(g.lines) = k /\ k \in s..n /\ k > s
        /\ Keeps(L, g.lines, k) /\ g.lines # << >>
    BY <1>4, <2>1
  <2> QED
    BY <1>1, <2>2
<1>9. CASE \E k \in unsynced : g = [lines |-> Append(Prefix(k - 1), Garbage), open |-> TRUE]
  <2>1. PICK k \in unsynced : g = [lines |-> Append(Prefix(k - 1), Garbage), open |-> TRUE]
    BY <1>9
  <2>2. /\ g \in Files /\ Len(g.lines) = k /\ k \in s..n /\ k > s
        /\ Keeps(L, g.lines, k - 1) /\ g.lines[k] = Garbage /\ g.lines # << >>
    BY <1>5, <2>1
  <2> QED
    BY <1>1, <2>2
<1> QED
  BY <1>6, <1>7, <1>8, <1>9

LEMMA LossFacts ==
  ASSUME Disked, PowerLost
  PROVE  Disked' /\ \A id \in Ids : Loses(id)
<1>1. /\ files' \in [Ids -> UNION {Survivors(files[id], synced[id]) : id \in Ids}]
      /\ \A id \in Ids : files'[id] \in Survivors(files[id], synced[id])
      /\ synced' = [id \in Ids |-> Len(files'[id].lines)]
  BY DEF PowerLost
<1>2. ASSUME NEW id \in Ids
      PROVE  files'[id] \in Files /\ synced'[id] \in Nat /\ Filed(id)' /\ Loses(id)
  <2> DEFINE f == files[id]
             g == files'[id]
             s == synced[id]
  <2>1. f \in Files /\ s \in Nat /\ s <= Len(f.lines) /\ (f.open => f.lines # << >>)
    BY FileFacts
  <2>2. g \in Survivors(f, s) /\ synced'[id] = Len(g.lines)
    BY <1>1
  <2> HIDE DEF f, g, s
  <2> DEFINE m == Len(g.lines)
  <2>3. /\ g \in Files /\ s <= m /\ m <= Len(f.lines)
        /\ g.open => m > s \/ (f.open /\ m = Len(f.lines))
        /\ g.open => g.lines # << >>
        /\ \/ Keeps(f.lines, g.lines, m)
           \/ m > s /\ g.lines[m] = Garbage /\ Keeps(f.lines, g.lines, m - 1)
    BY <2>1, <2>2, SurvivorFacts
  <2>4. m \in Nat
    <3>1. g.lines \in Seq(Lines)
      BY <2>3 DEF Files
    <3> QED
      BY <3>1, LenProperties
  <2> QED
    BY <2>2, <2>3, <2>4 DEF f, g, s, Filed, Loses
<1>3. files' \in [Ids -> Files]
  BY <1>1, <1>2
<1>4. synced' \in [Ids -> Nat]
  BY <1>1, <1>2
<1> QED
  BY <1>2, <1>3, <1>4 DEF Disked

-----------------------------------------------------------------------------
(* What is durable endures every step, and what was spoilt stays so.       *)
Endures(id) ==
  \A k \in Nat : Durable(id, k) =>
    Durable(id, k)' /\ Keeps(files[id].lines, files'[id].lines, k)

(* No line is new, but for the last, which may be spoilt.                  *)
Shrinks(L, M) ==
  /\ Len(M) <= Len(L)
  /\ \A i \in 1..Len(M) : M[i] = L[i] \/ (M[i] = Garbage /\ i = Len(M))

LEMMA StaysEndures ==
  ASSUME Disked, NEW id \in Ids, Stays(id)
  PROVE  Endures(id) /\ Shrinks(files[id].lines, files'[id].lines)
<1>1. /\ Len(files[id].lines) \in Nat /\ synced[id] \in Nat
      /\ synced[id] <= Len(files[id].lines) /\ synced'[id] \in Nat
      /\ synced[id] <= synced'[id] /\ files'[id] = files[id]
  BY FileFacts DEF Stays
<1> QED
  BY <1>1 DEF Endures, Durable, Keeps, Shrinks

LEMMA AddsEndures ==
  ASSUME Disked, Disked', NEW id \in Ids, NEW record, Adds(id, record)
  PROVE  Endures(id)
<1>1. /\ Len(files[id].lines) \in Nat /\ synced[id] \in Nat
      /\ synced[id] <= Len(files[id].lines)
  BY FileFacts
<1> QED
  BY <1>1 DEF Endures, Durable, Keeps, Adds

LEMMA SpoilsEndures ==
  ASSUME Disked, Disked', NEW id \in Ids, Spoils(id)
  PROVE  Endures(id) /\ Shrinks(files[id].lines, files'[id].lines)
<1>1. /\ Len(files[id].lines) \in Nat /\ synced[id] \in Nat
      /\ synced[id] <= Len(files[id].lines) /\ Len(files[id].lines) >= 1
  BY FileFacts DEF Spoils
<1> DEFINE L == files[id].lines
           M == files'[id].lines
<1>2. /\ files[id].open /\ ~files'[id].open /\ synced'[id] = Len(L)
      /\ Len(M) = Len(L) /\ M[Len(M)] = Garbage
      /\ \A i \in 1..(Len(L) - 1) : M[i] = L[i]
  BY DEF Spoils, Keeps
<1>3. Endures(id)
  <2> SUFFICES ASSUME NEW k \in Nat, Durable(id, k)
               PROVE  Durable(id, k)' /\ Keeps(L, M, k)
    BY DEF Endures
  <2>1. k \in 0..synced[id] /\ k < Len(L)
    BY <1>2 DEF Durable
  <2> HIDE DEF L, M
  <2>2. Keeps(L, M, k)
    BY <1>1, <1>2, <2>1 DEF Keeps, L
  <2>3. k \in 0..synced'[id]
    BY <1>1, <1>2, <2>1 DEF L
  <2> QED
    BY <1>2, <2>2, <2>3 DEF Durable
<1>4. Shrinks(L, M)
  <2> HIDE DEF L, M
  <2>1. Len(L) \in Nat
    BY <1>1 DEF L
  <2> QED
    BY <1>2, <2>1 DEF Shrinks
<1> QED
  BY <1>3, <1>4

LEMMA LosesEndures ==
  ASSUME Disked, Disked', NEW id \in Ids, Loses(id)
  PROVE  Endures(id) /\ Shrinks(files[id].lines, files'[id].lines)
<1> DEFINE L == files[id].lines
           M == files'[id].lines
           m == Len(M)
<1>1. /\ Len(L) \in Nat /\ synced[id] \in Nat /\ synced[id] <= Len(L) /\ m \in Nat
  BY FileFacts, FileFactsNext
<1>2. /\ synced'[id] = m /\ synced[id] <= m /\ m <= Len(L)
      /\ files'[id].open => m > synced[id] \/ (files[id].open /\ m = Len(L))
      /\ \/ Keeps(L, M, m)
         \/ m > synced[id] /\ M[m] = Garbage /\ Keeps(L, M, m - 1)
  BY DEF Loses
<1>3. Shrinks(L, M)
  BY <1>1, <1>2 DEF Keeps, Shrinks
<1>4. ASSUME NEW k \in Nat, Durable(id, k)
      PROVE  Durable(id, k)' /\ Keeps(L, M, k)
  <2>1. k \in 0..synced[id] /\ (files[id].open => k < Len(L))
    BY <1>4 DEF Durable
  <2>2. k \in 0..synced'[id] /\ (files'[id].open => k < m)
    BY <1>1, <1>2, <2>1
  <2>3. Keeps(L, M, k)
    BY <1>1, <1>2, <2>1 DEF Keeps
  <2> QED
    BY <2>2, <2>3 DEF Durable
<1> QED
  BY <1>3, <1>4 DEF Endures

LEMMA LostKept ==
  ASSUME NEW id \in Ids, Endures(id), Lost(id)
  PROVE  Lost(id)'
<1>1. PICK k \in Nat : Durable(id, k) /\ Dead(files[id].lines, k)
  BY DEF Lost
<1>2. Durable(id, k)' /\ Dead(files'[id].lines, k)
  BY <1>1, DeadKept DEF Endures
<1> QED
  BY <1>2 DEF Lost

(* What a scan reads of a file that lost lines, it read before.            *)
LEMMA ClearShrinks ==
  ASSUME NEW L \in Seq(Lines), NEW M \in Seq(Lines), Shrinks(L, M), NEW j, Clear(M, j)
  PROVE  Keeps(L, M, j) /\ Clear(L, j) /\ M[j] = L[j] /\ M[1] = L[1] /\ j \in 1..Len(L)
<1>1. j \in 1..Len(M) /\ Len(M) \in Nat /\ Len(L) \in Nat /\ Len(M) <= Len(L)
  BY LenProperties DEF Clear, Shrinks
<1>2. ASSUME NEW i \in 1..j
      PROVE  M[i] = L[i]
  <2>1. i \in 1..Len(M) /\ Clear(M, i)
    BY <1>1, ClearFacts
  <2>2. M[i].type # "Garbage"
    BY <2>1, ClearFacts
  <2>3. M[i] # Garbage
    BY <2>2 DEF Garbage
  <2> QED
    BY <2>1, <2>3 DEF Shrinks
<1>3. Keeps(L, M, j)
  BY <1>1, <1>2 DEF Keeps
<1> QED
  BY <1>1, <1>2, <1>3, ClearKept

LEMMA AnnouncesShrinks ==
  ASSUME NEW L \in Seq(Lines), NEW M \in Seq(Lines), Shrinks(L, M),
         NEW k, Keeps(L, M, k), k \in 1..k, NEW name, Announces(L, k, name)
  PROVE  Announces(M, k, name)
<1>1. Clear(M, k) /\ M[k] = L[k]
  BY ClearKept, BreakKept DEF Announces
<1>2. ASSUME NEW j \in 1..Len(M), j # k, Clear(M, j)
      PROVE  ~Speaks(M, j, M[k].step)
  BY <1>1, <1>2, ClearShrinks DEF Announces, Speaks
<1> QED
  BY <1>1, <1>2 DEF Announces

LEMMA AnnouncesAdded ==
  ASSUME NEW L \in Seq(Lines), NEW M \in Seq(Lines), Len(M) = Len(L) + 1,
         Keeps(L, M, Len(L)), NEW k, NEW name, Announces(L, k, name),
         ~Clear(M, Len(M)) \/ M[Len(M)].type \notin {"Intent", "Completion"}
  PROVE  Announces(M, k, name)
<1>1. k \in 1..Len(L) /\ Len(L) \in Nat
  BY LenProperties DEF Announces, Clear
<1>2. Clear(M, k) /\ M[k] = L[k]
  BY <1>1, ClearKept, BreakKept DEF Announces
<1>3. ASSUME NEW j \in 1..Len(M), j # k, Clear(M, j)
      PROVE  ~Speaks(M, j, M[k].step)
  <2>1. CASE j = Len(M)
    BY <1>3, <2>1 DEF Speaks
  <2>2. CASE j # Len(M)
    <3>1. j \in 1..Len(L)
      BY <1>1, <2>2
    <3>2. Clear(L, j) /\ M[j] = L[j]
      BY <1>3, <3>1, ClearKept, BreakKept
    <3> QED
      BY <1>2, <1>3, <3>1, <3>2 DEF Announces, Speaks
  <2> QED
    BY <2>1, <2>2
<1> QED
  BY <1>2, <1>3 DEF Announces

LEMMA AnnouncedKept ==
  ASSUME Disked, Disked', NEW p, p.id \in Ids, Endures(p.id), Announced(p),
         Shrinks(files[p.id].lines, files'[p.id].lines)
  PROVE  Announced(p)'
<1> DEFINE L == files[p.id].lines
           M == files'[p.id].lines
<1>1. PICK k \in Nat : Durable(p.id, k) /\ Announces(L, k, p.name)
  BY DEF Announced
<1>2. Durable(p.id, k)' /\ Keeps(L, M, k) /\ k \in 1..k
  BY <1>1 DEF Endures, Announces, Clear
<1>3. L \in Seq(Lines) /\ M \in Seq(Lines)
  BY FileFacts, FileFactsNext
<1>4. Announces(M, k, p.name)
  BY <1>1, <1>2, <1>3, AnnouncesShrinks
<1> QED
  BY <1>2, <1>4 DEF Announced

LEMMA AnnouncedAdded ==
  ASSUME Disked, Disked', NEW p, p.id \in Ids, Announced(p), NEW record, Adds(p.id, record),
         \/ ~Clear(files'[p.id].lines, Len(files'[p.id].lines))
         \/ record.type \notin {"Intent", "Completion"}
  PROVE  Announced(p)'
<1> DEFINE L == files[p.id].lines
           M == files'[p.id].lines
<1>1. PICK k \in Nat : Durable(p.id, k) /\ Announces(L, k, p.name)
  BY DEF Announced
<1>2. Durable(p.id, k)'
  BY <1>1, AddsEndures DEF Endures
<1>3. L \in Seq(Lines) /\ M \in Seq(Lines)
  BY FileFacts, FileFactsNext
<1>4. /\ Len(M) = Len(L) + 1 /\ Keeps(L, M, Len(L))
      /\ ~Clear(M, Len(M)) \/ M[Len(M)].type \notin {"Intent", "Completion"}
  BY DEF Adds
<1>5. Announces(M, k, p.name)
  BY <1>1, <1>3, <1>4, AnnouncesAdded
<1> QED
  BY <1>2, <1>5 DEF Announced

-----------------------------------------------------------------------------
(* A journal that was resolved stays so, whatever happens to its file.     *)
LEMMA SettledCalm ==
  ASSUME Disked, Disked', NEW id \in Ids, Settled(id), Endures(id),
         Shrinks(files[id].lines, files'[id].lines),
         \/ ~Begun(id)'
         \/ Len(files'[id].lines) = Len(files[id].lines) /\ (Begun(id)' => Begun(id) \/ files[id].open)
  PROVE  Settled(id)'
<1> DEFINE L == files[id].lines
           M == files'[id].lines
<1>1. PICK k \in Nat :
        /\ k >= 1 /\ Durable(id, k)
        /\ \/ Dead(L, k)
           \/ Resolved(L, k) /\ ((Len(L) = k /\ ~Begun(id)) \/ Stopped(L, k))
  BY DEF Settled
<1>2. Durable(id, k)' /\ Keeps(L, M, k)
  BY <1>1 DEF Endures
<1>3. L \in Seq(Lines) /\ M \in Seq(Lines) /\ Len(L) \in Nat /\ Len(M) \in Nat
      /\ k <= Len(M) /\ Len(M) <= Len(L)
  BY <1>2, FileFacts, FileFactsNext DEF Shrinks
<1>4. CASE Dead(L, k)
  BY <1>1, <1>2, <1>4, DeadKept DEF Settled
<1>5. CASE Resolved(L, k) /\ ((Len(L) = k /\ ~Begun(id)) \/ Stopped(L, k))
  <2>1. Resolved(M, k)
    BY <1>2, <1>3, <1>5, ResolvedKept
  <2>2. CASE Len(L) = k /\ ~Begun(id)
    <3>1. ~files[id].open
      BY <1>1, <1>3, <2>2 DEF Durable
    <3>2. Len(M) = k /\ ~Begun(id)'
      BY <1>3, <2>2, <3>1
    <3> QED
      BY <1>1, <1>2, <2>1, <3>2 DEF Settled
  <2>3. CASE Stopped(L, k)
    <3>1. PICK b \in 1..(k + 1) : Break(L, b)
      BY <2>3 DEF Stopped
    <3>2. CASE b <= k
      <4>1. Break(M, b)
        BY <1>2, <1>3, <3>1, <3>2, BreakKept
      <4>2. Stopped(M, k)
        BY <4>1 DEF Stopped
      <4> QED
        BY <1>1, <1>2, <2>1, <4>2 DEF Settled
    <3>3. CASE b = k + 1 /\ k + 1 <= Len(M)
      <4>1. b \in 1..Len(M)
        BY <1>3, <3>3
      <4>2. M[b] = L[b] \/ M[b] = Garbage
        BY <4>1 DEF Shrinks
      <4>3. Break(M, b)
        BY <3>1, <4>1, <4>2 DEF Break, Garbage
      <4>4. Stopped(M, k)
        BY <4>3 DEF Stopped
      <4> QED
        BY <1>1, <1>2, <2>1, <4>4 DEF Settled
    <3>4. CASE b = k + 1 /\ ~(k + 1 <= Len(M))
      <4>1. Len(M) = k /\ k + 1 <= Len(L)
        BY <1>3, <3>1, <3>4 DEF Break
      <4>2. ~Begun(id)'
        BY <4>1
      <4> QED
        BY <1>1, <1>2, <2>1, <4>1, <4>2 DEF Settled
    <3> QED
      BY <3>1, <3>2, <3>3, <3>4
  <2> QED
    BY <1>5, <2>2, <2>3
<1> QED
  BY <1>1, <1>4, <1>5

LEMMA SettledAdded ==
  ASSUME Disked, Disked', NEW id \in Ids, Settled(id), NEW record, Adds(id, record),
         Begun(id) \/ record.type = "JobStarted"
  PROVE  Settled(id)'
<1> DEFINE L == files[id].lines
           M == files'[id].lines
<1>1. PICK k \in Nat :
        /\ k >= 1 /\ Durable(id, k)
        /\ \/ Dead(L, k)
           \/ Resolved(L, k) /\ ((Len(L) = k /\ ~Begun(id)) \/ Stopped(L, k))
  BY DEF Settled
<1>2. Durable(id, k)' /\ Keeps(L, M, k)
  BY <1>1, AddsEndures DEF Endures
<1>3. /\ L \in Seq(Lines) /\ M \in Seq(Lines) /\ Len(L) \in Nat
      /\ Len(M) = Len(L) + 1 /\ Keeps(L, M, Len(L)) /\ M[Len(M)] = record
  BY FileFacts, FileFactsNext DEF Adds
<1>4. CASE Dead(L, k)
  BY <1>1, <1>2, <1>4, DeadKept DEF Settled
<1>5. CASE Resolved(L, k) /\ ((Len(L) = k /\ ~Begun(id)) \/ Stopped(L, k))
  <2>1. Resolved(M, k)
    BY <1>2, <1>3, <1>5, ResolvedKept
  <2>2. Stopped(M, k)
    <3>1. CASE Len(L) = k /\ ~Begun(id)
      <4>1. k + 1 \in 1..Len(M) /\ k + 1 \in 1..(k + 1) /\ k + 1 # 1 /\ M[k + 1] = record
        BY <1>1, <1>3, <3>1
      <4>2. record.type = "JobStarted"
        BY <3>1
      <4>3. Break(M, k + 1)
        BY <4>1, <4>2 DEF Break
      <4> QED
        BY <4>1, <4>3 DEF Stopped
    <3>2. CASE Stopped(L, k)
      <4>1. PICK b \in 1..(k + 1) : Break(L, b)
        BY <3>2 DEF Stopped
      <4>2. b \in 1..Len(L)
        BY <4>1 DEF Break
      <4>3. Break(M, b)
        BY <1>3, <4>1, <4>2, BreakKept
      <4> QED
        BY <4>3 DEF Stopped
    <3> QED
      BY <1>5, <3>1, <3>2
  <2> QED
    BY <1>1, <1>2, <2>1, <2>2 DEF Settled
<1> QED
  BY <1>1, <1>4, <1>5

-----------------------------------------------------------------------------
(* A journal keeps naming its own job.                                     *)
LEMMA OwnCalm ==
  ASSUME Disked, Disked', NEW id \in Ids, Own(id),
         Shrinks(files[id].lines, files'[id].lines),
         names \in Nat, names' \in Nat, names <= names'
  PROVE  Own(id)'
<1> DEFINE L == files[id].lines
           M == files'[id].lines
<1>1. L \in Seq(Lines) /\ M \in Seq(Lines) /\ Len(L) \in Nat /\ Len(M) \in Nat /\ Len(M) <= Len(L)
  BY FileFacts, FileFactsNext DEF Shrinks
<1>2. /\ Headed(L)
      /\ \A j \in 1..Len(L) : L[j].type = "JobStarted" => L[j].job.id = id
      /\ \A j \in 1..Len(L) :
           Clear(L, j) /\ L[j].type = "Intent" =>
             L[j].step \in 1..Len(L[1].job.plan) /\ L[j].partial \in 1..names
  BY DEF Own
<1>3. \A i \in 1..Len(M) : i \in 1..Len(L) /\ (M[i] = L[i] \/ M[i].type = "Garbage")
  BY <1>1 DEF Shrinks, Garbage
<1>4. Headed(M)
  <2>1. SUFFICES ASSUME M # << >> PROVE M[1].type \in {"JobStarted", "Garbage"}
    BY DEF Headed
  <2>2. Len(M) >= 1
    BY <1>1, <2>1, EmptySeq
  <2>3. 1 \in 1..Len(M) /\ L # << >>
    BY <1>1, <2>2, EmptySeq
  <2> QED
    BY <1>2, <1>3, <2>3 DEF Headed
<1>5. \A j \in 1..Len(M) : M[j].type = "JobStarted" => M[j].job.id = id
  BY <1>2, <1>3
<1>6. ASSUME NEW j \in 1..Len(M), Clear(M, j), M[j].type = "Intent"
      PROVE  M[j].step \in 1..Len(M[1].job.plan) /\ M[j].partial \in 1..names'
  <2>1. Clear(L, j) /\ M[j] = L[j] /\ M[1] = L[1] /\ j \in 1..Len(L)
    BY <1>1, <1>6, ClearShrinks
  <2>2. M[j].step \in 1..Len(M[1].job.plan) /\ M[j].partial \in 1..names
    BY <1>2, <1>6, <2>1
  <2> QED
    BY <2>2
<1> QED
  BY <1>4, <1>5, <1>6 DEF Own

LEMMA OwnAdded ==
  ASSUME Disked, Disked', NEW id \in Ids, Own(id), NEW record, Adds(id, record),
         names \in Nat, names' \in Nat, names <= names',
         files[id].lines # << >> \/ record.type = "JobStarted",
         record.type = "JobStarted" => record.job.id = id,
         Clear(files'[id].lines, Len(files'[id].lines)) /\ record.type = "Intent" =>
           /\ record.step \in 1..Len(files[id].lines[1].job.plan)
           /\ record.partial \in 1..names'
  PROVE  Own(id)'
<1> DEFINE L == files[id].lines
           M == files'[id].lines
<1>1. /\ L \in Seq(Lines) /\ M \in Seq(Lines) /\ Len(L) \in Nat
      /\ Len(M) = Len(L) + 1 /\ Keeps(L, M, Len(L)) /\ M[Len(M)] = record
  BY FileFacts, FileFactsNext DEF Adds
<1>2. /\ Headed(L)
      /\ \A j \in 1..Len(L) : L[j].type = "JobStarted" => L[j].job.id = id
      /\ \A j \in 1..Len(L) :
           Clear(L, j) /\ L[j].type = "Intent" =>
             L[j].step \in 1..Len(L[1].job.plan) /\ L[j].partial \in 1..names
  BY DEF Own
<1>3. /\ \A i \in 1..Len(L) : M[i] = L[i]
      /\ \A i \in 1..Len(M) : i \in 1..Len(L) \/ i = Len(M)
  BY <1>1 DEF Keeps
<1>4. L # << >> => 1 \in 1..Len(L) /\ M[1] = L[1]
  <2>1. L # << >> => Len(L) >= 1
    BY <1>1, EmptySeq
  <2> QED
    BY <1>1, <1>3, <2>1
<1>5. Headed(M)
  <2>1. CASE L = << >>
    <3>1. Len(M) = 1
      BY <1>1, <2>1, EmptySeq
    <3> QED
      BY <1>1, <2>1, <3>1 DEF Headed
  <2>2. CASE L # << >>
    BY <1>2, <1>4, <2>2 DEF Headed
  <2> QED
    BY <2>1, <2>2
<1>6. ASSUME NEW j \in 1..Len(M), M[j].type = "JobStarted"
      PROVE  M[j].job.id = id
  <2>1. CASE j \in 1..Len(L)
    BY <1>2, <1>3, <1>6, <2>1
  <2>2. CASE j = Len(M)
    BY <1>1, <1>6, <2>2
  <2> QED
    BY <1>3, <2>1, <2>2
<1>7. ASSUME NEW j \in 1..Len(M), Clear(M, j), M[j].type = "Intent"
      PROVE  M[j].step \in 1..Len(M[1].job.plan) /\ M[j].partial \in 1..names'
  <2>1. CASE j \in 1..Len(L)
    <3>1. Clear(L, j) /\ M[j] = L[j]
      BY <1>1, <1>7, <2>1, ClearKept, BreakKept
    <3>2. M[1] = L[1]
      BY <1>1, <1>3, <2>1
    <3>3. M[j].step \in 1..Len(M[1].job.plan) /\ M[j].partial \in 1..names
      BY <1>2, <1>7, <2>1, <3>1, <3>2
    <3> QED
      BY <3>3
  <2>2. CASE j = Len(M)
    <3>1. record.type = "Intent" /\ L # << >>
      BY <1>1, <1>7, <2>2
    <3> QED
      BY <1>1, <1>4, <1>7, <2>2, <3>1
  <2> QED
    BY <1>3, <2>1, <2>2
<1> QED
  BY <1>5, <1>6, <1>7 DEF Own

-----------------------------------------------------------------------------
(* What a report's journal still needs, after one more write to it.        *)
LEMMA FollowsSpoilt ==
  ASSUME NEW g \in Files, ~g.open, Len(g.lines) >= 1, g.lines[Len(g.lines)] = Garbage,
         NEW at, NEW rest, NEW left, left >= 1
  PROVE  FollowsOn(g, at, rest, left)
<1>1. g.lines \in Seq(Lines)
  BY DEF Files
<1>2. Len(g.lines) \in 1..Len(g.lines) /\ g.lines # << >>
  BY <1>1, LenProperties, EmptySeq
<1>3. Broken(g.lines)
  <2>1. g.lines[Len(g.lines)].type = "Garbage"
    BY DEF Garbage
  <2> QED
    BY <1>1, <1>2, <2>1, BreaksOff
<1> QED
  BY <1>2, <1>3 DEF FollowsOn

LEMMA FollowsDead ==
  ASSUME NEW g \in Files, ~g.open, Dead(g.lines, Len(g.lines)),
         NEW at, NEW rest, NEW left
  PROVE  FollowsOn(g, at, rest, left)
<1>1. g.lines \in Seq(Lines)
  BY DEF Files
<1>2. Broken(g.lines)
  BY <1>1, DeadBroken
<1>3. g.lines # << >>
  <2>1. Len(g.lines) # 0
    BY <1>1, LenProperties DEF Dead
  <2> QED
    BY <2>1, EmptySeq
<1> QED
  BY <1>2, <1>3 DEF FollowsOn

(* A job that writes to it does so behind a break, or breaks it off.       *)
LEMMA FollowsJob ==
  ASSUME Disked, Disked', NEW id \in Ids, NEW record \in Lines,
         Adds(id, record) \/ Spoils(id), Own(id),
         record.type # "Garbage", Begun(id) \/ record.type = "JobStarted",
         NEW rest, NEW left \in Nat, FollowsOn(files[id], jobs[id].at, rest, left), NEW at
  PROVE  FollowsOn(files'[id], at, rest, left)
<1> DEFINE L == files[id].lines
           M == files'[id].lines
<1>1. /\ L \in Seq(Lines) /\ M \in Seq(Lines) /\ Len(L) \in Nat /\ files'[id] \in Files
      /\ files[id].open => Len(L) >= 1
      /\ files[id].open \in BOOLEAN
  BY FileFacts, FileFactsNext
<1>2. CASE Spoils(id)
  <2>1. files[id].open /\ ~files'[id].open /\ Len(M) >= 1 /\ M[Len(M)] = Garbage
    BY <1>1, <1>2 DEF Spoils
  <2>2. left >= 1
    BY <2>1 DEF FollowsOn
  <2> QED
    BY <1>1, <2>1, <2>2, FollowsSpoilt
<1>3. CASE Adds(id, record)
  <2>1. /\ ~files[id].open /\ ~files'[id].open /\ Len(M) = Len(L) + 1
        /\ Keeps(L, M, Len(L)) /\ M[Len(M)] = record
    BY <1>3 DEF Adds
  <2>2. L # << >> /\ Headed(L)
    BY DEF FollowsOn, Own
  <2>3. Len(L) >= 1
    BY <1>1, <2>2, EmptySeq
  <2>4. CASE Broken(L)
    <3>1. PICK b \in 1..Len(L) : Break(L, b)
      BY <2>4 DEF Broken
    <3>2. Dead(M, Len(M))
      BY <1>1, <2>1, <2>2, <3>1, BehindBreak
    <3> QED
      BY <1>1, <2>1, <3>2, FollowsDead
  <2>5. CASE ~Broken(L)
    <3>1. record.type = "JobStarted"
      BY <2>1, <2>5 DEF FollowsOn, Begun
    <3>2. 1 \in 1..Len(M) /\ Len(M) \in 1..Len(M) /\ 1 < Len(M)
      BY <1>1, <2>1, <2>3
    <3>3. Dead(M, Len(M))
      BY <2>1, <3>1, <3>2 DEF Dead
    <3> QED
      BY <1>1, <2>1, <3>3, FollowsDead
  <2> QED
    BY <2>4, <2>5
<1> QED
  BY <1>2, <1>3

(* A step that is resolved is not pending any more.                        *)
LEMMA FollowsResolved ==
  ASSUME Disked, Disked', NEW id \in Ids, NEW record \in Lines,
         Adds(id, record) \/ Spoils(id), Own(id),
         record.type \in {"Completion", "JobFinished"},
         NEW rest, NEW left \in Nat, FollowsOn(files[id], jobs[id].at, rest, left),
         NEW rest2, NEW left2 \in Nat, files[id].open => left2 >= 1,
         \A s \in rest : s \in rest2 \/ (record.type = "Completion" /\ record.step = s)
  PROVE  FollowsOn(files'[id], jobs[id].at, rest2, left2)
<1> DEFINE L == files[id].lines
           M == files'[id].lines
<1>1. /\ L \in Seq(Lines) /\ M \in Seq(Lines) /\ Len(L) \in Nat /\ files'[id] \in Files
      /\ files[id].open => Len(L) >= 1
  BY FileFacts, FileFactsNext
<1>2. CASE Spoils(id)
  <2>1. files[id].open /\ ~files'[id].open /\ Len(M) >= 1 /\ M[Len(M)] = Garbage
    BY <1>1, <1>2 DEF Spoils
  <2> QED
    BY <1>1, <2>1, FollowsSpoilt
<1>3. CASE Adds(id, record)
  <2>1. /\ ~files[id].open /\ ~files'[id].open /\ Len(M) = Len(L) + 1
        /\ Keeps(L, M, Len(L)) /\ M[Len(M)] = record
    BY <1>3 DEF Adds
  <2>2. L # << >> /\ Headed(L)
    BY DEF FollowsOn, Own
  <2>3. Len(L) >= 1
    BY <1>1, <2>2, EmptySeq
  <2>4. CASE Broken(L)
    <3>1. PICK b \in 1..Len(L) : Break(L, b)
      BY <2>4 DEF Broken
    <3>2. Dead(M, Len(M))
      BY <1>1, <2>1, <2>2, <3>1, BehindBreak
    <3> QED
      BY <1>1, <2>1, <3>2, FollowsDead
  <2>5. CASE ~Broken(L)
    <3>1. ~Broken(M)
      BY <1>1, <2>1, <2>2, <2>5, Continues
    <3>2. jobs[id].at \in {"none", "opened"} /\ Pending(L, rest)
      BY <2>1, <2>5 DEF FollowsOn
    <3>3. \A i \in 1..Len(L) : M[i] = L[i] /\ i \in 1..Len(M)
      BY <1>1, <2>1 DEF Keeps
    <3>4. Len(M) \in 1..Len(M) /\ \A j \in 1..Len(M) : j \in 1..Len(L) \/ j = Len(M)
      BY <1>1, <2>1
    <3>5. ASSUME NEW j \in 1..Len(M), M[j].type = "Intent"
          PROVE  \/ M[j].step \in rest2
                 \/ \E c \in 1..Len(M) : M[c].type = "Completion" /\ M[c].step = M[j].step
      <4>1. j \in 1..Len(L) /\ M[j] = L[j]
        BY <2>1, <3>3, <3>4, <3>5
      <4>2. \/ L[j].step \in rest
            \/ \E c \in 1..Len(L) : L[c].type = "Completion" /\ L[c].step = L[j].step
        BY <3>2, <3>5, <4>1 DEF Pending
      <4>3. CASE L[j].step \in rest
        BY <2>1, <3>4, <4>1, <4>3
      <4>4. CASE \E c \in 1..Len(L) : L[c].type = "Completion" /\ L[c].step = L[j].step
        BY <3>3, <4>1, <4>4
      <4> QED
        BY <4>2, <4>3, <4>4
    <3>6. M # << >>
      BY <1>1, <2>1, <2>3, EmptySeq
    <3> QED
      BY <2>1, <3>1, <3>2, <3>5, <3>6 DEF FollowsOn, Pending
  <2> QED
    BY <2>4, <2>5
<1> QED
  BY <1>2, <1>3

-----------------------------------------------------------------------------
(* What a step that has nothing to do with a job leaves as it was.         *)
Spared(id) == \A p \in partials' : p.id = id => p \in partials \/ Lost(id)'
Remembered == history.handed \subseteq history'.handed

LEMMA RunsKept ==
  ASSUME NEW id \in Ids, Runs(id), files'[id] = files[id], jobs'[id] = jobs[id],
         On(id)' => On(id), Remembered,
         \A p \in partials' : p.id = id => p \in partials
  PROVE  Runs(id)'
<1>1. SUFFICES ASSUME Begun(id)'
               PROVE  ~files'[id].open /\ (Fresh(id)' \/ Behind(id)')
  BY DEF Runs
<1>2. ~files[id].open /\ (Fresh(id) \/ Behind(id))
  BY <1>1 DEF Begun, Runs
<1>3. CASE Behind(id)
  BY <1>2, <1>3 DEF Behind
<1>4. CASE Fresh(id)
  <2>1. \A p \in partials' : p.id = id =>
          p.name \in history'.handed \/ (jobs'[id].at = "staged" /\ p.name = jobs'[id].name)
    BY <1>4 DEF Fresh, Remembered
  <2> QED
    BY <1>2, <1>4, <2>1 DEF Fresh
<1> QED
  BY <1>2, <1>3, <1>4

LEMMA CoveredKept ==
  ASSUME NEW id \in Ids, NEW some, Covered(id, some), Endures(id), Spared(id), Remembered
  PROVE  \A p \in partials' : p.id = id =>
           p.name \in history'.handed \/ Lost(id)' \/ p.name \in some
<1>1. SUFFICES ASSUME NEW p \in partials', p.id = id
               PROVE  p.name \in history'.handed \/ Lost(id)' \/ p.name \in some
  OBVIOUS
<1>2. p \in partials \/ Lost(id)'
  BY <1>1 DEF Spared
<1>3. p \in partials => p.name \in history.handed \/ Lost(id) \/ p.name \in some
  BY <1>1 DEF Covered
<1> QED
  BY <1>2, <1>3, LostKept DEF Remembered

LEMMA ListedKept ==
  ASSUME NEW r, Listed(r), Endures(r.job.id), Spared(r.job.id), Remembered,
         FollowsOn(files'[r.job.id], jobs'[r.job.id].at, r.incomplete, 2)
  PROVE  Listed(r)'
<1>1. /\ r.job.id \in Ids /\ r.incomplete # {} /\ r.incomplete \subseteq 1..Len(r.job.plan)
      /\ Covered(r.job.id, NamesOf(r.orphans))
  BY DEF Listed
<1>2. \A p \in partials' : p.id = r.job.id =>
        p.name \in history'.handed \/ Lost(r.job.id)' \/ p.name \in NamesOf(r.orphans)
  BY <1>1, CoveredKept
<1> QED
  BY <1>1, <1>2 DEF Listed, Covered, Follows, NamesOf

LEMMA ResolvesKept ==
  ASSUME NEW id, NEW doomed, NEW todo, Resolves(id, doomed, todo),
         Endures(id), Spared(id), Remembered,
         FollowsOn(files'[id], jobs'[id].at, ToDo(todo), Len(todo))
  PROVE  Resolves(id, doomed, todo)'
<1>1. /\ id \in Ids /\ Covered(id, doomed)
      /\ \A i \in 1..Len(todo) : todo[i].type \in {"Completion", "JobFinished"}
  BY DEF Resolves
<1>2. \A p \in partials' : p.id = id =>
        p.name \in history'.handed \/ Lost(id)' \/ p.name \in doomed
  BY <1>1, CoveredKept
<1> QED
  BY <1>1, <1>2 DEF Resolves, Covered, Follows, ToDo

LEMMA ActionFacts ==
  ASSUME Asking, action # NoAction
  PROVE  /\ action.report \in Reports /\ action.report.job.id \in Ids
         /\ action.doomed \subseteq Nat /\ action.todo \in Seq(Lines)
         /\ Len(action.todo) \in Nat
<1>1. action \in Actions
  BY DEF Asking
<1>2. /\ action.report \in Reports /\ action.doomed \subseteq Nat
      /\ action.todo \in Seq(Lines)
  BY <1>1 DEF Actions
<1> QED
  BY <1>2, ReportFacts, LenProperties

(* One write of a job to its journal keeps the invariant, if it keeps the  *)
(* job's own part of it.                                                   *)
LEMMA JobWrites ==
  ASSUME Inv, Typed', NEW id \in Ids, NEW record \in Lines, Write(id, record),
         record.type # "Garbage", Begun(id) \/ record.type = "JobStarted",
         UNCHANGED <<partials, reports, action, history>>, names <= names',
         \A other \in Ids : other # id => jobs'[other] = jobs[other],
         Own(id)', Runs(id)',
         /\ Adds(id, record)
         /\ Clear(files'[id].lines, Len(files'[id].lines))
         /\ record.type \in {"Intent", "Completion"}
         => \A p \in partials : p.id = id => p.name \in history.handed \/ Lost(id)
  PROVE  Inv'
<1>1. /\ Disked /\ Working /\ Asking /\ Disked' /\ names \in Nat /\ names' \in Nat
  BY DEF Inv, Typed, Working
<1>2. /\ Adds(id, record) \/ Spoils(id)
      /\ \A other \in Ids : other # id => Stays(other)
  BY <1>1, WriteFacts
<1>3. \A i \in Ids : Own(i) /\ Runs(i)
  BY DEF Inv
<1>4. \A i \in Ids : Endures(i)
  BY <1>1, <1>2, StaysEndures, AddsEndures, SpoilsEndures
<1>5. \A i \in Ids : Spared(i) /\ Remembered /\ (On(i)' => On(i))
  BY DEF Spared, Remembered, On
<1>6. ASSUME NEW other \in Ids, other # id
      PROVE  /\ files'[other] = files[other] /\ jobs'[other] = jobs[other]
             /\ Shrinks(files[other].lines, files'[other].lines)
  BY <1>1, <1>2, <1>6, StaysEndures DEF Stays
<1>7. ASSUME NEW i \in Ids
      PROVE  Own(i)' /\ Runs(i)'
  <2>1. CASE i = id
    BY <2>1
  <2>2. CASE i # id
    <3>1. Own(i)'
      BY <1>1, <1>3, <1>6, <2>2, OwnCalm
    <3>2. Runs(i)'
      BY <1>3, <1>5, <1>6, <2>2, RunsKept, partials' = partials
    <3> QED
      BY <3>1, <3>2
  <2> QED
    BY <2>1, <2>2
<1>8. ASSUME NEW p \in partials'
      PROVE  Accounted(p)'
  <2>1. p \in partials /\ p.id \in Ids /\ Accounted(p) /\ history'.handed = history.handed
    BY <1>1, PartialFacts DEF Inv
  <2>2. CASE p.name \in history.handed
    BY <2>1, <2>2 DEF Accounted
  <2>3. CASE Lost(p.id)
    BY <1>4, <2>1, <2>3, LostKept DEF Accounted
  <2>4. CASE Announced(p)
    <3>1. CASE p.id # id
      <4>1. Shrinks(files[p.id].lines, files'[p.id].lines) /\ Endures(p.id)
        BY <1>4, <1>6, <2>1, <3>1
      <4> QED
        BY <1>1, <2>1, <2>4, <4>1, AnnouncedKept DEF Accounted
    <3>2. CASE p.id = id /\ Spoils(id)
      <4>1. Shrinks(files[p.id].lines, files'[p.id].lines) /\ Endures(p.id)
        BY <1>1, <3>2, SpoilsEndures
      <4> QED
        BY <1>1, <2>1, <2>4, <4>1, AnnouncedKept DEF Accounted
    <3>3. CASE p.id = id /\ Adds(id, record)
      <4>1. CASE \/ ~Clear(files'[id].lines, Len(files'[id].lines))
                 \/ record.type \notin {"Intent", "Completion"}
        <5>1. Announced(p)'
          BY <1>1, <2>1, <2>4, <3>3, <4>1, AnnouncedAdded
        <5> QED
          BY <5>1 DEF Accounted
      <4>2. CASE ~(\/ ~Clear(files'[id].lines, Len(files'[id].lines))
                   \/ record.type \notin {"Intent", "Completion"})
        <5>1. p.name \in history.handed \/ Lost(id)
          BY <2>1, <3>3, <4>2
        <5> QED
          BY <1>4, <2>1, <3>3, <5>1, LostKept DEF Accounted
      <4> QED
        BY <4>1, <4>2
    <3> QED
      BY <1>2, <3>1, <3>2, <3>3
  <2> QED
    BY <2>1, <2>2, <2>3, <2>4 DEF Accounted
<1>9. ASSUME NEW i \in Ids, NEW rest, NEW left \in Nat,
             FollowsOn(files[i], jobs[i].at, rest, left)
      PROVE  FollowsOn(files'[i], jobs'[i].at, rest, left)
  <2>1. CASE i = id
    BY <1>1, <1>2, <1>3, <1>9, <2>1, FollowsJob
  <2>2. CASE i # id
    BY <1>6, <1>9, <2>2
  <2> QED
    BY <2>1, <2>2
<1>10. ASSUME NEW r \in reports'
       PROVE  Listed(r)'
  <2>1. Listed(r)
    BY DEF Inv
  <2>2. r.job.id \in Ids /\ FollowsOn(files[r.job.id], jobs[r.job.id].at, r.incomplete, 2)
    BY <2>1 DEF Listed, Follows
  <2>3. FollowsOn(files'[r.job.id], jobs'[r.job.id].at, r.incomplete, 2)
    BY <1>9, <2>2
  <2> QED
    BY <1>4, <1>5, <2>1, <2>2, <2>3, ListedKept
<1>11. Answering'
  <2>1. SUFFICES ASSUME action # NoAction
                 PROVE  Resolves(action.report.job.id, action.doomed, action.todo)'
    BY DEF Answering
  <2> DEFINE i == action.report.job.id
             doomed == action.doomed
             todo == action.todo
  <2>2. Resolves(i, doomed, todo) /\ Len(todo) \in Nat /\ i \in Ids
    BY <1>1, <2>1, ActionFacts DEF Inv, Answering
  <2>3. FollowsOn(files[i], jobs[i].at, ToDo(todo), Len(todo))
    BY <2>2 DEF Resolves, Follows
  <2>4. FollowsOn(files'[i], jobs'[i].at, ToDo(todo), Len(todo))
    BY <1>9, <2>2, <2>3
  <2>5. /\ Covered(i, doomed)
        /\ \A k \in 1..Len(todo) : todo[k].type \in {"Completion", "JobFinished"}
    BY <2>2 DEF Resolves
  <2>6. \A p \in partials' : p.id = i =>
          p.name \in history'.handed \/ Lost(i)' \/ p.name \in doomed
    BY <1>4, <1>5, <2>2, <2>5, CoveredKept
  <2>7. action' = action
    OBVIOUS
  <2> QED
    BY <2>2, <2>4, <2>5, <2>6, <2>7 DEF Resolves, Follows, Covered, ToDo
<1>12. ASSUME NEW r \in history'.retired
       PROVE  Gone(r)'
  <2>1. Gone(r)
    BY DEF Inv
  <2>2. r.job.id \in Ids /\ Settled(r.job.id) /\ ~On(r.job.id) /\ ~On(r.job.id)'
    BY <1>5, <2>1 DEF Gone
  <2>3. Settled(r.job.id)'
    <3>1. CASE r.job.id = id /\ Adds(id, record)
      BY <1>1, <2>2, <3>1, SettledAdded
    <3>2. CASE r.job.id = id /\ Spoils(id)
      <4>1. Endures(id) /\ Shrinks(files[id].lines, files'[id].lines)
            /\ Len(files'[id].lines) = Len(files[id].lines)
        BY <1>1, <3>2, SpoilsEndures DEF Spoils
      <4>2. files[id].open
        BY <3>2 DEF Spoils
      <4> QED
        BY <1>1, <2>2, <3>2, <4>1, <4>2, SettledCalm
    <3>3. CASE r.job.id # id
      <4>1. /\ Endures(r.job.id) /\ Shrinks(files[r.job.id].lines, files'[r.job.id].lines)
            /\ Len(files'[r.job.id].lines) = Len(files[r.job.id].lines)
            /\ Begun(r.job.id)' => Begun(r.job.id)
        BY <1>4, <1>6, <2>2, <3>3 DEF Begun
      <4> QED
        BY <1>1, <2>2, <4>1, SettledCalm
    <3> QED
      BY <1>2, <3>1, <3>2, <3>3
  <2> QED
    BY <2>2, <2>3 DEF Gone
<1> QED
  BY <1>7, <1>8, <1>10, <1>11, <1>12 DEF Inv

-----------------------------------------------------------------------------
(* The steps of a job that write to its journal.                           *)
LEMMA JobFacts ==
  ASSUME Working, NEW id \in Ids
  PROVE  /\ jobs[id] \in Jobs /\ jobs[id].at \in Places /\ jobs[id].plan \in Seq(Items)
         /\ jobs[id].step \in Nat /\ jobs[id].name \in Nat
         /\ Len(jobs[id].plan) \in Nat
         /\ jobs[id].at \in Named => jobs[id].name \in 1..names
         /\ jobs[id].at # "none" => jobs[id].step >= 1
         /\ names \in Nat
<1>1. jobs[id] \in Jobs /\ Employed(id) /\ names \in Nat
  BY DEF Working
<1>2. jobs[id].plan \in Seq(Items)
  BY <1>1 DEF Jobs
<1> QED
  BY <1>1, <1>2, LenProperties DEF Jobs, Employed

LEMMA TypedJob ==
  ASSUME Typed, Disked', NEW id \in Ids, jobs[id].at # "none",
         NEW job \in Jobs, jobs' = [jobs EXCEPT ![id] = job],
         names' \in Nat, names <= names',
         job.at \in Named => job.name \in 1..names', job.step >= 1,
         UNCHANGED <<up, session, nextId, reports, action, faults, history>>,
         \A p \in partials' :
           p \in partials \/ (p \in [id : Ids, name : Nat] /\ p.name \in 1..names')
  PROVE  Typed'
<1>1. /\ Working /\ Asking /\ Living
  BY DEF Typed
<1>2. /\ jobs' \in [Ids -> Jobs] /\ jobs'[id] = job
      /\ \A other \in Ids : other # id => jobs'[other] = jobs[other]
  BY <1>1 DEF Working
<1>3. ASSUME NEW other \in Ids
      PROVE  Employed(other)'
  <2>1. CASE other = id
    BY <1>2, <2>1 DEF Employed
  <2>2. CASE other # id
    <3>1. Employed(other) /\ names \in Nat
      BY <1>1 DEF Working
    <3> QED
      BY <1>2, <2>2, <3>1 DEF Employed
  <2> QED
    BY <2>1, <2>2
<1>4. partials' \subseteq [id : Ids, name : Nat] /\ \A p \in partials' : p.name \in 1..names'
  BY <1>1 DEF Working
<1>5. Working'
  BY <1>1, <1>2, <1>3, <1>4 DEF Working
<1>6. Asking'
  BY <1>1 DEF Asking
<1>7. Living'
  BY <1>1 DEF Living
<1> QED
  BY <1>5, <1>6, <1>7 DEF Typed

LEMMA OnFiled ==
  ASSUME Inv, NEW id \in Ids, On(id)
  PROVE  files[id].lines # << >>
<1>1. CASE \E r \in reports : r.job.id = id
  BY <1>1 DEF Inv, Listed, Follows, FollowsOn
<1>2. CASE action # NoAction /\ action.report.job.id = id
  BY <1>2 DEF Inv, Answering, Resolves, Follows, FollowsOn
<1> QED
  BY <1>1, <1>2 DEF On

LEMMA EmptyHanded ==
  ASSUME Inv, NEW id \in Ids, files[id].lines = << >>, NEW p \in partials, p.id = id
  PROVE  p.name \in history.handed
<1>1. Len(files[id].lines) = 0
  BY EmptySeq
<1>2. ~Lost(id)
  BY <1>1, FileFacts DEF Inv, Typed, Lost, Dead
<1>3. ~Announced(p)
  BY <1>1 DEF Announced, Announces, Clear
<1> QED
  BY <1>2, <1>3 DEF Inv, Accounted

(* A job that has begun finds its file as it left it.                      *)
LEMMA BegunFacts ==
  ASSUME Inv, NEW id \in Ids, Begun(id)
  PROVE  ~files[id].open /\ files[id].lines # << >> /\ (Fresh(id) \/ Behind(id)) /\ Own(id)
<1>1. ~files[id].open /\ (Fresh(id) \/ Behind(id)) /\ Own(id)
  BY DEF Inv, Runs
<1>2. CASE Behind(id)
  <2>1. Len(files[id].lines) # 0
    BY <1>2, FileFacts DEF Behind, Broken, Inv, Typed
  <2> QED
    BY <1>1, <2>1, EmptySeq
<1>3. CASE Fresh(id)
  BY <1>1, <1>3 DEF Fresh
<1> QED
  BY <1>1, <1>2, <1>3

LEMMA BehindWrites ==
  ASSUME Disked, Disked', NEW id \in Ids, Own(id), Behind(id), NEW record, Adds(id, record),
         record.type # "Garbage"
  PROVE  Behind(id)' /\ ~Clear(files'[id].lines, Len(files'[id].lines))
<1> DEFINE L == files[id].lines
           M == files'[id].lines
<1>1. /\ L \in Seq(Lines) /\ M \in Seq(Lines) /\ Len(L) \in Nat
      /\ Len(M) = Len(L) + 1 /\ Keeps(L, M, Len(L)) /\ M[Len(M)] = record
  BY FileFacts, FileFactsNext DEF Adds
<1>2. Headed(L)
  BY DEF Own
<1>3. PICK b \in 1..Len(L) : Break(L, b)
  BY DEF Behind, Broken
<1>4. Dead(M, Len(M))
  BY <1>1, <1>2, <1>3, BehindBreak
<1>5. Broken(M) /\ Break(M, b) /\ b \in 1..Len(M)
  BY <1>1, <1>3, <1>4, BreakKept, DeadBroken
<1> QED
  BY <1>4, <1>5 DEF Behind, Clear

LEMMA FreshWrites ==
  ASSUME Disked, Disked', NEW id \in Ids, Fresh(id), NEW record, Adds(id, record),
         record.type \notin {"Garbage", "JobStarted"}
  PROVE  /\ files'[id].lines # << >> /\ ~Broken(files'[id].lines)
         /\ files'[id].lines[1] = files[id].lines[1]
<1> DEFINE L == files[id].lines
           M == files'[id].lines
<1>1. /\ L \in Seq(Lines) /\ M \in Seq(Lines) /\ Len(L) \in Nat
      /\ Len(M) = Len(L) + 1 /\ Keeps(L, M, Len(L)) /\ M[Len(M)] = record
  BY FileFacts, FileFactsNext DEF Adds
<1>2. L # << >> /\ ~Broken(L)
  BY DEF Fresh
<1>3. Len(L) >= 1
  BY <1>1, <1>2, EmptySeq
<1>4. M # << >> /\ M[1] = L[1]
  BY <1>1, <1>3, EmptySeq DEF Keeps
<1> QED
  BY <1>1, <1>2, <1>4, Continues

LEMMA InvStarts ==
  ASSUME Inv, NEW id \in Ids, Starts(id)
  PROVE  Inv'
<1> DEFINE job == [id |-> id, plan |-> jobs[id].plan]
           record == JobStarted(job)
           next == [jobs[id] EXCEPT !.at = "starting"]
           L == files[id].lines
           M == files'[id].lines
<1>1. /\ Typed /\ Disked /\ Working /\ Own(id)
  BY DEF Inv, Typed
<1>2. /\ jobs[id].at = "opened" /\ Write(id, record) /\ jobs' = [jobs EXCEPT ![id] = next]
      /\ UNCHANGED <<partials, up, session, nextId, names, reports, action, faults, history>>
  BY DEF Starts, dialog
<1>3. /\ jobs[id] \in Jobs /\ jobs[id].plan \in Seq(Items) /\ jobs[id].step >= 1 /\ names \in Nat
  BY <1>1, <1>2, JobFacts
<1>4. next \in Jobs /\ next.at = "starting" /\ next.step = jobs[id].step
      /\ next.plan = jobs[id].plan
  BY <1>3 DEF Jobs, Places
<1>5. job \in JobIds /\ job.id = id /\ job.plan = jobs[id].plan
  BY <1>3 DEF JobIds
<1> HIDE DEF job
<1>6. record \in Lines /\ record.type = "JobStarted" /\ record.job = job
  BY <1>5, Recorded DEF JobStarted
<1> HIDE DEF record, next
<1>7. Disked' /\ (Adds(id, record) \/ Spoils(id))
  BY <1>1, <1>2, <1>6, WriteFacts
<1>8. jobs'[id] = next /\ \A other \in Ids : other # id => jobs'[other] = jobs[other]
  BY <1>1, <1>2 DEF Working
<1>9. Typed'
  <2>1. next.at \notin Named
    BY <1>4 DEF Named
  <2>2. names' \in Nat /\ names <= names' /\ \A p \in partials' : p \in partials
    BY <1>2, <1>3
  <2>3. UNCHANGED <<up, session, nextId, reports, action, faults, history>>
    BY <1>2
  <2>4. jobs[id].at # "none" /\ next.step >= 1 /\ next \in Jobs
    BY <1>2, <1>3, <1>4
  <2> QED
    BY <1>1, <1>2, <1>7, <2>1, <2>2, <2>3, <2>4, TypedJob
<1>10. L \in Seq(Lines) /\ M \in Seq(Lines) /\ Len(L) \in Nat /\ Len(M) \in Nat
  BY <1>1, <1>7, FileFacts, FileFactsNext
<1>11. CASE Spoils(id)
  <2>1. Own(id)'
    BY <1>1, <1>2, <1>3, <1>7, <1>11, SpoilsEndures, OwnCalm
  <2>2. /\ ~files'[id].open /\ Len(M) = Len(L) /\ Len(L) >= 1 /\ M[Len(M)].type = "Garbage"
    BY <1>1, <1>11, FileFacts DEF Spoils, Garbage
  <2>3. Broken(M)
    BY <1>10, <2>2, BreaksOff
  <2>4. Runs(id)'
    BY <1>4, <1>8, <2>2, <2>3 DEF Runs, Behind, Named
  <2>5. ~Adds(id, record)
    BY <1>11 DEF Adds, Spoils
  <2> QED
    BY <1>2, <1>3, <1>6, <1>8, <1>9, <2>1, <2>4, <2>5, JobWrites
<1>12. CASE Adds(id, record)
  <2>1. Own(id)'
    BY <1>1, <1>2, <1>3, <1>5, <1>6, <1>7, <1>12, OwnAdded
  <2>2. /\ ~files'[id].open /\ Len(M) = Len(L) + 1 /\ M[Len(M)] = record
    BY <1>12 DEF Adds
  <2>3. Runs(id)'
    <3>1. CASE L # << >>
      <4>1. Len(L) >= 1
        BY <1>10, <3>1, EmptySeq
      <4>2. Len(M) \in 1..Len(M) /\ Len(M) # 1
        BY <1>10, <2>2, <4>1
      <4>3. Broken(M)
        BY <1>6, <1>10, <2>2, <4>2, BreaksOff
      <4> QED
        BY <1>4, <1>8, <2>2, <4>3 DEF Runs, Behind, Named
    <3>2. CASE L = << >>
      <4>1. Len(M) = 1 /\ M # << >> /\ M[1] = record
        BY <1>10, <2>2, <3>2, EmptySeq
      <4>2. ~Broken(M)
        BY <1>6, <4>1 DEF Broken, Break
      <4>3. ~On(id)'
        BY <1>2, <3>2, OnFiled DEF On
      <4>4. M[1].job.plan = next.plan
        BY <1>4, <1>5, <1>6, <4>1
      <4>5. Intending(M, next)
        BY <1>4, <1>6, <4>1 DEF Intending, Named
      <4>6. \A p \in partials' : p.id = id => p.name \in history'.handed
        BY <1>2, <3>2, EmptyHanded
      <4>7. Fresh(id)'
        BY <1>8, <4>1, <4>2, <4>3, <4>4, <4>5, <4>6 DEF Fresh
      <4> QED
        BY <2>2, <4>7 DEF Runs
    <3> QED
      BY <3>1, <3>2
  <2> QED
    BY <1>2, <1>3, <1>6, <1>8, <1>9, <2>1, <2>3, JobWrites
<1> QED
  BY <1>7, <1>11, <1>12

LEMMA InvIntends ==
  ASSUME Inv, NEW id \in Ids, Intends(id)
  PROVE  Inv'
<1> DEFINE name == names + 1
           record == Intent(jobs[id].step, name)
           next == [jobs[id] EXCEPT !.at = "intent", !.name = name]
           L == files[id].lines
           M == files'[id].lines
<1>1. /\ Typed /\ Disked /\ Working /\ Own(id)
  BY DEF Inv, Typed
<1>2. /\ jobs[id].at = "ready" /\ names' = name /\ Write(id, record)
      /\ jobs[id].step <= Len(jobs[id].plan)
      /\ jobs' = [jobs EXCEPT ![id] = next]
      /\ UNCHANGED <<partials, up, session, nextId, reports, action, faults, history>>
  BY DEF Intends, dialog, More
<1>3. /\ jobs[id] \in Jobs /\ jobs[id].plan \in Seq(Items) /\ jobs[id].step >= 1
      /\ jobs[id].step \in Nat /\ names \in Nat /\ Len(jobs[id].plan) \in Nat
  BY <1>1, <1>2, JobFacts
<1>4. name \in Nat /\ names <= name /\ name \in 1..name
  BY <1>3
<1> HIDE DEF name
<1>5. /\ next \in Jobs /\ next.at = "intent" /\ next.step = jobs[id].step
      /\ next.plan = jobs[id].plan /\ next.name = name
  BY <1>3, <1>4 DEF Jobs, Places
<1>6. /\ record \in Lines /\ record.type = "Intent" /\ record.step = jobs[id].step
      /\ record.partial = name /\ record = Intent(next.step, next.name)
  BY <1>3, <1>4, <1>5, Recorded DEF Intent
<1> HIDE DEF record, next
<1>7. Disked' /\ (Adds(id, record) \/ Spoils(id))
  BY <1>1, <1>2, <1>6, WriteFacts
<1>8. jobs'[id] = next /\ \A other \in Ids : other # id => jobs'[other] = jobs[other]
  BY <1>1, <1>2 DEF Working
<1>9. Typed'
  <2>1. next.at \in Named => next.name \in 1..names'
    BY <1>2, <1>4, <1>5
  <2>2. names' \in Nat /\ names <= names' /\ \A p \in partials' : p \in partials
    BY <1>2, <1>4
  <2>3. UNCHANGED <<up, session, nextId, reports, action, faults, history>>
    BY <1>2
  <2>4. jobs[id].at # "none" /\ next.step >= 1 /\ next \in Jobs
    BY <1>2, <1>3, <1>5
  <2> QED
    BY <1>1, <1>2, <1>7, <2>1, <2>2, <2>3, <2>4, TypedJob
<1>10. Begun(id)
  BY <1>2 DEF Begun
<1>11. ~files[id].open /\ L # << >> /\ (Fresh(id) \/ Behind(id)) /\ Adds(id, record)
  BY <1>7, <1>10, BegunFacts DEF Spoils
<1>12. L \in Seq(Lines) /\ M \in Seq(Lines) /\ Len(L) \in Nat /\ Len(M) = Len(L) + 1
       /\ M[Len(M)] = record /\ ~files'[id].open /\ Keeps(L, M, Len(L))
  BY <1>1, <1>7, <1>11, FileFacts, FileFactsNext DEF Adds
<1>13. CASE Behind(id)
  <2>1. Behind(id)' /\ ~Clear(M, Len(M))
    BY <1>1, <1>6, <1>7, <1>11, <1>13, BehindWrites
  <2>2. Own(id)'
    BY <1>1, <1>2, <1>3, <1>4, <1>6, <1>7, <1>11, <2>1, OwnAdded
  <2>3. Runs(id)'
    BY <1>12, <2>1 DEF Runs
  <2> QED
    BY <1>2, <1>4, <1>6, <1>8, <1>9, <1>10, <2>1, <2>2, <2>3, JobWrites
<1>14. CASE Fresh(id)
  <2>1. M # << >> /\ ~Broken(M) /\ M[1] = L[1]
    BY <1>1, <1>6, <1>7, <1>11, <1>14, FreshWrites
  <2>2. L[1].job.plan = jobs[id].plan
    BY <1>14 DEF Fresh
  <2>3. record.step \in 1..Len(L[1].job.plan) /\ record.partial \in 1..names'
    BY <1>2, <1>3, <1>4, <1>6, <2>2
  <2>4. Own(id)'
    BY <1>1, <1>2, <1>3, <1>4, <1>6, <1>7, <1>11, <2>3, OwnAdded
  <2>5. \A p \in partials : p.id = id => p.name \in history.handed
    BY <1>2, <1>14 DEF Fresh
  <2>6. Intending(M, next)
    <3>1. \A j \in 1..Len(L) : L[j].type \in {"Intent", "Completion"} => L[j].step < jobs[id].step
      BY <1>2, <1>14 DEF Fresh, Intending, Named
    <3>2. Len(M) \in 1..Len(M) /\ \A j \in 1..Len(M) : j # Len(M) => j \in 1..Len(L) /\ M[j] = L[j]
      BY <1>12 DEF Keeps
    <3>3. \A j \in 1..Len(M) : j # Len(M) /\ M[j].type \in {"Intent", "Completion"} =>
             M[j].step < next.step
      BY <1>5, <3>1, <3>2
    <3> QED
      BY <1>5, <1>6, <1>12, <3>2, <3>3 DEF Intending, Named
  <2>7. ~On(id)'
    BY <1>2, <1>14 DEF Fresh, On
  <2>8. Fresh(id)'
    BY <1>2, <1>5, <1>8, <2>1, <2>2, <2>5, <2>6, <2>7 DEF Fresh
  <2>9. Runs(id)'
    BY <1>12, <2>8 DEF Runs
  <2> QED
    BY <1>2, <1>4, <1>6, <1>8, <1>9, <1>10, <2>4, <2>5, <2>9, JobWrites
<1> QED
  BY <1>11, <1>13, <1>14

LEMMA InvCompletes ==
  ASSUME Inv, NEW id \in Ids, Completes(id)
  PROVE  Inv'
<1> DEFINE record == Completion(jobs[id].step, "Succeeded")
           after == jobs[id].step + 1
           next == [jobs[id] EXCEPT !.at = "ready", !.step = after]
           L == files[id].lines
           M == files'[id].lines
<1>1. /\ Typed /\ Disked /\ Working /\ Own(id)
  BY DEF Inv, Typed
<1>2. /\ jobs[id].at = "published" /\ Write(id, record)
      /\ jobs' = [jobs EXCEPT ![id] = next]
      /\ UNCHANGED <<names, partials, up, session, nextId, reports, action, faults, history>>
  BY DEF Completes, dialog
<1>3. /\ jobs[id] \in Jobs /\ jobs[id].plan \in Seq(Items) /\ jobs[id].step >= 1
      /\ jobs[id].step \in Nat /\ names \in Nat
  BY <1>1, <1>2, JobFacts
<1>4. after \in Nat /\ after = jobs[id].step + 1
  BY <1>3
<1> HIDE DEF after
<1>5. /\ next \in Jobs /\ next.at = "ready" /\ next.step = after
      /\ next.plan = jobs[id].plan
  BY <1>3, <1>4 DEF Jobs, Places
<1>6. record \in Lines /\ record.type = "Completion" /\ record.step = jobs[id].step
  BY <1>3, Recorded DEF Completion
<1> HIDE DEF record, next
<1>7. Disked' /\ (Adds(id, record) \/ Spoils(id))
  BY <1>1, <1>2, <1>6, WriteFacts
<1>8. jobs'[id] = next /\ \A other \in Ids : other # id => jobs'[other] = jobs[other]
  BY <1>1, <1>2 DEF Working
<1>9. Typed'
  <2>1. next.at \notin Named
    BY <1>5 DEF Named
  <2>2. names' \in Nat /\ names <= names' /\ \A p \in partials' : p \in partials
    BY <1>2, <1>3
  <2>3. UNCHANGED <<up, session, nextId, reports, action, faults, history>>
    BY <1>2
  <2>4. jobs[id].at # "none" /\ next.step >= 1 /\ next \in Jobs
    BY <1>2, <1>3, <1>4, <1>5
  <2> QED
    BY <1>1, <1>2, <1>7, <2>1, <2>2, <2>3, <2>4, TypedJob
<1>10. Begun(id) /\ names <= names' /\ names' \in Nat
  BY <1>2, <1>3 DEF Begun
<1>11. ~files[id].open /\ L # << >> /\ (Fresh(id) \/ Behind(id)) /\ Adds(id, record)
  BY <1>7, <1>10, BegunFacts DEF Spoils
<1>12. L \in Seq(Lines) /\ M \in Seq(Lines) /\ Len(L) \in Nat /\ Len(M) = Len(L) + 1
       /\ M[Len(M)] = record /\ ~files'[id].open /\ Keeps(L, M, Len(L))
  BY <1>1, <1>7, <1>11, FileFacts, FileFactsNext DEF Adds
<1>13. Own(id)'
  BY <1>1, <1>3, <1>6, <1>7, <1>10, <1>11, OwnAdded
<1>14. CASE Behind(id)
  <2>1. Behind(id)' /\ ~Clear(M, Len(M))
    BY <1>1, <1>6, <1>7, <1>11, <1>14, BehindWrites
  <2>2. Runs(id)'
    BY <1>12, <2>1 DEF Runs
  <2> QED
    BY <1>2, <1>6, <1>8, <1>9, <1>10, <1>13, <2>1, <2>2, JobWrites
<1>15. CASE Fresh(id)
  <2>1. M # << >> /\ ~Broken(M) /\ M[1] = L[1]
    BY <1>1, <1>6, <1>7, <1>11, <1>15, FreshWrites
  <2>2. L[1].job.plan = jobs[id].plan
    BY <1>15 DEF Fresh
  <2>5. \A p \in partials : p.id = id => p.name \in history.handed
    BY <1>2, <1>15 DEF Fresh
  <2>6. Intending(M, next)
    <3>1. ASSUME NEW j \in 1..Len(L), L[j].type \in {"Intent", "Completion"}
          PROVE  L[j].step < next.step
      <4>1. L[j] \in Lines /\ L[j].step \in Nat
        BY <1>12, <3>1, ElementOfSeq, LineFacts
      <4>2. PICK k \in 1..Len(L) :
              /\ L[k] = Intent(jobs[id].step, jobs[id].name)
              /\ \A i \in 1..Len(L) : i # k /\ L[i].type \in {"Intent", "Completion"} =>
                    L[i].step < jobs[id].step
        BY <1>2, <1>15 DEF Fresh, Intending, Named
      <4>3. CASE j = k
        BY <1>3, <1>4, <1>5, <4>2, <4>3 DEF Intent
      <4>4. CASE j # k
        BY <1>3, <1>4, <1>5, <3>1, <4>1, <4>2, <4>4
      <4> QED
        BY <4>3, <4>4
    <3>2. /\ Len(M) \in 1..Len(M)
          /\ \A j \in 1..Len(M) : j # Len(M) => j \in 1..Len(L) /\ M[j] = L[j]
      BY <1>12 DEF Keeps
    <3>3. \A j \in 1..Len(M) : j # Len(M) /\ M[j].type \in {"Intent", "Completion"} =>
             M[j].step < next.step
      BY <3>1, <3>2
    <3>4. M[Len(M)].step < next.step
      BY <1>3, <1>4, <1>5, <1>6, <1>12
    <3> QED
      BY <1>5, <3>2, <3>3, <3>4 DEF Intending, Named
  <2>7. ~On(id)'
    BY <1>2, <1>15 DEF Fresh, On
  <2>8. Fresh(id)'
    BY <1>2, <1>5, <1>8, <2>1, <2>2, <2>5, <2>6, <2>7 DEF Fresh
  <2>9. Runs(id)'
    BY <1>12, <2>8 DEF Runs
  <2> QED
    BY <1>2, <1>6, <1>8, <1>9, <1>10, <1>13, <2>5, <2>9, JobWrites
<1> QED
  BY <1>11, <1>14, <1>15

LEMMA InvFinishes ==
  ASSUME Inv, NEW id \in Ids, Finishes(id)
  PROVE  Inv'
<1> DEFINE record == JobFinished("Completed")
           next == [jobs[id] EXCEPT !.at = "ended"]
           L == files[id].lines
           M == files'[id].lines
<1>1. /\ Typed /\ Disked /\ Working /\ Own(id)
  BY DEF Inv, Typed
<1>2. /\ jobs[id].at = "ready" /\ Write(id, record)
      /\ jobs' = [jobs EXCEPT ![id] = next]
      /\ UNCHANGED <<names, partials, up, session, nextId, reports, action, faults, history>>
  BY DEF Finishes, dialog
<1>3. /\ jobs[id] \in Jobs /\ jobs[id].plan \in Seq(Items) /\ jobs[id].step >= 1
      /\ jobs[id].step \in Nat /\ names \in Nat
  BY <1>1, <1>2, JobFacts
<1>5. /\ next \in Jobs /\ next.at = "ended" /\ next.step = jobs[id].step
      /\ next.plan = jobs[id].plan
  BY <1>3 DEF Jobs, Places
<1>6. record \in Lines /\ record.type = "JobFinished"
  BY <1>3, Recorded DEF JobFinished
<1> HIDE DEF record, next
<1>7. Disked' /\ (Adds(id, record) \/ Spoils(id))
  BY <1>1, <1>2, <1>6, WriteFacts
<1>8. jobs'[id] = next /\ \A other \in Ids : other # id => jobs'[other] = jobs[other]
  BY <1>1, <1>2 DEF Working
<1>9. Typed'
  <2>1. next.at \notin Named
    BY <1>5 DEF Named
  <2>2. names' \in Nat /\ names <= names' /\ \A p \in partials' : p \in partials
    BY <1>2, <1>3
  <2>3. UNCHANGED <<up, session, nextId, reports, action, faults, history>>
    BY <1>2
  <2>4. jobs[id].at # "none" /\ next.step >= 1 /\ next \in Jobs
    BY <1>2, <1>3, <1>5
  <2> QED
    BY <1>1, <1>2, <1>7, <2>1, <2>2, <2>3, <2>4, TypedJob
<1>10. Begun(id) /\ names <= names' /\ names' \in Nat
  BY <1>2, <1>3 DEF Begun
<1>11. ~files[id].open /\ L # << >> /\ (Fresh(id) \/ Behind(id)) /\ Adds(id, record)
  BY <1>7, <1>10, BegunFacts DEF Spoils
<1>12. L \in Seq(Lines) /\ M \in Seq(Lines) /\ Len(L) \in Nat /\ Len(M) = Len(L) + 1
       /\ M[Len(M)] = record /\ ~files'[id].open /\ Keeps(L, M, Len(L))
  BY <1>1, <1>7, <1>11, FileFacts, FileFactsNext DEF Adds
<1>13. Own(id)'
  BY <1>1, <1>3, <1>6, <1>7, <1>10, <1>11, OwnAdded
<1>14. CASE Behind(id)
  <2>1. Behind(id)'
    BY <1>1, <1>6, <1>7, <1>11, <1>14, BehindWrites
  <2>2. Runs(id)'
    BY <1>12, <2>1 DEF Runs
  <2> QED
    BY <1>2, <1>6, <1>8, <1>9, <1>10, <1>13, <2>2, JobWrites
<1>15. CASE Fresh(id)
  <2>1. M # << >> /\ ~Broken(M) /\ M[1] = L[1]
    BY <1>1, <1>6, <1>7, <1>11, <1>15, FreshWrites
  <2>2. L[1].job.plan = jobs[id].plan
    BY <1>15 DEF Fresh
  <2>5. \A p \in partials : p.id = id => p.name \in history.handed
    BY <1>2, <1>15 DEF Fresh
  <2>6. Intending(M, next)
    <3>1. \A j \in 1..Len(L) : L[j].type \in {"Intent", "Completion"} => L[j].step < jobs[id].step
      BY <1>2, <1>15 DEF Fresh, Intending, Named
    <3>2. /\ Len(M) \in 1..Len(M)
          /\ \A j \in 1..Len(M) : j # Len(M) => j \in 1..Len(L) /\ M[j] = L[j]
      BY <1>12 DEF Keeps
    <3>3. \A j \in 1..Len(M) : M[j].type \in {"Intent", "Completion"} => M[j].step < next.step
      BY <1>5, <1>6, <1>12, <3>1, <3>2
    <3> QED
      BY <1>5, <3>2, <3>3 DEF Intending, Named
  <2>7. ~On(id)'
    BY <1>2, <1>15 DEF Fresh, On
  <2>8. Fresh(id)'
    BY <1>2, <1>5, <1>8, <2>1, <2>2, <2>5, <2>6, <2>7 DEF Fresh
  <2>9. Runs(id)'
    BY <1>12, <2>8 DEF Runs
  <2> QED
    BY <1>2, <1>6, <1>8, <1>9, <1>10, <1>13, <2>9, JobWrites
<1> QED
  BY <1>11, <1>14, <1>15

-----------------------------------------------------------------------------
(* The steps that write nothing.                                           *)
LEMMA StaysFollows ==
  ASSUME NEW id \in Ids, Stays(id), Begun(id)' => Begun(id),
         NEW rest, NEW left, FollowsOn(files[id], jobs[id].at, rest, left)
  PROVE  FollowsOn(files'[id], jobs'[id].at, rest, left)
BY DEF FollowsOn, Stays, Begun

LEMMA StaysListed ==
  ASSUME Disked, NEW r, Listed(r), Stays(r.job.id), Begun(r.job.id)' => Begun(r.job.id),
         Spared(r.job.id), Remembered
  PROVE  Listed(r)'
<1>1. r.job.id \in Ids /\ FollowsOn(files[r.job.id], jobs[r.job.id].at, r.incomplete, 2)
  BY DEF Listed, Follows
<1>2. FollowsOn(files'[r.job.id], jobs'[r.job.id].at, r.incomplete, 2)
  BY <1>1, StaysFollows
<1>3. Endures(r.job.id)
  BY <1>1, StaysEndures
<1> QED
  BY <1>2, <1>3, ListedKept

LEMMA StaysAnswering ==
  ASSUME Disked, Asking, Answering, action' = action,
         action # NoAction =>
           LET id == action.report.job.id
           IN Stays(id) /\ (Begun(id)' => Begun(id)) /\ Spared(id),
         Remembered
  PROVE  Answering'
<1>1. SUFFICES ASSUME action # NoAction
               PROVE  Resolves(action.report.job.id, action.doomed, action.todo)'
  BY DEF Answering
<1> DEFINE id == action.report.job.id
           doomed == action.doomed
           todo == action.todo
<1>2. id \in Ids /\ Resolves(id, doomed, todo)
  BY <1>1, ActionFacts DEF Answering
<1>3. /\ Follows(id, ToDo(todo), Len(todo)) /\ Covered(id, doomed)
      /\ \A k \in 1..Len(todo) : todo[k].type \in {"Completion", "JobFinished"}
  BY <1>2 DEF Resolves
<1>4. Stays(id) /\ (Begun(id)' => Begun(id)) /\ Spared(id)
  BY <1>1
<1>5. FollowsOn(files'[id], jobs'[id].at, ToDo(todo), Len(todo))
  BY <1>2, <1>3, <1>4, StaysFollows DEF Follows
<1>6. Endures(id)
  BY <1>2, <1>4, StaysEndures
<1>7. \A p \in partials' : p.id = id =>
        p.name \in history'.handed \/ Lost(id)' \/ p.name \in doomed
  BY <1>2, <1>3, <1>4, <1>6, CoveredKept
<1> QED
  BY <1>2, <1>3, <1>5, <1>7 DEF Resolves, Follows, Covered, ToDo

LEMMA Steady ==
  ASSUME Inv, Typed', \A id \in Ids : Stays(id), names <= names', Remembered,
         \A id \in Ids : Begun(id)' => Begun(id),
         \A id \in Ids : Runs(id)',
         \A p \in partials' : p \in partials \/ Accounted(p)',
         \A r \in reports' : Listed(r)',
         Answering',
         \A r \in history'.retired :
           \/ Gone(r)'
           \/ r \in history.retired /\ (On(r.job.id)' => On(r.job.id))
  PROVE  Inv'
<1>1. /\ Disked /\ Working /\ Disked' /\ names \in Nat /\ names' \in Nat
  BY DEF Inv, Typed, Working
<1>2. ASSUME NEW id \in Ids
      PROVE  /\ Endures(id) /\ Shrinks(files[id].lines, files'[id].lines)
             /\ Len(files'[id].lines) = Len(files[id].lines)
  BY <1>1, StaysEndures DEF Stays
<1>3. ASSUME NEW id \in Ids
      PROVE  Own(id)'
  BY <1>1, <1>2, OwnCalm DEF Inv
<1>4. ASSUME NEW p \in partials', p \in partials
      PROVE  Accounted(p)'
  <2>1. p.id \in Ids /\ Accounted(p)
    BY <1>1, <1>4, PartialFacts DEF Inv
  <2>2. CASE p.name \in history.handed
    BY <2>2 DEF Accounted, Remembered
  <2>3. CASE Lost(p.id)
    BY <1>2, <2>1, <2>3, LostKept DEF Accounted
  <2>4. CASE Announced(p)
    BY <1>1, <1>2, <2>1, <2>4, AnnouncedKept DEF Accounted
  <2> QED
    BY <2>1, <2>2, <2>3, <2>4 DEF Accounted
<1>5. ASSUME NEW r \in history'.retired
      PROVE  Gone(r)'
  <2>1. SUFFICES ASSUME r \in history.retired, On(r.job.id)' => On(r.job.id)
                 PROVE  Gone(r)'
    OBVIOUS
  <2>2. r.job.id \in Ids /\ Settled(r.job.id) /\ ~On(r.job.id)
    BY <2>1 DEF Inv, Gone
  <2>3. Settled(r.job.id)'
    BY <1>1, <1>2, <2>2, SettledCalm
  <2> QED
    BY <2>1, <2>2, <2>3 DEF Gone
<1> QED
  BY <1>3, <1>4, <1>5 DEF Inv

(* A step of a job that writes nothing.                                    *)
LEMMA JobTurns ==
  ASSUME Inv, Typed', \A id \in Ids : Stays(id),
         UNCHANGED <<names, reports, action, history>>, NEW id \in Ids,
         Begun(id), \A other \in Ids : other # id => jobs'[other] = jobs[other],
         Runs(id)',
         \A p \in partials' : p \in partials \/ (p.id = id /\ Accounted(p)'),
         On(id) => Spared(id)
  PROVE  Inv'
<1>1. /\ Disked /\ Working /\ Asking /\ names \in Nat /\ names <= names' /\ Remembered
  BY DEF Inv, Typed, Working, Remembered
<1>2. \A i \in Ids : Begun(i)' => Begun(i)
  BY DEF Begun
<1>3. \A i \in Ids : On(i)' <=> On(i)
  BY DEF On
<1>4. ASSUME NEW i \in Ids, i # id
      PROVE  Runs(i)' /\ Spared(i)
  <2>1. \A p \in partials' : p.id = i => p \in partials
    BY <1>4
  <2>2. files'[i] = files[i] /\ jobs'[i] = jobs[i] /\ Runs(i)
    BY <1>4 DEF Stays, Inv
  <2> QED
    BY <1>1, <1>3, <2>1, <2>2, RunsKept DEF Spared
<1>5. \A i \in Ids : Runs(i)' /\ (On(i) => Spared(i))
  BY <1>4
<1>6. ASSUME NEW r \in reports'
      PROVE  Listed(r)'
  <2>1. r \in reports /\ Listed(r) /\ r.job.id \in Ids
    BY DEF Inv, Listed
  <2>2. Spared(r.job.id)
    BY <1>5, <2>1 DEF On
  <2> QED
    BY <1>1, <1>2, <2>1, <2>2, StaysListed
<1>7. Answering'
  <2>1. action # NoAction => action.report.job.id \in Ids /\ Spared(action.report.job.id)
    BY <1>1, <1>5, ActionFacts DEF On
  <2> QED
    BY <1>1, <1>2, <2>1, StaysAnswering DEF Inv
<1>8. \A r \in history'.retired : r \in history.retired /\ (On(r.job.id)' => On(r.job.id))
  BY DEF On
<1> QED
  BY <1>1, <1>2, <1>5, <1>6, <1>7, <1>8, Steady

LEMMA UnwrittenStays ==
  ASSUME Disked, UNCHANGED <<files, synced>>
  PROVE  Disked' /\ \A id \in Ids : Stays(id)
BY DEF Disked, Filed, Stays

LEMMA InvStarted ==
  ASSUME Inv, NEW id \in Ids, Started(id)
  PROVE  Inv'
<1> DEFINE next == [jobs[id] EXCEPT !.at = "ready"]
<1>1. Typed /\ Disked /\ Working
  BY DEF Inv, Typed
<1>2. /\ jobs[id].at = "starting" /\ jobs' = [jobs EXCEPT ![id] = next]
      /\ UNCHANGED <<files, synced, partials, up, session, nextId, names, reports, action,
                     faults, history>>
  BY DEF Started, disk, dialog
<1>3. jobs[id] \in Jobs /\ jobs[id].step >= 1 /\ names \in Nat
  BY <1>1, <1>2, JobFacts
<1>4. /\ next \in Jobs /\ next.at = "ready" /\ next.step = jobs[id].step
      /\ next.plan = jobs[id].plan
  BY <1>3 DEF Jobs, Places
<1> HIDE DEF next
<1>5. Disked' /\ \A i \in Ids : Stays(i)
  BY <1>1, <1>2, UnwrittenStays
<1>6. jobs'[id] = next /\ \A other \in Ids : other # id => jobs'[other] = jobs[other]
  BY <1>1, <1>2 DEF Working
<1>7. Typed'
  <2>1. next.at \notin Named
    BY <1>4 DEF Named
  <2>2. names' \in Nat /\ names <= names' /\ \A p \in partials' : p \in partials
    BY <1>2, <1>3
  <2>3. UNCHANGED <<up, session, nextId, reports, action, faults, history>>
    BY <1>2
  <2>4. jobs[id].at # "none" /\ next.step >= 1 /\ next \in Jobs
    BY <1>2, <1>3, <1>4
  <2> QED
    BY <1>1, <1>2, <1>5, <2>1, <2>2, <2>3, <2>4, TypedJob
<1>8. Begun(id)
  BY <1>2 DEF Begun
<1>9. Runs(id)'
  <2>1. ~files[id].open /\ (Fresh(id) \/ Behind(id))
    BY <1>8, BegunFacts
  <2>2. CASE Behind(id)
    BY <1>2, <1>4, <1>6, <2>1, <2>2 DEF Runs, Behind, Named
  <2>3. CASE Fresh(id)
    <3>1. Intending(files[id].lines, next)
      BY <1>2, <1>4, <2>3 DEF Fresh, Intending, Named
    <3>2. ~On(id)'
      BY <1>2, <2>3 DEF Fresh, On
    <3>3. Fresh(id)'
      BY <1>2, <1>4, <1>6, <2>3, <3>1, <3>2 DEF Fresh
    <3> QED
      BY <1>2, <2>1, <3>3 DEF Runs
  <2> QED
    BY <2>1, <2>2, <2>3
<1>10. partials' = partials /\ Spared(id)
  BY <1>2 DEF Spared
<1> QED
  BY <1>2, <1>5, <1>6, <1>7, <1>8, <1>9, <1>10, JobTurns

LEMMA InvPublishes ==
  ASSUME Inv, NEW id \in Ids, Publishes(id)
  PROVE  Inv'
<1> DEFINE next == [jobs[id] EXCEPT !.at = "published"]
<1>1. Typed /\ Disked /\ Working
  BY DEF Inv, Typed
<1>2. /\ jobs[id].at = "staged" /\ jobs' = [jobs EXCEPT ![id] = next]
      /\ partials' = partials \ {[id |-> id, name |-> jobs[id].name]}
      /\ UNCHANGED <<files, synced, up, session, nextId, names, reports, action, faults, history>>
  BY DEF Publishes, dialog
<1>3. jobs[id] \in Jobs /\ jobs[id].step >= 1 /\ names \in Nat /\ jobs[id].name \in 1..names
  BY <1>1, <1>2, JobFacts DEF Named
<1>4. /\ next \in Jobs /\ next.at = "published" /\ next.step = jobs[id].step
      /\ next.plan = jobs[id].plan /\ next.name = jobs[id].name
  BY <1>3 DEF Jobs, Places
<1> HIDE DEF next
<1>5. Disked' /\ \A i \in Ids : Stays(i)
  BY <1>1, <1>2, UnwrittenStays
<1>6. jobs'[id] = next /\ \A other \in Ids : other # id => jobs'[other] = jobs[other]
  BY <1>1, <1>2 DEF Working
<1>7. Typed'
  <2>1. next.name \in 1..names'
    BY <1>2, <1>3, <1>4
  <2>2. names' \in Nat /\ names <= names' /\ \A p \in partials' : p \in partials
    BY <1>2, <1>3
  <2>3. UNCHANGED <<up, session, nextId, reports, action, faults, history>>
    BY <1>2
  <2>4. jobs[id].at # "none" /\ next.step >= 1 /\ next \in Jobs
    BY <1>2, <1>3, <1>4
  <2> QED
    BY <1>1, <1>2, <1>5, <2>1, <2>2, <2>3, <2>4, TypedJob
<1>8. Begun(id)
  BY <1>2 DEF Begun
<1>9. Runs(id)'
  <2>1. ~files[id].open /\ (Fresh(id) \/ Behind(id))
    BY <1>8, BegunFacts
  <2>2. CASE Behind(id)
    BY <1>2, <1>4, <1>6, <2>1, <2>2 DEF Runs, Behind, Named
  <2>3. CASE Fresh(id)
    <3>1. Intending(files[id].lines, next)
      BY <1>2, <1>4, <2>3 DEF Fresh, Intending, Named
    <3>2. ~On(id)'
      BY <1>2, <2>3 DEF Fresh, On
    <3>3. ASSUME NEW p \in partials', p.id = id
          PROVE  p.name \in history'.handed
      <4>1. p \in partials /\ p # [id |-> id, name |-> jobs[id].name]
        BY <1>2
      <4>2. p.name # jobs[id].name
        <5>1. p = [id |-> p.id, name |-> p.name]
          BY <1>1, <4>1 DEF Working
        <5> QED
          BY <3>3, <4>1, <5>1
      <4> QED
        BY <1>2, <2>3, <3>3, <4>1, <4>2 DEF Fresh
    <3>4. Fresh(id)'
      BY <1>2, <1>4, <1>6, <2>3, <3>1, <3>2, <3>3 DEF Fresh
    <3> QED
      BY <1>2, <2>1, <3>4 DEF Runs
  <2> QED
    BY <2>1, <2>2, <2>3
<1>10. Spared(id) /\ \A p \in partials' : p \in partials
  BY <1>2 DEF Spared
<1> QED
  BY <1>2, <1>5, <1>6, <1>7, <1>8, <1>9, <1>10, JobTurns

LEMMA InvStages ==
  ASSUME Inv, NEW id \in Ids, Stages(id)
  PROVE  Inv'
<1> DEFINE next == [jobs[id] EXCEPT !.at = "staged"]
           new == [id |-> id, name |-> jobs[id].name]
           L == files[id].lines
<1>1. Typed /\ Disked /\ Working
  BY DEF Inv, Typed
<1>2. /\ jobs[id].at = "intent" /\ jobs' = [jobs EXCEPT ![id] = next]
      /\ synced[id] = Len(L) /\ partials' = partials \cup {new}
      /\ UNCHANGED <<files, synced, up, session, nextId, names, reports, action, faults, history>>
  BY DEF Stages, dialog, Synced
<1>3. /\ jobs[id] \in Jobs /\ jobs[id].step >= 1 /\ names \in Nat /\ jobs[id].name \in 1..names
      /\ jobs[id].step \in Nat
  BY <1>1, <1>2, JobFacts DEF Named
<1>4. /\ next \in Jobs /\ next.at = "staged" /\ next.step = jobs[id].step
      /\ next.plan = jobs[id].plan /\ next.name = jobs[id].name
  BY <1>3 DEF Jobs, Places
<1>5. new.id = id /\ new.name = jobs[id].name /\ new \in [id : Ids, name : Nat]
  BY <1>3
<1> HIDE DEF next, new
<1>6. Disked' /\ \A i \in Ids : Stays(i)
  BY <1>1, <1>2, UnwrittenStays
<1>7. jobs'[id] = next /\ \A other \in Ids : other # id => jobs'[other] = jobs[other]
  BY <1>1, <1>2 DEF Working
<1>8. Typed'
  <2>1. next.name \in 1..names'
    BY <1>2, <1>3, <1>4
  <2>2. names' \in Nat /\ names <= names'
    BY <1>2, <1>3
  <2>3. UNCHANGED <<up, session, nextId, reports, action, faults, history>>
    BY <1>2
  <2>4. jobs[id].at # "none" /\ next.step >= 1 /\ next \in Jobs
    BY <1>2, <1>3, <1>4
  <2>5. \A p \in partials' :
          p \in partials \/ (p \in [id : Ids, name : Nat] /\ p.name \in 1..names')
    BY <1>2, <1>3, <1>5
  <2> QED
    BY <1>1, <1>2, <1>6, <2>1, <2>2, <2>3, <2>4, <2>5, TypedJob
<1>9. Begun(id)
  BY <1>2 DEF Begun
<1>10. ~files[id].open /\ L # << >> /\ (Fresh(id) \/ Behind(id))
  BY <1>9, BegunFacts
<1>11. L \in Seq(Lines) /\ Len(L) \in Nat /\ Durable(id, Len(L))'
  <2>1. L \in Seq(Lines) /\ Len(L) \in Nat
    BY <1>1, FileFacts
  <2> QED
    BY <1>2, <1>10, <2>1 DEF Durable
<1>12. CASE Behind(id)
  <2>1. Lost(id)'
    BY <1>2, <1>11, <1>12 DEF Lost, Behind, Named
  <2>2. Runs(id)'
    BY <1>2, <1>4, <1>7, <1>10, <1>12 DEF Runs, Behind, Named
  <2>3. Spared(id) /\ \A p \in partials' : p \in partials \/ (p.id = id /\ Accounted(p)')
    BY <1>2, <1>5, <2>1 DEF Spared, Accounted
  <2> QED
    BY <1>2, <1>6, <1>7, <1>8, <1>9, <2>2, <2>3, JobTurns
<1>13. CASE Fresh(id)
  <2>1. ~On(id) /\ ~On(id)' /\ ~Broken(L)
    BY <1>2, <1>13 DEF Fresh, On
  <2>2. Intending(L, next)
    BY <1>2, <1>4, <1>13 DEF Fresh, Intending, Named
  <2>3. \A p \in partials' : p.id = id =>
          p.name \in history'.handed \/ (next.at = "staged" /\ p.name = next.name)
    BY <1>2, <1>4, <1>5, <1>13 DEF Fresh
  <2>4. Fresh(id)'
    BY <1>2, <1>4, <1>7, <1>13, <2>1, <2>2, <2>3 DEF Fresh
  <2>5. Runs(id)'
    BY <1>2, <1>10, <2>4 DEF Runs
  <2>6. PICK k \in 1..Len(L) :
          /\ L[k] = Intent(jobs[id].step, jobs[id].name)
          /\ \A j \in 1..Len(L) : j # k /\ L[j].type \in {"Intent", "Completion"} =>
                L[j].step < jobs[id].step
    BY <1>2, <1>13 DEF Fresh, Intending, Named
  <2>7. L[k].type = "Intent" /\ L[k].step = jobs[id].step /\ L[k].partial = new.name
    BY <1>5, <2>6 DEF Intent
  <2>8. \A j \in 1..Len(L) : j # k => ~Speaks(L, j, L[k].step)
    BY <1>3, <2>6, <2>7 DEF Speaks
  <2>9. Announces(L, k, new.name)
    BY <1>11, <2>1, <2>7, <2>8, UnbrokenClear DEF Announces
  <2>10. k \in Nat /\ Durable(id, k)'
    BY <1>2, <1>10, <1>11 DEF Durable
  <2>11. ASSUME NEW p \in partials', p \notin partials
         PROVE  p.id = id /\ Accounted(p)'
    <3>1. p.id = id /\ p.name = new.name
      BY <1>2, <1>5, <2>11
    <3>2. Announces(files'[p.id].lines, k, p.name)
      BY <1>2, <2>9, <3>1
    <3>3. Durable(p.id, k)'
      BY <2>10, <3>1 DEF Durable
    <3>4. Announced(p)'
      BY <2>10, <3>2, <3>3 DEF Announced, Announces, Speaks, Clear, Break
    <3> QED
      BY <3>1, <3>4 DEF Accounted
  <2>13. \A p \in partials' : p \in partials \/ (p.id = id /\ Accounted(p)')
    BY <2>11
  <2> QED
    BY <1>2, <1>6, <1>7, <1>8, <1>9, <2>1, <2>5, <2>13, JobTurns
<1> QED
  BY <1>10, <1>12, <1>13

LEMMA InvSync ==
  ASSUME Inv, NEW id \in Ids, Sync(id)
  PROVE  Inv'
<1>1. Typed /\ Disked /\ Working /\ Asking /\ Living /\ names \in Nat
  BY DEF Inv, Typed, Working
<1>2. /\ synced' = [synced EXCEPT ![id] = Len(files[id].lines)]
      /\ UNCHANGED <<files, partials, up, session, nextId, jobs, names, reports, action,
                     faults, history>>
  BY DEF Sync, queue, dialog
<1>3. synced \in [Ids -> Nat] /\ \A i \in Ids : Len(files[i].lines) \in Nat
  BY <1>1, FileFacts DEF Disked
<1>4. synced' \in [Ids -> Nat] /\ \A i \in Ids : Stays(i)
  BY <1>2, <1>3 DEF Stays
<1>5. Disked'
  BY <1>1, <1>2, <1>3, <1>4 DEF Disked, Filed, Stays
<1>6. Typed'
  BY <1>1, <1>2, <1>5 DEF Typed, Working, Employed, Asking, Living
<1>7. Remembered /\ names <= names' /\ \A i \in Ids : Spared(i)
  BY <1>1, <1>2 DEF Remembered, Spared
<1>8. \A i \in Ids : (Begun(i)' => Begun(i)) /\ (On(i)' => On(i))
  BY <1>2 DEF Begun, On
<1>9. \A i \in Ids : Runs(i)'
  BY <1>2, <1>7, <1>8, RunsKept DEF Inv
<1>10. ASSUME NEW r \in reports'
       PROVE  Listed(r)'
  <2>1. Listed(r) /\ r.job.id \in Ids
    BY <1>2 DEF Inv, Listed
  <2> QED
    BY <1>1, <1>4, <1>7, <1>8, <2>1, StaysListed
<1>11. Answering'
  BY <1>1, <1>2, <1>4, <1>7, <1>8, ActionFacts, StaysAnswering DEF Inv
<1>12. \A r \in history'.retired : r \in history.retired /\ (On(r.job.id)' => On(r.job.id))
  BY <1>2 DEF On
<1> QED
  BY <1>2, <1>4, <1>6, <1>7, <1>8, <1>9, <1>10, <1>11, <1>12, Steady

-----------------------------------------------------------------------------
(* What a report has the dialog do.                                        *)
LEMMA InOrderFacts ==
  ASSUME NEW n \in Nat, NEW steps, Within(steps, n), steps # {}
  PROVE  /\ Cardinality(steps) \in Nat /\ Cardinality(steps) >= 1
         /\ Len(InOrder(steps)) = Cardinality(steps)
         /\ \A i \in 1..Cardinality(steps) :
              InOrder(steps)[i] \in steps /\ InOrder(steps)[i] \in 1..n
         /\ \A s \in steps : \E i \in 1..Cardinality(steps) : InOrder(steps)[i] = s
<1>1. Cardinality(steps) \in Nat
  BY RankFacts
<1>2. Len(InOrder(steps)) = Cardinality(steps)
  BY <1>1, LenProperties DEF InOrder
<1>3. \A i \in 1..Cardinality(steps) : InOrder(steps)[i] = Nth(steps, i)
  BY DEF InOrder
<1>4. \A i \in 1..Cardinality(steps) : Nth(steps, i) \in steps /\ Nth(steps, i) \in 1..n
  BY NthFacts
<1>5. \A s \in steps : \E i \in 1..Cardinality(steps) : Nth(steps, i) = s
  BY NthOfRank
<1>6. Cardinality(steps) >= 1
  BY <1>1, <1>5
<1> QED
  BY <1>1, <1>2, <1>3, <1>4, <1>5, <1>6

LEMMA ResolutionFacts ==
  ASSUME NEW r \in Reports, r.incomplete # {}, r.incomplete \subseteq 1..Len(r.job.plan)
  PROVE  /\ Resolution(r) \in Seq(Lines) /\ Len(Resolution(r)) \in Nat /\ Len(Resolution(r)) >= 2
         /\ \A i \in 1..Len(Resolution(r)) :
              Resolution(r)[i].type \in {"Completion", "JobFinished"}
         /\ r.incomplete \subseteq ToDo(Resolution(r))
         /\ Remainder(r) \in Seq(Items)
<1> DEFINE steps == r.incomplete
           c == Cardinality(steps)
           redo == InOrder(steps)
           skips == [i \in 1..Len(redo) |-> Completion(redo[i], "Skipped")]
           end == <<JobFinished("Cancelled")>>
           plan == r.job.plan
<1>1. plan \in Seq(Items) /\ Len(plan) \in Nat /\ steps # {}
  BY ReportFacts, LenProperties
<1>2. Within(steps, Len(plan))
  BY <1>1 DEF Within
<1>3. /\ c \in Nat /\ c >= 1 /\ Len(redo) = c
      /\ \A i \in 1..c : redo[i] \in steps /\ redo[i] \in 1..Len(plan)
      /\ \A s \in steps : \E i \in 1..c : redo[i] = s
  BY <1>1, <1>2, InOrderFacts
<1>4. Remainder(r) = [i \in 1..Len(redo) |-> plan[redo[i]]]
  BY DEF Remainder
<1>5. Resolution(r) = skips \o end
  BY DEF Resolution
<1> HIDE DEF redo, steps, c
<1>6. \A i \in 1..c : redo[i] \in Nat /\ plan[redo[i]] \in Items
  BY <1>1, <1>3, ElementOfSeq
<1>7. Remainder(r) \in Seq(Items)
  <2>1. [i \in 1..c |-> plan[redo[i]]] \in Seq(Items)
    BY <1>3, <1>6
  <2> QED
    BY <1>3, <1>4, <2>1
<1>8. /\ skips \in Seq(Lines) /\ Len(skips) = c
      /\ \A i \in 1..c : skips[i] = Completion(redo[i], "Skipped")
  <2>1. \A i \in 1..c : Completion(redo[i], "Skipped") \in Lines
    BY <1>6, Recorded
  <2>2. skips = [i \in 1..c |-> Completion(redo[i], "Skipped")]
    BY <1>3
  <2>3. skips \in Seq(Lines)
    BY <1>3, <2>1, <2>2
  <2>4. Len(skips) = c
    BY <1>3, <2>2, <2>3
  <2> QED
    BY <2>2, <2>3, <2>4
<1>9. end \in Seq(Lines) /\ Len(end) = 1 /\ end[1] = JobFinished("Cancelled")
  BY Recorded
<1> HIDE DEF skips, end
<1> DEFINE todo == skips \o end
<1>10. /\ todo \in Seq(Lines) /\ Len(todo) = c + 1
       /\ \A i \in 1..c : todo[i] = skips[i]
       /\ todo[c + 1] = end[1]
  <2>1. /\ todo \in Seq(Lines) /\ Len(todo) = Len(skips) + Len(end)
        /\ \A i \in 1..(Len(skips) + Len(end)) :
             todo[i] = IF i <= Len(skips) THEN skips[i] ELSE end[i - Len(skips)]
    BY <1>8, <1>9, ConcatProperties
  <2>2. c + 1 \in 1..(c + 1) /\ ~(c + 1 <= c) /\ (c + 1) - c = 1
        /\ \A i \in 1..c : i \in 1..(c + 1) /\ i <= c
    BY <1>3
  <2> QED
    BY <1>3, <1>8, <1>9, <2>1, <2>2
<1> HIDE DEF todo
<1>11. \A i \in 1..c : todo[i].type = "Completion" /\ todo[i].step = redo[i]
  BY <1>8, <1>10 DEF Completion
<1>12. todo[c + 1].type = "JobFinished"
  BY <1>9, <1>10 DEF JobFinished
<1>13. \A i \in 1..Len(todo) : todo[i].type \in {"Completion", "JobFinished"}
  <2>1. \A i \in 1..(c + 1) : i \in 1..c \/ i = c + 1
    BY <1>3
  <2> QED
    BY <1>10, <1>11, <1>12, <2>1
<1>14. ASSUME NEW s \in steps
       PROVE  s \in ToDo(todo)
  <2>1. PICK i \in 1..c : redo[i] = s
    BY <1>3
  <2>2. i \in 1..Len(todo) /\ todo[i].type = "Completion" /\ todo[i].step = s
    BY <1>3, <1>10, <1>11, <2>1
  <2> QED
    BY <2>2 DEF ToDo
<1>15. Resolution(r) = todo
  BY <1>5 DEF todo
<1> QED
  BY <1>3, <1>7, <1>10, <1>13, <1>14, <1>15 DEF steps

LEMMA FollowsMore ==
  ASSUME NEW file, NEW at, NEW rest, NEW left \in Nat, FollowsOn(file, at, rest, left),
         NEW rest2, NEW left2 \in Nat, rest \subseteq rest2, left <= left2
  PROVE  FollowsOn(file, at, rest2, left2)
BY DEF FollowsOn, Pending

(* A new job is enqueued.                                                  *)
LEMMA SpawnFacts ==
  ASSUME Inv, NEW plan \in Seq(Items), Spawn(plan), up,
         UNCHANGED <<files, synced, partials, up, session, faults>>,
         \A id \in Ids : On(id)' => On(id), Remembered
  PROVE  /\ Disked' /\ Working' /\ Living' /\ names' = names /\ names \in Nat
         /\ \A id \in Ids : /\ Stays(id) /\ (Begun(id)' => Begun(id)) /\ Spared(id)
                            /\ Runs(id)'
<1> DEFINE next == [at |-> "opened", plan |-> plan, step |-> 1, name |-> 0]
<1>1. Disked /\ Working /\ Living /\ Typed
  BY DEF Inv, Typed
<1>2. nextId \in Ids /\ jobs' = [jobs EXCEPT ![nextId] = next] /\ nextId' = nextId + 1
      /\ names' = names
  BY DEF Spawn
<1>3. next \in Jobs /\ next.at = "opened" /\ next.step = 1
  BY DEF Jobs, Places
<1> HIDE DEF next
<1>4. /\ jobs' \in [Ids -> Jobs] /\ jobs'[nextId] = next
      /\ \A id \in Ids : id # nextId => jobs'[id] = jobs[id]
  BY <1>1, <1>2, <1>3 DEF Working
<1>5. Disked' /\ \A id \in Ids : Stays(id)
  BY <1>1, UnwrittenStays
<1>6. ASSUME NEW id \in Ids
      PROVE  Employed(id)'
  <2>1. CASE id = nextId
    BY <1>3, <1>4, <2>1 DEF Employed, Named
  <2>2. CASE id # nextId
    BY <1>1, <1>2, <1>4, <2>2 DEF Employed, Working
  <2> QED
    BY <2>1, <2>2
<1>7. Working'
  BY <1>1, <1>2, <1>4, <1>6 DEF Working
<1>8. Living'
  BY <1>1 DEF Living
<1>9. ASSUME NEW id \in Ids
      PROVE  (Begun(id)' => Begun(id)) /\ Spared(id) /\ Runs(id)'
  <2>1. CASE id = nextId
    BY <1>3, <1>4, <2>1 DEF Begun, Spared, Runs
  <2>2. CASE id # nextId
    <3>1. files'[id] = files[id] /\ jobs'[id] = jobs[id] /\ Runs(id) /\ partials' = partials
      BY <1>4, <2>2 DEF Inv
    <3>2. Runs(id)'
      BY <3>1, RunsKept
    <3> QED
      BY <3>1, <3>2 DEF Begun, Spared
  <2> QED
    BY <2>1, <2>2
<1> QED
  BY <1>1, <1>2, <1>5, <1>7, <1>8, <1>9 DEF Working

LEMMA InvEnqueue ==
  ASSUME Inv, NEW plan \in Plans, Enqueue(plan)
  PROVE  Inv'
<1>1. Disked /\ Working /\ Asking /\ Living
  BY DEF Inv, Typed
<1>2. /\ up /\ Spawn(plan) /\ history' = [history EXCEPT !.asked = @ \cup ToSet(plan)]
      /\ UNCHANGED <<files, synced, partials, up, session, reports, action, faults>>
  BY DEF Enqueue, disk, dialog
<1>3. plan \in Seq(Items) /\ ToSet(plan) \subseteq Items
  BY RecoveryAssumption DEF RecoveryAssumption, Items
<1>4. /\ history' \in [asked : SUBSET Items, handed : SUBSET Nat, retired : SUBSET Reports]
      /\ history'.handed = history.handed /\ history'.retired = history.retired
  BY <1>1, <1>2, <1>3 DEF Asking
<1>5. (\A id \in Ids : On(id)' => On(id)) /\ Remembered
  BY <1>2, <1>4 DEF On, Remembered
<1>6. /\ Disked' /\ Working' /\ Living' /\ names' = names /\ names \in Nat
      /\ \A id \in Ids : /\ Stays(id) /\ (Begun(id)' => Begun(id)) /\ Spared(id)
                         /\ Runs(id)'
  BY <1>2, <1>3, <1>5, SpawnFacts
<1>7. Asking'
  BY <1>1, <1>2, <1>4 DEF Asking
<1>8. ASSUME NEW r \in reports'
      PROVE  Listed(r)'
  <2>1. Listed(r) /\ r.job.id \in Ids
    BY <1>2 DEF Inv, Listed
  <2> QED
    BY <1>1, <1>5, <1>6, <2>1, StaysListed
<1>9. Answering'
  BY <1>1, <1>2, <1>5, <1>6, ActionFacts, StaysAnswering DEF Inv
<1>10. \A r \in history'.retired : r \in history.retired /\ (On(r.job.id)' => On(r.job.id))
  BY <1>2, <1>4 DEF On
<1>11. Typed' /\ names <= names' /\ \A p \in partials' : p \in partials
  BY <1>2, <1>6, <1>7 DEF Typed
<1> QED
  BY <1>5, <1>6, <1>8, <1>9, <1>10, <1>11, Steady

-----------------------------------------------------------------------------
(* The dialog.                                                             *)
LEMMA BeginFacts ==
  ASSUME Inv, NEW r \in reports, NEW kind \in {"resume", "discard"}, NEW doomed \in SUBSET Nat,
         Begin(kind, r, doomed), reports' = reports
  PROVE  /\ action' \in Actions /\ action'.report = r /\ action'.doomed = doomed
         /\ action'.todo = Resolution(r)
         /\ r \in Reports /\ r.job.id \in Ids /\ Listed(r)
         /\ Resolution(r) \in Seq(Lines) /\ Len(Resolution(r)) \in Nat /\ Len(Resolution(r)) >= 2
         /\ \A i \in 1..Len(Resolution(r)) :
              Resolution(r)[i].type \in {"Completion", "JobFinished"}
         /\ r.incomplete \subseteq ToDo(Resolution(r))
         /\ Remainder(r) \in Seq(Items)
         /\ \A id \in Ids : On(id)' => On(id)
<1>1. r \in Reports /\ Listed(r)
  BY DEF Inv, Typed, Asking
<1>2. r.incomplete # {} /\ r.incomplete \subseteq 1..Len(r.job.plan) /\ r.job.id \in Ids
  BY <1>1 DEF Listed
<1> DEFINE todo == Resolution(r)
<1>3. /\ todo \in Seq(Lines) /\ Len(todo) \in Nat /\ Len(todo) >= 2
      /\ \A i \in 1..Len(todo) : todo[i].type \in {"Completion", "JobFinished"}
      /\ r.incomplete \subseteq ToDo(todo)
      /\ Remainder(r) \in Seq(Items)
  BY <1>1, <1>2, ResolutionFacts
<1>4. action' = [kind |-> kind, report |-> r, doomed |-> doomed, todo |-> todo]
  BY DEF Begin
<1> HIDE DEF todo
<1>5. action' \in Actions /\ action'.report = r /\ action'.doomed = doomed /\ action'.todo = todo
  BY <1>1, <1>3, <1>4 DEF Actions
<1>6. \A id \in Ids : On(id)' => On(id)
  BY <1>5 DEF On
<1> QED
  BY <1>1, <1>2, <1>3, <1>5, <1>6 DEF todo

LEMMA BeginAnswers ==
  ASSUME Inv, NEW r, r.job.id \in Ids, Listed(r),
         action'.report = r,
         Resolution(r) \in Seq(Lines), Len(Resolution(r)) \in Nat, Len(Resolution(r)) >= 2,
         \A i \in 1..Len(Resolution(r)) : Resolution(r)[i].type \in {"Completion", "JobFinished"},
         r.incomplete \subseteq ToDo(Resolution(r)),
         action'.todo = Resolution(r),
         NEW doomed, action'.doomed = doomed,
         NamesOf(r.orphans) \subseteq doomed \cup history'.handed,
         \A id \in Ids : Stays(id) /\ (Begun(id)' => Begun(id)) /\ Spared(id),
         Remembered
  PROVE  Answering'
<1> DEFINE id == r.job.id
           todo == Resolution(r)
<1>1. Disked
  BY DEF Inv, Typed
<1>2. FollowsOn(files[id], jobs[id].at, r.incomplete, 2) /\ Covered(id, NamesOf(r.orphans))
  BY DEF Listed, Follows
<1>3. FollowsOn(files'[id], jobs'[id].at, r.incomplete, 2)
  BY <1>2, StaysFollows
<1>4. FollowsOn(files'[id], jobs'[id].at, ToDo(todo), Len(todo))
  BY <1>3, FollowsMore
<1>5. Endures(id)
  BY <1>1, StaysEndures
<1>6. \A p \in partials' : p.id = id =>
        p.name \in history'.handed \/ Lost(id)' \/ p.name \in NamesOf(r.orphans)
  BY <1>2, <1>5, CoveredKept
<1>7. \A p \in partials' : p.id = id =>
        p.name \in history'.handed \/ Lost(id)' \/ p.name \in doomed
  BY <1>6
<1> HIDE DEF todo
<1>8. \A i \in 1..Len(todo) : todo[i].type \in {"Completion", "JobFinished"}
  BY DEF todo
<1>9. action'.todo = todo
  BY DEF todo
<1> QED
  BY <1>4, <1>7, <1>8, <1>9 DEF Answering, Resolves, Covered, Follows, ToDo

LEMMA InvResume ==
  ASSUME Inv, NEW r \in reports, ResumeSelected(r)
  PROVE  Inv'
<1>1. Disked /\ Working /\ Asking /\ Living
  BY DEF Inv, Typed
<1>2. /\ Spawn(Remainder(r)) /\ Begin("resume", r, {})
      /\ history' = [history EXCEPT !.handed = @ \cup {o[2] : o \in r.orphans}]
      /\ UNCHANGED <<files, synced, partials, up, session, reports, faults>>
  BY DEF ResumeSelected, disk
<1>3. /\ action' \in Actions /\ action'.report = r /\ action'.doomed = {}
      /\ action'.todo = Resolution(r)
      /\ r \in Reports /\ r.job.id \in Ids /\ Listed(r)
      /\ Resolution(r) \in Seq(Lines) /\ Len(Resolution(r)) \in Nat /\ Len(Resolution(r)) >= 2
      /\ \A i \in 1..Len(Resolution(r)) :
           Resolution(r)[i].type \in {"Completion", "JobFinished"}
      /\ r.incomplete \subseteq ToDo(Resolution(r))
      /\ Remainder(r) \in Seq(Items)
      /\ \A id \in Ids : On(id)' => On(id)
  <2>1. {} \in SUBSET Nat /\ "resume" \in {"resume", "discard"} /\ reports' = reports
    BY <1>2
  <2> QED
    BY <1>2, <2>1, BeginFacts
<1>4. NamesOf(r.orphans) \subseteq Nat
  BY <1>3, ReportFacts DEF NamesOf
<1>5. /\ history' \in [asked : SUBSET Items, handed : SUBSET Nat, retired : SUBSET Reports]
      /\ history'.handed = history.handed \cup NamesOf(r.orphans)
      /\ history'.retired = history.retired
  BY <1>1, <1>2, <1>4 DEF Asking, NamesOf
<1>6. Remembered /\ up
  BY <1>1, <1>5 DEF Remembered, Living
<1>7. /\ Disked' /\ Working' /\ Living' /\ names' = names /\ names \in Nat
      /\ \A id \in Ids : /\ Stays(id) /\ (Begun(id)' => Begun(id)) /\ Spared(id)
                         /\ Runs(id)'
  BY <1>2, <1>3, <1>6, SpawnFacts
<1>8. Asking'
  BY <1>1, <1>2, <1>3, <1>5 DEF Asking
<1>9. ASSUME NEW s \in reports'
      PROVE  Listed(s)'
  <2>1. Listed(s) /\ s.job.id \in Ids
    BY <1>2 DEF Inv, Listed
  <2> QED
    BY <1>1, <1>6, <1>7, <2>1, StaysListed
<1>10. Answering'
  <2>1. NamesOf(r.orphans) \subseteq {} \cup history'.handed
    BY <1>5
  <2> QED
    BY <1>3, <1>6, <1>7, <2>1, BeginAnswers
<1>11. \A s \in history'.retired : s \in history.retired /\ (On(s.job.id)' => On(s.job.id))
  BY <1>3, <1>5 DEF Inv, Gone
<1>12. Typed' /\ names <= names' /\ \A p \in partials' : p \in partials
  BY <1>2, <1>7, <1>8 DEF Typed
<1> QED
  BY <1>6, <1>7, <1>9, <1>10, <1>11, <1>12, Steady

(* A step that leaves the disk and the jobs as they are.                   *)
LEMMA Quiet ==
  ASSUME Inv, UNCHANGED <<files, synced, up, session, nextId, jobs, names>>,
         partials' \subseteq partials, faults' \in Nat,
         reports' \subseteq reports, \A id \in Ids : On(id)' => On(id), Remembered,
         action' = NoAction \/ action' \in Actions,
         ~up => action' = NoAction,
         history' \in [asked : SUBSET Items, handed : SUBSET Nat, retired : SUBSET Reports]
  PROVE  /\ Typed' /\ names <= names' /\ Disked /\ Asking
         /\ \A id \in Ids : /\ Stays(id) /\ (Begun(id)' => Begun(id)) /\ Spared(id)
                            /\ Runs(id)'
         /\ \A r \in reports' : Listed(r)'
<1>1. Disked /\ Working /\ Asking /\ Living /\ names \in Nat
  BY DEF Inv, Typed, Working
<1>2. Disked' /\ \A id \in Ids : Stays(id)
  BY <1>1, UnwrittenStays
<1>3. ASSUME NEW id \in Ids
      PROVE  (Begun(id)' => Begun(id)) /\ Spared(id) /\ Runs(id)'
  <2>1. (Begun(id)' => Begun(id)) /\ Spared(id)
    BY DEF Begun, Spared
  <2>2. Runs(id) /\ files'[id] = files[id] /\ jobs'[id] = jobs[id]
        /\ \A p \in partials' : p.id = id => p \in partials
    BY DEF Inv
  <2> QED
    BY <2>1, <2>2, RunsKept
<1>4. ASSUME NEW r \in reports'
      PROVE  Listed(r)'
  <2>1. Listed(r) /\ r.job.id \in Ids
    BY DEF Inv, Listed
  <2> QED
    BY <1>1, <1>2, <1>3, <2>1, StaysListed
<1>5. Working'
  BY <1>1 DEF Working, Employed
<1>6. Asking'
  BY <1>1 DEF Asking
<1>7. Living'
  BY <1>1 DEF Living
<1> QED
  BY <1>1, <1>2, <1>3, <1>4, <1>5, <1>6, <1>7 DEF Typed

LEMMA InvDiscard ==
  ASSUME Inv, NEW r \in reports, DiscardSelected(r)
  PROVE  Inv'
<1> DEFINE doomed == NamesOf(r.orphans)
<1>1. /\ Begin("discard", r, doomed)
      /\ UNCHANGED <<files, synced, partials, up, session, nextId, jobs, names, reports, faults,
                     history>>
  BY DEF DiscardSelected, disk, queue, NamesOf
<1>2. Asking /\ Living
  BY DEF Inv, Typed
<1>3. doomed \in SUBSET Nat
  BY <1>2, ReportFacts DEF NamesOf, Asking
<1> HIDE DEF doomed
<1>4. /\ action' \in Actions /\ action'.report = r /\ action'.doomed = doomed
      /\ action'.todo = Resolution(r)
      /\ r \in Reports /\ r.job.id \in Ids /\ Listed(r)
      /\ Resolution(r) \in Seq(Lines) /\ Len(Resolution(r)) \in Nat /\ Len(Resolution(r)) >= 2
      /\ \A i \in 1..Len(Resolution(r)) :
           Resolution(r)[i].type \in {"Completion", "JobFinished"}
      /\ r.incomplete \subseteq ToDo(Resolution(r))
      /\ \A id \in Ids : On(id)' => On(id)
  <2>1. "discard" \in {"resume", "discard"} /\ reports' = reports
    BY <1>1
  <2> QED
    BY <1>1, <1>3, <2>1, BeginFacts
<1>5. /\ Typed' /\ names <= names'
      /\ \A id \in Ids : /\ Stays(id) /\ (Begun(id)' => Begun(id)) /\ Spared(id)
                         /\ Runs(id)'
      /\ \A s \in reports' : Listed(s)'
  BY <1>1, <1>2, <1>4, Quiet DEF Remembered, Living, Asking
<1>6. Answering'
  <2>1. NamesOf(r.orphans) \subseteq doomed \cup history'.handed
    BY DEF doomed
  <2>2. Remembered
    BY <1>1 DEF Remembered
  <2> QED
    BY <1>4, <1>5, <2>1, <2>2, BeginAnswers
<1>7. \A s \in history'.retired : s \in history.retired /\ (On(s.job.id)' => On(s.job.id))
  BY <1>1, <1>4 DEF Inv, Gone
<1> QED
  BY <1>1, <1>5, <1>6, <1>7, Steady DEF Remembered

LEMMA InvRemoves ==
  ASSUME Inv, Removes
  PROVE  Inv'
<1>1. PICK name \in action.doomed :
        /\ partials' = {p \in partials : p.name # name}
        /\ action' = [action EXCEPT !.doomed = @ \ {name}]
  BY DEF Removes
<1>2. /\ action # NoAction
      /\ UNCHANGED <<files, synced, up, session, nextId, jobs, names, reports, faults, history>>
  BY DEF Removes, Busy, queue
<1>3. Asking /\ Living /\ action \in Actions
  BY <1>2 DEF Inv, Typed, Asking
<1>4. /\ action' \in Actions /\ action'.report = action.report
      /\ action'.doomed = action.doomed \ {name} /\ action'.todo = action.todo
  BY <1>1, <1>3 DEF Actions
<1>5. \A id \in Ids : On(id)' => On(id)
  BY <1>2, <1>4 DEF On
<1>6. /\ Typed' /\ names <= names' /\ Disked
      /\ \A id \in Ids : /\ Stays(id) /\ (Begun(id)' => Begun(id)) /\ Spared(id)
                         /\ Runs(id)'
      /\ \A s \in reports' : Listed(s)'
  BY <1>1, <1>2, <1>3, <1>4, <1>5, Quiet DEF Remembered, Living, Asking
<1>7. Answering'
  <2>1. action.report.job.id \in Ids /\ Resolves(action.report.job.id, action.doomed, action.todo)
    BY <1>2, <1>3, ActionFacts DEF Inv, Answering
  <2>2. PICK id \in Ids : id = action.report.job.id
    BY <2>1
  <2>3. PICK doomed \in SUBSET Nat : doomed = action.doomed
    BY <1>3 DEF Actions
  <2>4. PICK todo \in Seq(Lines) : todo = action.todo
    BY <1>3 DEF Actions
  <2>5. Resolves(id, doomed, todo)
    BY <2>1, <2>2, <2>3, <2>4
  <2>6. /\ Covered(id, doomed) /\ FollowsOn(files[id], jobs[id].at, ToDo(todo), Len(todo))
        /\ \A k \in 1..Len(todo) : todo[k].type \in {"Completion", "JobFinished"}
    BY <2>5 DEF Resolves, Follows
  <2>7. FollowsOn(files'[id], jobs'[id].at, ToDo(todo), Len(todo))
    BY <1>6, <2>6, StaysFollows
  <2>8. Endures(id) /\ Remembered /\ Spared(id)
    BY <1>2, <1>6, StaysEndures DEF Remembered
  <2>9. \A p \in partials' : p.id = id =>
          p.name \in history'.handed \/ Lost(id)' \/ p.name \in doomed
    BY <2>6, <2>8, CoveredKept
  <2>10. \A p \in partials' : p.name # name
    BY <1>1
  <2>11. action'.report.job.id = id /\ action'.doomed = doomed \ {name} /\ action'.todo = todo
    BY <1>4, <2>2, <2>3, <2>4
  <2> QED
    BY <2>6, <2>7, <2>9, <2>10, <2>11 DEF Answering, Resolves, Covered, Follows, ToDo
<1>8. \A s \in history'.retired : s \in history.retired /\ (On(s.job.id)' => On(s.job.id))
  BY <1>2, <1>5 DEF Inv, Gone
<1>9. \A p \in partials' : p \in partials
  BY <1>1
<1> QED
  BY <1>2, <1>6, <1>7, <1>8, <1>9, Steady DEF Remembered

LEMMA InvGivesUp ==
  ASSUME Inv, RemoveFails \/ ResolveFails
  PROVE  Inv'
<1>1. /\ action' = NoAction /\ faults > 0 /\ faults' = faults - 1
      /\ UNCHANGED <<files, synced, partials, up, session, nextId, jobs, names, reports, history>>
  BY DEF RemoveFails, ResolveFails, disk, queue
<1>2. Asking /\ Living
  BY DEF Inv, Typed
<1>3. faults' \in Nat
  BY <1>1, <1>2 DEF Living
<1>4. \A id \in Ids : On(id)' => On(id)
  BY <1>1 DEF On
<1>5. /\ Typed' /\ names <= names'
      /\ \A id \in Ids : /\ Stays(id) /\ (Begun(id)' => Begun(id)) /\ Spared(id)
                         /\ Runs(id)'
      /\ \A s \in reports' : Listed(s)'
  BY <1>1, <1>2, <1>3, <1>4, Quiet DEF Remembered, Asking
<1>6. Answering'
  BY <1>1 DEF Answering
<1>7. \A s \in history'.retired : s \in history.retired /\ (On(s.job.id)' => On(s.job.id))
  BY <1>1, <1>4 DEF Inv, Gone
<1> QED
  BY <1>1, <1>5, <1>6, <1>7, Steady DEF Remembered

LEMMA InvClose ==
  ASSUME Inv, Close
  PROVE  Inv'
<1>1. /\ reports' = {}
      /\ UNCHANGED <<files, synced, partials, up, session, nextId, jobs, names, action, faults,
                     history>>
  BY DEF Close, disk, queue
<1>2. Asking /\ Living
  BY DEF Inv, Typed
<1>3. \A id \in Ids : On(id)' => On(id)
  BY <1>1 DEF On
<1>4. /\ Typed' /\ names <= names' /\ Disked
      /\ \A id \in Ids : /\ Stays(id) /\ (Begun(id)' => Begun(id)) /\ Spared(id)
                         /\ Runs(id)'
      /\ \A s \in reports' : Listed(s)'
  BY <1>1, <1>2, <1>3, Quiet DEF Remembered, Asking, Living
<1>5. Remembered
  BY <1>1 DEF Remembered
<1>6. Answering'
  BY <1>1, <1>2, <1>4, <1>5, ActionFacts, StaysAnswering DEF Inv
<1>7. \A s \in history'.retired : s \in history.retired /\ (On(s.job.id)' => On(s.job.id))
  BY <1>1, <1>3 DEF Inv, Gone
<1> QED
  BY <1>1, <1>4, <1>5, <1>6, <1>7, Steady

(* A report is retired once its last record is durable.                    *)
LEMMA ResolvesSettles ==
  ASSUME Disked, NEW id \in Ids, FollowsOn(files[id], jobs[id].at, {}, 0), Synced(id)
  PROVE  Settled(id)
<1> DEFINE L == files[id].lines
           n == Len(L)
<1>1. /\ L \in Seq(Lines) /\ n \in Nat /\ n >= 1 /\ ~files[id].open /\ synced[id] = n
  BY FileFacts, EmptySeq DEF FollowsOn, Synced
<1>2. Durable(id, n)
  BY <1>1 DEF Durable
<1>3. CASE Broken(L)
  <2>1. Dead(L, n)
    BY <1>1, <1>3 DEF FollowsOn
  <2> QED
    BY <1>1, <1>2, <2>1 DEF Settled
<1>4. CASE ~Broken(L)
  <2>1. jobs[id].at \in {"none", "opened"} /\ Pending(L, {})
    BY <1>1, <1>4 DEF FollowsOn
  <2>2. \A j \in 1..n : Clear(L, j)
    BY <1>1, <1>4, UnbrokenClear
  <2>3. Resolved(L, n)
    BY <2>1, <2>2 DEF Resolved, Pending
  <2>4. ~Begun(id)
    BY <2>1 DEF Begun
  <2> QED
    BY <1>1, <1>2, <2>3, <2>4 DEF Settled
<1> QED
  BY <1>3, <1>4

LEMMA InvRetire ==
  ASSUME Inv, Retire
  PROVE  Inv'
<1> DEFINE id == action.report.job.id
<1>1. /\ action # NoAction /\ action.doomed = {} /\ Synced(id) /\ action.todo = << >>
      /\ reports' = {r \in reports : r.job.id # id}
      /\ action' = NoAction
      /\ history' = [history EXCEPT !.retired = @ \cup {action.report}]
      /\ UNCHANGED <<files, synced, partials, up, session, nextId, jobs, names, faults>>
  BY DEF Retire, Resolving, Busy, disk, queue
<1>2. Asking /\ Living /\ Disked
  BY DEF Inv, Typed
<1>3. action.report \in Reports /\ id \in Ids /\ action.todo \in Seq(Lines)
  BY <1>1, <1>2, ActionFacts
<1>4. /\ history' \in [asked : SUBSET Items, handed : SUBSET Nat, retired : SUBSET Reports]
      /\ history'.handed = history.handed
      /\ history'.retired = history.retired \cup {action.report}
  BY <1>1, <1>2, <1>3 DEF Asking
<1>5. \A i \in Ids : On(i)' => On(i)
  BY <1>1 DEF On
<1>6. /\ Typed' /\ names <= names'
      /\ \A i \in Ids : /\ Stays(i) /\ (Begun(i)' => Begun(i)) /\ Spared(i)
                        /\ Runs(i)'
      /\ \A s \in reports' : Listed(s)'
  BY <1>1, <1>2, <1>4, <1>5, Quiet DEF Remembered, Asking, Living
<1>7. Answering'
  BY <1>1 DEF Answering
<1>8. Len(action.todo) = 0 /\ ToDo(action.todo) = {}
  <2>1. Len(action.todo) = 0
    BY <1>1, <1>3, EmptySeq
  <2> QED
    BY <2>1 DEF ToDo
<1>9. FollowsOn(files[id], jobs[id].at, {}, 0)
  BY <1>1, <1>8 DEF Inv, Answering, Resolves, Follows
<1>10. Settled(id)
  BY <1>1, <1>2, <1>3, <1>9, ResolvesSettles
<1>11. ASSUME NEW i \in Ids, Settled(i)
       PROVE  Settled(i)'
  <2>1. Disked' /\ Stays(i) /\ Endures(i) /\ Shrinks(files[i].lines, files'[i].lines)
    BY <1>2, <1>6, StaysEndures DEF Typed
  <2>2. Len(files'[i].lines) = Len(files[i].lines) /\ (Begun(i)' => Begun(i))
    BY <1>1, <1>6
  <2> QED
    BY <1>2, <1>11, <2>1, <2>2, SettledCalm
<1>14. ASSUME NEW s \in history'.retired
       PROVE  Gone(s)' \/ (s \in history.retired /\ (On(s.job.id)' => On(s.job.id)))
  <2>1. CASE s \in history.retired
    BY <1>5, <2>1 DEF Inv, Gone
  <2>2. CASE s = action.report
    <3>1. s.job.id \in Ids /\ Settled(s.job.id)
      BY <1>3, <1>10, <2>2
    <3>2. Settled(s.job.id)'
      BY <1>11, <3>1
    <3>3. ~On(s.job.id)'
      BY <1>1, <2>2 DEF On
    <3> QED
      BY <3>1, <3>2, <3>3 DEF Gone
  <2> QED
    BY <1>4, <2>1, <2>2
<1>15. \A p \in partials' : p \in partials
  BY <1>1
<1> QED
  BY <1>1, <1>4, <1>6, <1>7, <1>14, <1>15, Steady DEF Remembered

-----------------------------------------------------------------------------
(* A crash takes the jobs and the dialog; the next life finds the disk.    *)
LEMMA InvDies ==
  ASSUME Inv, Dies, Disked',
         \A id \in Ids : Endures(id) /\ Shrinks(files[id].lines, files'[id].lines)
  PROVE  Inv'
<1>1. /\ up' = FALSE /\ jobs' = [id \in Ids |-> NoJob] /\ reports' = {} /\ action' = NoAction
      /\ UNCHANGED <<partials, session, nextId, names, faults, history>>
  BY DEF Dies
<1>2. Disked /\ Working /\ Asking /\ Living /\ names \in Nat /\ names' \in Nat /\ names <= names'
  BY <1>1 DEF Inv, Typed, Working
<1>3. NoJob \in Jobs /\ NoJob.at = "none"
  BY DEF NoJob, Jobs, Places
<1>4. jobs' \in [Ids -> Jobs] /\ \A id \in Ids : jobs'[id].at = "none" /\ ~Begun(id)'
  BY <1>1, <1>3 DEF Begun
<1>5. Typed'
  <2>1. \A id \in Ids : Employed(id)'
    BY <1>4 DEF Employed, Named
  <2>2. /\ names' \in Nat /\ nextId' \in Nat /\ partials' \subseteq [id : Ids, name : Nat]
        /\ \A p \in partials' : p.name \in 1..names'
    BY <1>1, <1>2 DEF Working
  <2>3. Working'
    BY <1>4, <2>1, <2>2 DEF Working
  <2>4. Asking'
    BY <1>1, <1>2 DEF Asking
  <2>5. Living'
    <3>1. session' \in 0..MaxSessions /\ faults' \in Nat /\ up' \in BOOLEAN
      BY <1>1, <1>2 DEF Living
    <3>2. reports' = {} /\ action' = NoAction /\ \A id \in Ids : jobs'[id].at = "none"
      BY <1>1, <1>4
    <3> QED
      BY <3>1, <3>2 DEF Living
  <2> QED
    BY <2>3, <2>4, <2>5 DEF Typed
<1>6. ASSUME NEW id \in Ids
      PROVE  Own(id)' /\ Runs(id)' /\ ~On(id)'
  <2>1. Own(id)'
    BY <1>2, OwnCalm DEF Inv
  <2> QED
    BY <1>1, <1>4, <2>1 DEF Runs, On
<1>7. ASSUME NEW p \in partials'
      PROVE  Accounted(p)'
  <2>1. p \in partials /\ p.id \in Ids /\ Accounted(p) /\ history'.handed = history.handed
    BY <1>1, <1>2, PartialFacts DEF Inv
  <2>2. CASE p.name \in history.handed
    BY <2>1, <2>2 DEF Accounted
  <2>3. CASE Lost(p.id)
    BY <2>1, <2>3, LostKept DEF Accounted
  <2>4. CASE Announced(p)
    BY <1>2, <2>1, <2>4, AnnouncedKept DEF Accounted
  <2> QED
    BY <2>1, <2>2, <2>3, <2>4 DEF Accounted
<1>8. Answering' /\ \A r \in reports' : Listed(r)'
  BY <1>1 DEF Answering
<1>9. ASSUME NEW r \in history'.retired
      PROVE  Gone(r)'
  <2>1. r.job.id \in Ids /\ Settled(r.job.id)
    BY <1>1 DEF Inv, Gone
  <2>2. Settled(r.job.id)'
    BY <1>2, <1>4, <2>1, SettledCalm
  <2> QED
    BY <1>6, <2>1, <2>2 DEF Gone
<1> QED
  BY <1>5, <1>6, <1>7, <1>8, <1>9 DEF Inv

LEMMA InvKilled ==
  ASSUME Inv, Killed
  PROVE  Inv'
<1>1. Dies /\ UNCHANGED <<files, synced>> /\ Disked
  BY DEF Killed, Inv, Typed
<1>2. Disked' /\ \A id \in Ids : Stays(id)
  BY <1>1, UnwrittenStays
<1>3. \A id \in Ids : Endures(id) /\ Shrinks(files[id].lines, files'[id].lines)
  BY <1>1, <1>2, StaysEndures
<1> QED
  BY <1>1, <1>2, <1>3, InvDies

LEMMA InvPowerLost ==
  ASSUME Inv, PowerLost
  PROVE  Inv'
<1>1. Dies /\ Disked
  BY DEF PowerLost, Inv, Typed
<1>2. Disked' /\ \A id \in Ids : Loses(id)
  BY <1>1, LossFacts
<1>3. \A id \in Ids : Endures(id) /\ Shrinks(files[id].lines, files'[id].lines)
  BY <1>1, <1>2, LosesEndures
<1> QED
  BY <1>1, <1>2, <1>3, InvDies

(* What a scan lists is there to be resolved.                              *)
LEMMA ScanLists ==
  ASSUME Inv, NEW i \in Ids, NeedsAttention(i), jobs[i].at = "none"
  PROVE  /\ Scanned(i) \in Reports /\ Scanned(i).job.id = i
         /\ Listed(Scanned(i))
<1> DEFINE L == files[i].lines
           r == Scanned(i)
           plan == L[1].job.plan
<1>1. Disked /\ Working /\ L \in Seq(Lines) /\ Own(i)
  BY FileFacts DEF Inv, Typed
<1>2. r \notin {Corrupt, Nothing} /\ (r.incomplete # {} \/ r.orphans # {})
  BY DEF NeedsAttention
<1>3. Reads(L, r)
  BY <1>1, <1>2, ReplayFacts DEF Scanned
<1> HIDE DEF r
<1>4. /\ r \in Reports /\ Clear(L, 1) /\ r.job = L[1].job
      /\ \A s : s \in r.incomplete <=> Undertakes(L, s) /\ ~Concludes(L, s)
      /\ \A o \in r.orphans : o[1] \in r.incomplete
  BY <1>3 DEF Reads
<1>5. 1 \in 1..Len(L) /\ L[1].type = "JobStarted" /\ L # << >>
  BY <1>1, <1>4, ClearFacts, EmptySeq
<1>6. r.job.id = i
  BY <1>1, <1>4, <1>5 DEF Own
<1>7. r.incomplete # {}
  BY <1>2, <1>4
<1>8. r.incomplete \subseteq 1..Len(r.job.plan)
  BY <1>1, <1>4 DEF Own, Undertakes
<1>9. ASSUME ~Broken(L)
      PROVE  Pending(L, r.incomplete)
  <2>1. SUFFICES ASSUME NEW j \in 1..Len(L), L[j].type = "Intent"
                 PROVE  \/ L[j].step \in r.incomplete
                        \/ \E c \in 1..Len(L) : L[c].type = "Completion" /\ L[c].step = L[j].step
    BY DEF Pending
  <2>2. Clear(L, j)
    BY <1>1, <1>9, UnbrokenClear
  <2>3. Undertakes(L, L[j].step)
    BY <2>1, <2>2 DEF Undertakes
  <2> QED
    BY <1>4, <2>3 DEF Concludes
<1>10. Follows(i, r.incomplete, 2)
  BY <1>5, <1>9 DEF Follows, FollowsOn
<1>11. ASSUME NEW p \in partials, p.id = i
       PROVE  p.name \in history.handed \/ Lost(i) \/ p.name \in NamesOf(r.orphans)
  <2>1. Accounted(p) /\ p.name # 0
    BY <1>1, PartialFacts DEF Inv
  <2>2. CASE Announced(p)
    <3>1. PICK k \in Nat : Announces(L, k, p.name)
      BY <1>11, <2>2 DEF Announced
    <3>2. k \in 1..Len(L) /\ L[k].partial = p.name
      BY <3>1 DEF Announces, Clear
    <3>3. <<L[k].step, p.name>> \in r.orphans
      BY <1>3, <2>1, <3>1, <3>2 DEF Reads
    <3> QED
      BY <3>3 DEF NamesOf
  <2> QED
    BY <1>11, <2>1, <2>2 DEF Accounted
<1>12. Listed(r)
  BY <1>6, <1>7, <1>8, <1>10, <1>11 DEF Listed, Covered
<1> QED
  BY <1>4, <1>6, <1>12 DEF r

LEMMA InvLaunch ==
  ASSUME Inv, Launch
  PROVE  Inv'
<1>1. /\ ~up /\ session < MaxSessions /\ up' = TRUE /\ session' = session + 1 /\ nextId' = 0
      /\ reports' \subseteq {Scanned(i) : i \in {i \in Ids : NeedsAttention(i)}}
      /\ UNCHANGED <<files, synced, partials, jobs, names, action, faults, history>>
  BY DEF Launch, disk
<1>2. Disked /\ Working /\ Asking /\ Living /\ names \in Nat /\ names <= names'
  BY <1>1 DEF Inv, Typed, Working
<1>3. action = NoAction /\ \A id \in Ids : jobs[id].at = "none"
  BY <1>1, <1>2 DEF Living
<1>4. ASSUME NEW r \in reports'
      PROVE  /\ r \in Reports /\ r.job.id \in Ids /\ NeedsAttention(r.job.id) /\ Listed(r)
  <2>1. PICK i \in Ids : NeedsAttention(i) /\ r = Scanned(i)
    BY <1>1
  <2> QED
    BY <1>3, <2>1, ScanLists
<1>5. Disked' /\ \A id \in Ids : Stays(id)
  BY <1>1, <1>2, UnwrittenStays
<1>6. Typed'
  <2>1. Working'
    BY <1>1, <1>2 DEF Working, Employed
  <2>2. Asking'
    BY <1>1, <1>2, <1>4 DEF Asking
  <2>3. MaxSessions \in Nat /\ session \in Nat
    BY <1>2, RecoveryAssumption DEF RecoveryAssumption, Living
  <2>4. Living'
    BY <1>1, <1>2, <2>3 DEF Living
  <2> QED
    BY <1>5, <2>1, <2>2, <2>4 DEF Typed
<1>7. Remembered /\ \A id \in Ids : Spared(id) /\ ~Begun(id)'
  BY <1>1, <1>3 DEF Remembered, Spared, Begun
<1>8. \A id \in Ids : Runs(id)'
  BY <1>7 DEF Runs
<1>9. \A r \in reports' : Listed(r)'
  BY <1>2, <1>4, <1>5, <1>7, StaysListed
<1>10. Answering'
  BY <1>1, <1>3 DEF Answering
<1>11. ASSUME NEW r \in history'.retired
       PROVE  r \in history.retired /\ ~On(r.job.id)'
  <2>1. r \in history.retired /\ r.job.id \in Ids /\ Settled(r.job.id)
    BY <1>1 DEF Inv, Gone
  <2>2. ~NeedsAttention(r.job.id)
    BY <1>2, <2>1, SettledQuiet
  <2>3. \A s \in reports' : s.job.id # r.job.id
    BY <1>4, <2>2
  <2> QED
    BY <1>1, <1>3, <2>1, <2>3 DEF On
<1> QED
  BY <1>1, <1>2, <1>5, <1>6, <1>7, <1>8, <1>9, <1>10, <1>11, Steady

(* One record of a resolution.                                             *)
LEMMA TodoFacts ==
  ASSUME NEW todo \in Seq(Lines), todo # << >>,
         \A i \in 1..Len(todo) : todo[i].type \in {"Completion", "JobFinished"}
  PROVE  /\ Head(todo) \in Lines /\ Head(todo).type \in {"Completion", "JobFinished"}
         /\ Tail(todo) \in Seq(Lines) /\ Len(todo) \in Nat /\ Len(todo) >= 1
         /\ Len(Tail(todo)) = Len(todo) - 1 /\ Len(Tail(todo)) \in Nat
         /\ \A i \in 1..Len(Tail(todo)) : Tail(todo)[i].type \in {"Completion", "JobFinished"}
         /\ \A s \in ToDo(todo) :
              s \in ToDo(Tail(todo)) \/ (Head(todo).type = "Completion" /\ Head(todo).step = s)
<1> DEFINE rest == Tail(todo)
           n == Len(todo)
<1>1. n \in Nat /\ n >= 1
  BY LenProperties, EmptySeq
<1>2. /\ Head(todo) = todo[1] /\ todo[1] \in Lines /\ rest \in Seq(Lines) /\ Len(rest) = n - 1
      /\ \A i \in 1..Len(rest) : rest[i] = todo[i + 1]
  BY <1>1, HeadTailProperties, ElementOfSeq
<1> HIDE DEF rest
<1>3. \A i \in 1..(n - 1) : i + 1 \in 1..n
  BY <1>1
<1>4. \A i \in 1..Len(rest) : rest[i].type \in {"Completion", "JobFinished"}
  BY <1>2, <1>3
<1>5. todo[1].type \in {"Completion", "JobFinished"}
  BY <1>1
<1>6. ASSUME NEW s \in ToDo(todo)
      PROVE  s \in ToDo(rest) \/ (todo[1].type = "Completion" /\ todo[1].step = s)
  <2>1. PICK i \in 1..n : todo[i].type = "Completion" /\ todo[i].step = s
    BY DEF ToDo
  <2>2. CASE i = 1
    BY <2>1, <2>2
  <2>3. CASE i # 1
    <3>1. i - 1 \in 1..Len(rest) /\ rest[i - 1] = todo[i]
      BY <1>1, <1>2, <2>3
    <3> QED
      BY <2>1, <3>1 DEF ToDo
  <2> QED
    BY <2>2, <2>3
<1> QED
  BY <1>1, <1>2, <1>4, <1>5, <1>6 DEF rest

LEMMA InvResolveWrites ==
  ASSUME Inv, ResolveWrites
  PROVE  Inv'
<1>1. /\ action # NoAction /\ action.doomed = {} /\ action.todo # << >>
      /\ Write(action.report.job.id, Head(action.todo))
      /\ action' = [action EXCEPT !.todo = Tail(@)]
      /\ UNCHANGED <<partials, up, session, nextId, jobs, names, reports, faults, history>>
  BY DEF ResolveWrites, Resolving, Busy, queue
<1>2. /\ Disked /\ Working /\ Asking /\ Living /\ names \in Nat /\ names' \in Nat
      /\ names <= names'
  BY <1>1 DEF Inv, Typed, Working
<1>3. action \in Actions /\ action.report.job.id \in Ids /\ action.todo \in Seq(Lines)
  BY <1>1, <1>2, ActionFacts DEF Asking
<1>4. PICK id \in Ids : id = action.report.job.id
  BY <1>3
<1>5. PICK todo \in Seq(Lines) : todo = action.todo
  BY <1>3
<1>6. Resolves(id, {}, todo)
  BY <1>1, <1>4, <1>5 DEF Inv, Answering
<1>7. /\ Covered(id, {}) /\ FollowsOn(files[id], jobs[id].at, ToDo(todo), Len(todo))
      /\ \A k \in 1..Len(todo) : todo[k].type \in {"Completion", "JobFinished"}
  BY <1>6 DEF Resolves, Follows
<1>8. /\ Head(todo) \in Lines /\ Head(todo).type \in {"Completion", "JobFinished"}
      /\ Tail(todo) \in Seq(Lines) /\ Len(todo) \in Nat /\ Len(todo) >= 1
      /\ Len(Tail(todo)) = Len(todo) - 1 /\ Len(Tail(todo)) \in Nat
      /\ \A i \in 1..Len(Tail(todo)) : Tail(todo)[i].type \in {"Completion", "JobFinished"}
      /\ \A s \in ToDo(todo) :
           s \in ToDo(Tail(todo)) \/ (Head(todo).type = "Completion" /\ Head(todo).step = s)
  BY <1>1, <1>5, <1>7, TodoFacts
<1>9. PICK record \in Lines : record = Head(todo)
  BY <1>8
<1>10. PICK rest \in Seq(Lines) : rest = Tail(todo)
  BY <1>8
<1>11. /\ record.type \in {"Completion", "JobFinished"}
       /\ Len(rest) = Len(todo) - 1 /\ Len(rest) \in Nat /\ Len(todo) \in Nat
       /\ \A i \in 1..Len(rest) : rest[i].type \in {"Completion", "JobFinished"}
       /\ \A s \in ToDo(todo) :
            s \in ToDo(rest) \/ (record.type = "Completion" /\ record.step = s)
  BY <1>8, <1>9, <1>10
<1>12. /\ action' \in Actions /\ action' # NoAction /\ action'.report = action.report
       /\ action'.report.job.id = id /\ action'.doomed = {} /\ action'.todo = rest
  <2>1. action' \in Actions /\ action'.report = action.report /\ action'.doomed = {}
        /\ action'.todo = rest
    BY <1>1, <1>3, <1>5, <1>10 DEF Actions
  <2>2. action' # NoAction
    <3>1. action'.kind \in {"resume", "discard"} /\ NoAction.kind = "none"
      BY <2>1 DEF Actions, NoAction
    <3> QED
      BY <3>1
  <2> QED
    BY <1>4, <2>1, <2>2
<1>13. \A i \in Ids : On(i)' <=> On(i)
  BY <1>1, <1>12 DEF On
<1>14. On(id) /\ files[id].lines # << >>
  BY <1>1, <1>4, OnFiled DEF On
<1>15. /\ Disked' /\ (Adds(id, record) \/ Spoils(id))
       /\ \A other \in Ids : other # id => Stays(other)
  BY <1>1, <1>2, <1>4, <1>5, <1>9, WriteFacts
<1>16. Remembered /\ \A i \in Ids : Spared(i) /\ (Begun(i)' => Begun(i))
  BY <1>1 DEF Remembered, Spared, Begun
<1>17. Typed'
  <2>1. Working'
    BY <1>1, <1>2 DEF Working, Employed
  <2>2. Asking'
    BY <1>1, <1>2, <1>12 DEF Asking
  <2>3. Living'
    BY <1>1, <1>2 DEF Living
  <2> QED
    BY <1>15, <2>1, <2>2, <2>3 DEF Typed
<1>18. \A i \in Ids : Endures(i)
  BY <1>2, <1>15, StaysEndures, AddsEndures, SpoilsEndures
<1>19. ASSUME NEW i \in Ids, i # id
       PROVE  /\ files'[i] = files[i] /\ jobs'[i] = jobs[i]
              /\ Shrinks(files[i].lines, files'[i].lines)
              /\ Len(files'[i].lines) = Len(files[i].lines)
  BY <1>1, <1>2, <1>15, <1>19, StaysEndures DEF Stays
<1>20. Own(id)'
  <2>1. CASE Adds(id, record)
    <3>1. Own(id) /\ record.type # "JobStarted" /\ record.type # "Intent"
      BY <1>11 DEF Inv
    <3> QED
      BY <1>2, <1>14, <1>15, <2>1, <3>1, OwnAdded
  <2>2. CASE Spoils(id)
    <3>1. Own(id) /\ Shrinks(files[id].lines, files'[id].lines)
      BY <1>2, <1>15, <2>2, SpoilsEndures DEF Inv
    <3> QED
      BY <1>2, <1>15, <3>1, OwnCalm
  <2> QED
    BY <1>15, <2>1, <2>2
<1>21. Runs(id)'
  <2>1. SUFFICES ASSUME Begun(id)
                 PROVE  ~files'[id].open /\ Behind(id)'
    BY <1>16 DEF Runs
  <2>2. ~files[id].open /\ Behind(id) /\ Own(id)
    BY <1>14, <2>1, BegunFacts DEF Fresh
  <2>3. Adds(id, record) /\ ~files'[id].open
    BY <1>15, <2>2 DEF Adds, Spoils
  <2>4. Behind(id)'
    BY <1>2, <1>11, <1>15, <2>2, <2>3, BehindWrites
  <2> QED
    BY <2>3, <2>4
<1>22. ASSUME NEW i \in Ids
       PROVE  Own(i)' /\ Runs(i)'
  <2>1. CASE i = id
    BY <1>20, <1>21, <2>1
  <2>2. CASE i # id
    <3>1. Own(i) /\ Runs(i) /\ partials' = partials
      BY <1>1 DEF Inv
    <3>2. Own(i)'
      BY <1>2, <1>15, <1>19, <2>2, <3>1, OwnCalm
    <3>3. Runs(i)'
      BY <1>13, <1>16, <1>19, <2>2, <3>1, RunsKept
    <3> QED
      BY <3>2, <3>3
  <2> QED
    BY <2>1, <2>2
<1>23. ASSUME NEW p \in partials'
       PROVE  Accounted(p)'
  <2>1. p \in partials /\ p.id \in Ids /\ Accounted(p) /\ history'.handed = history.handed
    BY <1>1, <1>2, PartialFacts DEF Inv
  <2>2. CASE p.name \in history.handed
    BY <2>1, <2>2 DEF Accounted
  <2>3. CASE Lost(p.id)
    BY <1>18, <2>1, <2>3, LostKept DEF Accounted
  <2>4. CASE p.id # id /\ Announced(p)
    BY <1>2, <1>15, <1>18, <1>19, <2>1, <2>4, AnnouncedKept DEF Accounted
  <2>5. CASE p.id = id
    BY <1>7, <2>1, <2>2, <2>3, <2>5 DEF Covered
  <2> QED
    BY <2>1, <2>2, <2>3, <2>4, <2>5 DEF Accounted
<1>24. ASSUME NEW r \in reports'
       PROVE  Listed(r)'
  <2>1. Listed(r) /\ r.job.id \in Ids
    BY <1>1 DEF Inv, Listed
  <2>2. FollowsOn(files[r.job.id], jobs[r.job.id].at, r.incomplete, 2)
    BY <2>1 DEF Listed, Follows
  <2>3. FollowsOn(files'[r.job.id], jobs'[r.job.id].at, r.incomplete, 2)
    <3>1. CASE r.job.id = id
      <4>1. FollowsOn(files'[id], jobs[id].at, r.incomplete, 2)
        <5>1. Own(id) /\ (\A s \in r.incomplete : s \in r.incomplete) /\ 2 \in Nat
              /\ (files[id].open => 2 >= 1)
          BY DEF Inv
        <5> QED
          BY <1>2, <1>11, <1>15, <2>2, <3>1, <5>1, FollowsResolved
      <4> QED
        BY <1>1, <3>1, <4>1
    <3>2. CASE r.job.id # id
      BY <1>19, <2>1, <2>2, <3>2
    <3> QED
      BY <3>1, <3>2
  <2> QED
    BY <1>16, <1>18, <2>1, <2>3, ListedKept
<1>25. Answering'
  <2>1. files[id].open => Len(rest) >= 1
    BY <1>7, <1>11 DEF FollowsOn
  <2>2. FollowsOn(files'[id], jobs[id].at, ToDo(rest), Len(rest))
    <3>1. Own(id)
      BY DEF Inv
    <3> QED
      BY <1>2, <1>7, <1>11, <1>15, <2>1, <3>1, FollowsResolved
  <2>3. FollowsOn(files'[id], jobs'[id].at, ToDo(rest), Len(rest))
    BY <1>1, <2>2
  <2>4. \A p \in partials' : p.id = id => p.name \in history'.handed \/ Lost(id)' \/ p.name \in {}
    BY <1>7, <1>16, <1>18, CoveredKept
  <2>5. Covered(id, {})'
    BY <2>4 DEF Covered
  <2>6. Follows(id, ToDo(rest), Len(rest))'
    BY <2>3 DEF Follows
  <2>7. Resolves(id, {}, rest)'
    BY <1>11, <2>5, <2>6 DEF Resolves
  <2> QED
    BY <1>12, <2>7 DEF Answering
<1>26. ASSUME NEW r \in history'.retired
       PROVE  Gone(r)'
  <2>1. r.job.id \in Ids /\ Settled(r.job.id) /\ ~On(r.job.id)
    BY <1>1 DEF Inv, Gone
  <2>2. r.job.id # id /\ ~On(r.job.id)'
    BY <1>13, <1>14, <2>1
  <2>3. Settled(r.job.id)'
    BY <1>2, <1>15, <1>16, <1>18, <1>19, <2>1, <2>2, SettledCalm
  <2> QED
    BY <2>1, <2>2, <2>3 DEF Gone
<1> QED
  BY <1>17, <1>22, <1>23, <1>24, <1>25, <1>26 DEF Inv

-----------------------------------------------------------------------------
(* The invariant holds of a machine without journals, and of every step.   *)
LEMMA Initially == Init => Inv
<1> SUFFICES ASSUME Init
             PROVE  Inv
  OBVIOUS
<1>1. /\ files = [id \in Ids |-> NoFile] /\ synced = [id \in Ids |-> 0] /\ partials = {}
      /\ up = FALSE /\ session = 0 /\ nextId = 0 /\ jobs = [id \in Ids |-> NoJob]
      /\ names = 0 /\ reports = {} /\ action = NoAction /\ faults = MaxFaults
      /\ history = [asked |-> {}, handed |-> {}, retired |-> {}]
  BY DEF Init
<1>2. MaxFaults \in Nat /\ MaxSessions \in Nat
  BY RecoveryAssumption DEF RecoveryAssumption
<1> DEFINE none == << >>
<1>3. none \in Seq(Lines) /\ Len(none) = 0 /\ NoFile.lines = none /\ NoFile.open = FALSE
      /\ NoFile \in Files
  BY DEF NoFile, Files
<1>4. NoJob \in Jobs /\ NoJob.at = "none"
  BY DEF NoJob, Jobs, Places
<1>5. Disked
  BY <1>1, <1>3 DEF Disked, Filed
<1>6. Working
  BY <1>1, <1>4 DEF Working, Employed, Named
<1>7. Asking
  <2>1. history \in [asked : SUBSET Items, handed : SUBSET Nat, retired : SUBSET Reports]
    BY <1>1
  <2> QED
    BY <1>1, <2>1 DEF Asking
<1>8. Living
  <2>1. session \in 0..MaxSessions /\ faults \in Nat /\ up \in BOOLEAN
    <3>1. 0 \in 0..MaxSessions /\ session = 0
      BY <1>1, <1>2
    <3>2. session \in 0..MaxSessions
      BY <3>1
    <3> QED
      BY <1>1, <1>2, <3>2
  <2>2. reports = {} /\ action = NoAction /\ \A id \in Ids : jobs[id].at = "none"
    BY <1>1, <1>4
  <2> QED
    BY <2>1, <2>2 DEF Living
<1>9. ASSUME NEW id \in Ids
      PROVE  Own(id) /\ Runs(id)
  <2>1. files[id].lines = none
    BY <1>1, <1>3
  <2>2. \A j : j \notin 1..Len(files[id].lines)
    BY <1>3, <2>1
  <2>3. Own(id)
    BY <2>1, <2>2 DEF Own, Headed
  <2>4. Runs(id)
    BY <1>1, <1>4 DEF Runs, Begun
  <2> QED
    BY <2>3, <2>4
<1>10. Answering /\ history.retired = {}
  BY <1>1 DEF Answering
<1> QED
  BY <1>1, <1>5, <1>6, <1>7, <1>8, <1>9, <1>10 DEF Inv, Typed

LEMMA InvUnchanged ==
  ASSUME Inv, UNCHANGED vars
  PROVE  Inv'
<1>1. UNCHANGED <<files, synced, partials, up, session, nextId, jobs, names, reports, action,
                  faults, history>>
  BY DEF vars, disk, queue, dialog
<1>2. Disked /\ Working /\ Asking /\ Living
  BY DEF Inv, Typed
<1>3. Remembered /\ \A id \in Ids : On(id)' => On(id)
  BY <1>1 DEF Remembered, On
<1>4. /\ Typed' /\ names <= names'
      /\ \A id \in Ids : /\ Stays(id) /\ (Begun(id)' => Begun(id)) /\ Spared(id)
                         /\ Runs(id)'
      /\ \A s \in reports' : Listed(s)'
  BY <1>1, <1>2, <1>3, Quiet DEF Asking, Living
<1>5. Answering'
  BY <1>1, <1>2, <1>3, <1>4, ActionFacts, StaysAnswering DEF Inv
<1>6. \A s \in history'.retired : s \in history.retired /\ (On(s.job.id)' => On(s.job.id))
  BY <1>1, <1>3 DEF Inv, Gone
<1> QED
  BY <1>1, <1>3, <1>4, <1>5, <1>6, Steady

LEMMA Step == Inv /\ [Next]_vars => Inv'
<1> SUFFICES ASSUME Inv, [Next]_vars
             PROVE  Inv'
  OBVIOUS
<1>1. CASE UNCHANGED vars
  BY <1>1, InvUnchanged
<1>2. ASSUME NEW plan \in Plans, Enqueue(plan)
      PROVE  Inv'
  BY <1>2, InvEnqueue
<1>3. ASSUME NEW id \in Ids, JobStep(id)
      PROVE  Inv'
  BY <1>3, InvStarts, InvStarted, InvIntends, InvStages, InvPublishes, InvCompletes,
     InvFinishes, InvSync DEF JobStep
<1>4. CASE Launch \/ Killed \/ PowerLost
  BY <1>4, InvLaunch, InvKilled, InvPowerLost
<1>5. ASSUME NEW r \in reports, ResumeSelected(r) \/ DiscardSelected(r)
      PROVE  Inv'
  BY <1>5, InvResume, InvDiscard
<1>6. CASE Removes \/ RemoveFails \/ ResolveWrites \/ ResolveFails \/ Retire \/ Close
  BY <1>6, InvRemoves, InvGivesUp, InvResolveWrites, InvRetire, InvClose
<1> QED
  BY <1>1, <1>2, <1>3, <1>4, <1>5, <1>6 DEF Next

(* Every file's durable part is a part of it, every partial has its job    *)
(* and its name, and the dialog lists only journals with steps to resume,  *)
(* and only while the program runs.                                        *)
THEOREM TypeCorrect == Spec => []TypeOK
<1>1. Spec => []Inv
  BY Initially, Step, PTL DEF Spec
<1> QED
  BY <1>1, InvTypes, PTL

(* What was resolved never comes back: after a report was retired, no scan *)
(* of any later life lists its journal, wherever the crashes fall, whether *)
(* they take the page cache or not, and whichever jobs append to the file  *)
(* again (recovery_dialog.rs, "the one thing this whole module exists to   *)
(* get right").                                                            *)
THEOREM RetiredHolds == Spec => []RetiredStaysGone
<1>1. Spec => []Inv
  BY Initially, Step, PTL DEF Spec
<1> QED
  BY <1>1, InvRetired, PTL

(* No partial is leaked unnoticed: one on disk is named by the scan of its *)
(* journal, in every life, unless a resume has taken it over or the file   *)
(* cannot be read any more (executor.rs, the intent is durable before the  *)
(* partial is made; journal.rs, fold_records).                             *)
THEOREM PartialsHold == Spec => []PartialsAccounted
<1>1. Spec => []Inv
  BY Initially, Step, PTL DEF Spec
<1> QED
  BY <1>1, InvPartials, PTL

===============================================================================
