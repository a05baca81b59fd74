----------------------------- MODULE ViewerProofs -----------------------------
(***************************************************************************)
(* What is shown at rest is what was asked for last, for any files, any    *)
(* number of windows and of openings, and whatever the user does.          *)
(*                                                                         *)
(* A page is followed by its id from the channel of requests to the list   *)
(* its worker goes through, the channel of replies and the view: the pages *)
(* along that way are in the order of their ids, merging requests keeps    *)
(* the last, and so nothing older comes after it.                          *)
(***************************************************************************)
EXTENDS Viewer, PickedProofs

(* What the channels and the list of a worker's thread hold.               *)
Requests == [kind : Modes \cup {"Search"}, id : Nat, hit : Nat]
PageType == [by : Nat, id : Nat, hit : Nat, final : BOOLEAN]
Kinds == Modes \cup {"Opened", "Error", "IndexComplete", "Hit", "Miss", "Progress"}
Replies == [kind : Kinds, page : PageType]
Places == {"opening", "idle", "serving", "handling", "searching", "ended"}

WorkerType ==
  [file : DOMAIN Files \cup {None}, at : Places, stop : BOOLEAN, cancel : BOOLEAN,
   requests : Seq(Requests), replies : Seq(Replies), todo : Seq(Requests), chunks : Nat,
   index : {None, "building", "partial", "complete"}, sent : Nat, asked : Nat, failed : Nat]

ViewType ==
  [mode : Modes \cup {None}, forced : BOOLEAN, detected : DOMAIN Files \cup {None},
   text : PageType, hex : PageType, image : PageType,
   highlight : Nat, searching : BOOLEAN, bar : BOOLEAN]

Typed ==
  /\ embedded \in BOOLEAN /\ view \in ViewType /\ misled \in BOOLEAN
  /\ opened \in 0..MaxOpens /\ current \in 0..opened
  /\ workers \in [1..MaxOpens -> WorkerType]
  /\ current # 0 => ~workers[current].stop /\ workers[current].file \in DOMAIN Files

Has(s, kinds) == \E e \in ToSet(s) : e.kind \in kinds

(* Opened is the first reply, and a page is the last thing on the list.    *)
OpenedFirst(s) == \A i \in 1..Len(s) : s[i].kind = "Opened" => i = 1
PageLast(s) == \A i \in 1..Len(s) : IsPage(s[i]) => i = Len(s)

(* A search's progress is not its last word.                               *)
Words == {"Miss", "Error", "Hit"}
Spoken(s, at) ==
  \A i \in 1..Len(s) :
    s[i].kind = "Progress" =>
      at = "searching" \/ \E j \in 1..Len(s) : i < j /\ s[j].kind \in Words

(* Where a worker's thread is says what its list begins with.              *)
Placed(w) ==
  /\ w.at \in {"opening", "idle", "ended"} => w.todo = << >>
  /\ w.at = "searching" => w.todo # << >> /\ w.todo[1].kind = "Search"
  /\ w.at = "handling" => w.todo # << >> /\ w.todo[1].kind # "Search"
  /\ w.at = "opening" => w.replies = << >> /\ w.index = None
  /\ PageLast(w.todo) /\ OpenedFirst(w.replies) /\ Spoken(w.replies, w.at)

(* A page is asked for, listed, answered and shown in the order of the ids. *)
PagesIn(s) == {e \in ToSet(s) : IsPage(e)}

Rising(s) == \A i, j \in 1..Len(s) : i < j => s[i].id < s[j].id
RisingPages(s) ==
  \A i, j \in 1..Len(s) :
    i < j /\ IsPage(s[i]) /\ IsPage(s[j]) => s[i].page.id < s[j].page.id

Listed(w) == {r.id : r \in PagesIn(w.todo)}
Requested(w) == {r.id : r \in PagesIn(w.requests)}
Answered(w) == {r.page.id : r \in PagesIn(w.replies)}
ToCome(w) == Listed(w) \cup Requested(w)

Queued(g, w) ==
  /\ w.asked <= w.sent /\ w.failed <= w.asked
  /\ \A r \in ToSet(w.requests) : r.id <= w.sent
  /\ Rising(w.requests) /\ RisingPages(w.replies)
  /\ \A id \in Listed(w) : \A next \in Requested(w) : id < next
  /\ \A id \in ToCome(w) : w.failed < id /\ id <= w.asked
  /\ \A id \in Answered(w) : id <= w.asked /\ \A next \in ToCome(w) : id < next
  /\ \A r \in PagesIn(w.replies) : r.page.by = g

Sound(g, w) == Placed(w) /\ (~w.stop => Queued(g, w))

(* Somebody will still say how a search went.                              *)
Owes(w, held) ==
  \/ w.at = "searching" \/ Has(w.replies, Words)
  \/ held /\ (w.at = "ended" \/ Has(w.requests, {"Search"}) \/ Has(w.todo, {"Search"}))

(* The file's kind is known once Opened has been read.                     *)
Unopened(w) == w.at = "opening" \/ Has(w.replies, {"Opened"})

Detected(v, w) ==
  IF Unopened(w) THEN v.detected = None /\ (~v.forced => v.mode = None)
  ELSE w.at # "ended" => v.detected = w.file /\ (~v.forced => v.mode = Files[w.file])

(* Line numbers are final once there is nothing left to index, and the     *)
(* index will be told of or is never finished until then.                  *)
Indexed(w) == w.index \in {"complete", None}
Late(w) == w.index \in {"building", "partial"} \/ Has(w.replies, {"IndexComplete"})

(* Where the page asked for last is.                                       *)

Wanted(v, r, w) == r.kind = v.mode /\ r.id = w.asked /\ r.hit = v.highlight

Right(v, g, page, w) ==
  /\ page.by = g /\ page.id = w.asked /\ page.hit = v.highlight
  /\ v.mode = "Text" => (page.final \/ Late(w)) /\ (page.final => Indexed(w))

ShownOf(v) == IF v.mode = "Text" THEN v.text ELSE v.hex

OnItsWay(v, g, w) ==
  \/ \E r \in ToSet(w.requests) \cup ToSet(w.todo) : Wanted(v, r, w)
  \/ \E r \in ToSet(w.replies) : r.kind = v.mode /\ Right(v, g, r.page, w)
  \/ Right(v, g, ShownOf(v), w)
  \/ w.failed = w.asked

Newer(page, w) ==
  page.id <= w.asked /\ \A id \in ToCome(w) \cup Answered(w) : page.id < id

LastAsked(v, g, w) ==
  /\ Newer(v.text, w) /\ Newer(v.hex, w)
  /\ v.mode \in Pages => Unopened(w) \/ w.at = "ended" \/ (w.asked # 0 /\ OnItsWay(v, g, w))

Searched == view.searching => \E g \in 1..MaxOpens : Owes(workers[g], g = current)

Followed ==
  current # 0 /\ ~misled =>
    Detected(view, workers[current]) /\ LastAsked(view, current, workers[current])

Inv ==
  /\ Typed /\ Searched /\ Followed
  /\ \A g \in 1..MaxOpens : Sound(g, workers[g])

-----------------------------------------------------------------------------
(* Channels that grow at the end and lose their head.                      *)

LEMMA HasAppended ==
  ASSUME NEW S, NEW s \in Seq(S), NEW e \in S, NEW kinds
  PROVE  Has(Append(s, e), kinds) <=> Has(s, kinds) \/ e.kind \in kinds
BY AppendElements DEF Has

LEMMA HasTail ==
  ASSUME NEW S, NEW s \in Seq(S), s # << >>, NEW kinds
  PROVE  Has(s, kinds) <=> s[1].kind \in kinds \/ Has(Tail(s), kinds)
BY TailElements DEF Has

LEMMA HasNothing == \A kinds : ~Has(<< >>, kinds)
BY NoElements DEF Has

LEMMA PagesAppended ==
  ASSUME NEW S, NEW s \in Seq(S), NEW e \in S
  PROVE  PagesIn(Append(s, e)) = PagesIn(s) \cup (IF IsPage(e) THEN {e} ELSE {})
BY AppendElements DEF PagesIn

LEMMA PagesTail ==
  ASSUME NEW S, NEW s \in Seq(S), s # << >>
  PROVE  PagesIn(s) = PagesIn(Tail(s)) \cup (IF IsPage(s[1]) THEN {s[1]} ELSE {})
BY TailElements DEF PagesIn

LEMMA NoPages == PagesIn(<< >>) = {}
BY NoElements DEF PagesIn

LEMMA PagesAre ==
  ASSUME NEW S, NEW s \in Seq(S)
  PROVE  PagesIn(s) \subseteq S /\ \A e \in PagesIn(s) : e.kind \in Pages
BY ElementsOf DEF PagesIn, IsPage

LEMMA OpenedFirstGrows ==
  ASSUME NEW s \in Seq(Replies), NEW r \in Replies, OpenedFirst(s),
         r.kind # "Opened" \/ s = << >>
  PROVE  OpenedFirst(Append(s, r))
<1> DEFINE t == Append(s, r)
<1>1. /\ Len(t) = Len(s) + 1 /\ Len(s) \in Nat /\ t[Len(s) + 1] = r
      /\ \A i \in 1..Len(s) : t[i] = s[i]
  BY AppendElements
<1>2. s = << >> => Len(s) = 0
  BY EmptySeq
<1> HIDE DEF t
<1>3. OpenedFirst(t)
  BY <1>1, <1>2 DEF OpenedFirst
<1> QED
  BY <1>3 DEF t

LEMMA OpenedFirstShrinks ==
  ASSUME NEW s \in Seq(Replies), s # << >>, OpenedFirst(s)
  PROVE  OpenedFirst(Tail(s)) /\ ~Has(Tail(s), {"Opened"})
<1> DEFINE t == Tail(s)
<1>1. /\ t \in Seq(Replies) /\ Len(t) = Len(s) - 1 /\ Len(s) \in Nat
      /\ \A i \in 1..(Len(s) - 1) : t[i] = s[i + 1]
  BY TailElements
<1> HIDE DEF t
<1>2. ASSUME NEW i \in 1..Len(t)
      PROVE  t[i].kind # "Opened"
  <2>1. i + 1 \in 1..Len(s) /\ i \in 1..(Len(s) - 1) /\ i + 1 # 1
    BY <1>1
  <2> QED
    BY <1>1, <2>1 DEF OpenedFirst
<1>3. \A e \in ToSet(t) : e.kind # "Opened"
  BY <1>1, <1>2, ElementsOf
<1> QED
  BY <1>2, <1>3 DEF OpenedFirst, Has, t

LEMMA PageLastShrinks ==
  ASSUME NEW s \in Seq(Requests), s # << >>, PageLast(s)
  PROVE  PageLast(Tail(s)) /\ (IsPage(s[1]) => Tail(s) = << >>)
<1> DEFINE t == Tail(s)
<1>1. /\ t \in Seq(Requests) /\ Len(t) = Len(s) - 1 /\ Len(s) \in Nat /\ Len(s) >= 1
      /\ \A i \in 1..(Len(s) - 1) : t[i] = s[i + 1]
  BY TailElements
<1> HIDE DEF t
<1>2. ASSUME NEW i \in 1..Len(t), IsPage(t[i])
      PROVE  i = Len(t)
  <2>1. i + 1 \in 1..Len(s) /\ i \in 1..(Len(s) - 1) /\ i \in Int
    BY <1>1
  <2>2. IsPage(s[i + 1])
    BY <1>1, <1>2, <2>1
  <2>3. i + 1 = Len(s)
    BY <2>1, <2>2 DEF PageLast
  <2> QED
    BY <1>1, <2>1, <2>3
<1>3. ASSUME IsPage(s[1])
      PROVE  t = << >>
  <2>1. 1 \in 1..Len(s)
    BY <1>1
  <2>2. Len(s) = 1
    BY <1>3, <2>1 DEF PageLast
  <2> QED
    BY <1>1, <2>2, EmptySeq
<1> QED
  BY <1>2, <1>3 DEF PageLast, t

LEMMA SpokenGrows ==
  ASSUME NEW s \in Seq(Replies), NEW r \in Replies, NEW at, NEW then, Spoken(s, at),
         \/ then = "searching" \/ r.kind \in Words
         \/ at # "searching" /\ r.kind # "Progress"
  PROVE  Spoken(Append(s, r), then)
<1> DEFINE t == Append(s, r)
<1>1. /\ Len(t) = Len(s) + 1 /\ Len(s) \in Nat /\ t[Len(s) + 1] = r
      /\ \A i \in 1..Len(s) : t[i] = s[i]
  BY AppendElements
<1> HIDE DEF t
<1>2. ASSUME NEW i \in 1..Len(t), t[i].kind = "Progress", then # "searching"
      PROVE  \E j \in 1..Len(t) : i < j /\ t[j].kind \in Words
  <2>1. CASE r.kind \in Words
    <3>1. i # Len(s) + 1
      BY <1>1, <1>2, <2>1 DEF Words
    <3>2. Len(s) + 1 \in 1..Len(t) /\ i < Len(s) + 1
      BY <1>1, <3>1
    <3> QED
      BY <1>1, <2>1, <3>2
  <2>2. CASE at # "searching" /\ r.kind # "Progress"
    <3>1. i \in 1..Len(s)
      BY <1>1, <1>2, <2>2
    <3>2. PICK j \in 1..Len(s) : i < j /\ s[j].kind \in Words
      BY <1>1, <1>2, <2>2, <3>1 DEF Spoken
    <3>3. j \in 1..Len(t) /\ t[j] = s[j]
      BY <1>1, <3>2
    <3> QED
      BY <3>2, <3>3
  <2> QED
    BY <1>2, <2>1, <2>2
<1>3. Spoken(t, then)
  BY <1>2 DEF Spoken
<1> QED
  BY <1>3 DEF t

LEMMA SpokenShrinks ==
  ASSUME NEW s \in Seq(Replies), s # << >>, NEW at, Spoken(s, at)
  PROVE  /\ Spoken(Tail(s), at)
         /\ s[1].kind = "Progress" => at = "searching" \/ Has(Tail(s), Words)
<1> DEFINE t == Tail(s)
<1>1. /\ t \in Seq(Replies) /\ Len(t) = Len(s) - 1 /\ Len(s) \in Nat /\ Len(s) >= 1
      /\ \A i \in 1..(Len(s) - 1) : t[i] = s[i + 1]
  BY TailElements
<1> HIDE DEF t
<1>2. ASSUME NEW i \in 1..Len(s), s[i].kind = "Progress", at # "searching"
      PROVE  \E j \in 1..Len(t) : i - 1 < j /\ t[j].kind \in Words
  <2>1. PICK j \in 1..Len(s) : i < j /\ s[j].kind \in Words
    BY <1>2 DEF Spoken
  <2>2. /\ j - 1 \in 1..Len(t) /\ j - 1 \in 1..(Len(s) - 1) /\ (j - 1) + 1 = j
        /\ i - 1 < j - 1
    BY <1>1, <2>1
  <2>3. t[j - 1] = s[j]
    BY <1>1, <2>2
  <2> QED
    BY <2>1, <2>2, <2>3
<1>3. ASSUME NEW i \in 1..Len(t), t[i].kind = "Progress", at # "searching"
      PROVE  \E j \in 1..Len(t) : i < j /\ t[j].kind \in Words
  <2>1. i + 1 \in 1..Len(s) /\ i \in 1..(Len(s) - 1) /\ (i + 1) - 1 = i
    BY <1>1
  <2>2. s[i + 1].kind = "Progress"
    BY <1>1, <1>3, <2>1
  <2> QED
    BY <1>2, <1>3, <2>1, <2>2
<1>4. ASSUME s[1].kind = "Progress", at # "searching"
      PROVE  Has(t, Words)
  <2>1. 1 \in 1..Len(s)
    BY <1>1
  <2>2. PICK j \in 1..Len(t) : t[j].kind \in Words
    BY <1>2, <1>4, <2>1
  <2>3. t[j] \in ToSet(t)
    BY <1>1, ElementsOf
  <2> QED
    BY <2>2, <2>3 DEF Has
<1>5. Spoken(t, at)
  BY <1>3 DEF Spoken
<1> QED
  BY <1>4, <1>5 DEF t

LEMMA RisingGrows ==
  ASSUME NEW s \in Seq(Requests), NEW r \in Requests, Rising(s),
         \A e \in ToSet(s) : e.id < r.id
  PROVE  Rising(Append(s, r))
<1> DEFINE t == Append(s, r)
<1>1. /\ Len(t) = Len(s) + 1 /\ Len(s) \in Nat /\ t[Len(s) + 1] = r
      /\ \A i \in 1..Len(s) : t[i] = s[i] /\ s[i] \in ToSet(s)
  BY AppendElements, ElementsOf
<1> HIDE DEF t
<1>2. ASSUME NEW i \in 1..Len(t), NEW j \in 1..Len(t), i < j
      PROVE  t[i].id < t[j].id
  <2>1. i \in 1..Len(s)
    BY <1>1, <1>2
  <2>2. CASE j = Len(s) + 1
    BY <1>1, <2>1, <2>2
  <2>3. CASE j # Len(s) + 1
    <3>1. j \in 1..Len(s)
      BY <1>1, <2>3
    <3> QED
      BY <1>1, <1>2, <2>1, <3>1 DEF Rising
  <2> QED
    BY <2>2, <2>3
<1>3. Rising(t)
  BY <1>2 DEF Rising
<1> QED
  BY <1>3 DEF t

LEMMA RisingPagesGrows ==
  ASSUME NEW s \in Seq(Replies), NEW r \in Replies, RisingPages(s),
         IsPage(r) => \A e \in PagesIn(s) : e.page.id < r.page.id
  PROVE  RisingPages(Append(s, r))
<1> DEFINE t == Append(s, r)
<1>1. /\ Len(t) = Len(s) + 1 /\ Len(s) \in Nat /\ t[Len(s) + 1] = r
      /\ \A i \in 1..Len(s) : t[i] = s[i] /\ s[i] \in ToSet(s)
  BY AppendElements, ElementsOf
<1> HIDE DEF t
<1>2. ASSUME NEW i \in 1..Len(t), NEW j \in 1..Len(t), i < j, IsPage(t[i]), IsPage(t[j])
      PROVE  t[i].page.id < t[j].page.id
  <2>1. i \in 1..Len(s)
    BY <1>1, <1>2
  <2>2. CASE j = Len(s) + 1
    <3>1. t[i] \in PagesIn(s) /\ IsPage(r)
      BY <1>1, <1>2, <2>1, <2>2 DEF PagesIn
    <3> QED
      BY <1>1, <2>2, <3>1
  <2>3. CASE j # Len(s) + 1
    <3>1. j \in 1..Len(s)
      BY <1>1, <2>3
    <3> QED
      BY <1>1, <1>2, <2>1, <3>1 DEF RisingPages
  <2> QED
    BY <2>2, <2>3
<1>3. RisingPages(t)
  BY <1>2 DEF RisingPages
<1> QED
  BY <1>3 DEF t

LEMMA RisingPagesShrinks ==
  ASSUME NEW s \in Seq(Replies), s # << >>, RisingPages(s)
  PROVE  /\ RisingPages(Tail(s))
         /\ IsPage(s[1]) => \A e \in PagesIn(Tail(s)) : s[1].page.id < e.page.id
<1> DEFINE t == Tail(s)
<1>1. /\ t \in Seq(Replies) /\ Len(t) = Len(s) - 1 /\ Len(s) \in Nat /\ Len(s) >= 1
      /\ \A i \in 1..(Len(s) - 1) : t[i] = s[i + 1]
  BY TailElements
<1> HIDE DEF t
<1>2. ASSUME NEW i \in 1..Len(t)
      PROVE  i + 1 \in 1..Len(s) /\ i \in 1..(Len(s) - 1) /\ t[i] = s[i + 1] /\ 1 < i + 1
  <2>1. i + 1 \in 1..Len(s) /\ i \in 1..(Len(s) - 1) /\ 1 < i + 1
    BY <1>1
  <2> QED
    BY <1>1, <2>1
<1>3. ASSUME NEW i \in 1..Len(t), NEW j \in 1..Len(t), i < j, IsPage(t[i]), IsPage(t[j])
      PROVE  t[i].page.id < t[j].page.id
  <2>1. i + 1 < j + 1
    BY <1>3
  <2> QED
    BY <1>2, <1>3, <2>1 DEF RisingPages
<1>4. ASSUME IsPage(s[1]), NEW e \in PagesIn(t)
      PROVE  s[1].page.id < e.page.id
  <2>1. PICK i \in 1..Len(t) : e = t[i]
    BY <1>1, ElementsOf DEF PagesIn
  <2>2. 1 \in 1..Len(s) /\ IsPage(s[i + 1])
    BY <1>1, <1>2, <2>1 DEF PagesIn
  <2> QED
    BY <1>2, <1>4, <2>1, <2>2 DEF RisingPages
<1>5. RisingPages(t)
  BY <1>3 DEF RisingPages
<1> QED
  BY <1>4, <1>5 DEF t

(* What merging the requests keeps: everything but pages, and of those the *)
(* last, behind the rest.                                                  *)
LEMMA KeptRequests ==
  ASSUME NEW s \in Seq(Requests), NEW pages \in BOOLEAN
  PROVE  /\ Kept(s, pages) \in Seq(Requests)
         /\ ToSet(Kept(s, pages)) = {e \in ToSet(s) : IsPage(e) = pages}
<1> DEFINE I == {i \in 1..Len(s) : IsPage(s[i]) = pages}
<1>1. Within(I, Len(s))
  BY DEF Within
<1>2. Kept(s, pages) = Picked(s, I)
  BY DEF Kept
<1>3. {e \in ToSet(s) : IsPage(e) = pages} = {s[i] : i \in I}
  <2>1. ToSet(s) = {s[i] : i \in 1..Len(s)}
    BY ElementsOf
  <2> QED
    BY <2>1
<1> HIDE DEF I
<1>4. Picked(s, I) \in Seq(Requests) /\ Len(Picked(s, I)) = Cardinality(I)
  BY <1>1, PickedType
<1>5. ToSet(Picked(s, I)) = {Picked(s, I)[k] : k \in 1..Cardinality(I)}
  BY <1>4, ElementsOf
<1>6. {Picked(s, I)[k] : k \in 1..Cardinality(I)} = {s[i] : i \in I}
  BY <1>1, PickedElements
<1>7. ToSet(Kept(s, pages)) = {e \in ToSet(s) : IsPage(e) = pages}
  BY <1>2, <1>3, <1>5, <1>6
<1> QED
  BY <1>2, <1>4, <1>7

LEMMA LastKept ==
  ASSUME NEW s \in Seq(Requests), Rising(s), Kept(s, TRUE) # << >>,
         NEW e \in PagesIn(s), \A p \in PagesIn(s) : p.id <= e.id
  PROVE  Kept(s, TRUE)[Len(Kept(s, TRUE))] = e
<1> DEFINE I == {i \in 1..Len(s) : IsPage(s[i]) = TRUE}
           n == Cardinality(I)
<1>1. Within(I, Len(s)) /\ Len(s) \in Nat
  BY LenProperties DEF Within
<1>2. Kept(s, TRUE) = Picked(s, I)
  BY DEF Kept
<1>3. \A i \in I : i \in 1..Len(s) /\ IsPage(s[i]) /\ s[i] \in Requests
  BY ElementOfSeq
<1>4. \E i \in I : e = s[i]
  BY ElementsOf DEF PagesIn
<1>5. \A i \in I : s[i] \in PagesIn(s)
  BY <1>3, ElementsOf DEF PagesIn
<1> HIDE DEF I
<1>6. /\ Picked(s, I) \in Seq(Requests) /\ Len(Picked(s, I)) = n /\ n \in Nat
      /\ \A k \in 1..n : Nth(I, k) \in I /\ Picked(s, I)[k] = s[Nth(I, k)]
  BY <1>1, PickedType
<1>7. {Picked(s, I)[k] : k \in 1..n} = {s[i] : i \in I}
  BY <1>1, PickedElements
<1>8. PICK k \in 1..n : Picked(s, I)[k] = e
  BY <1>4, <1>7
<1>9. n \in 1..n
  BY <1>6, <1>8
<1>10. k = n
  <2>1. SUFFICES ASSUME k < n PROVE FALSE
    BY <1>6, <1>8
  <2>2. Nth(I, k) < Nth(I, n)
    BY <1>1, <1>9, <2>1, NthIncreases
  <2>3. s[Nth(I, k)].id < s[Nth(I, n)].id
    BY <1>3, <1>6, <1>9, <2>2 DEF Rising
  <2>4. s[Nth(I, n)].id <= e.id /\ s[Nth(I, k)] = e
    BY <1>5, <1>6, <1>8, <1>9
  <2>5. s[Nth(I, n)].id \in Nat /\ e.id \in Nat
    BY <1>3, <1>4, <1>6, <1>9 DEF Requests
  <2> QED
    BY <2>3, <2>4, <2>5
<1> QED
  BY <1>2, <1>6, <1>8, <1>10

LEMMA CoalescedFacts ==
  ASSUME NEW s \in Seq(Requests)
  PROVE  /\ Coalesced(s) \in Seq(Requests) /\ PageLast(Coalesced(s))
         /\ ToSet(Coalesced(s)) \subseteq ToSet(s)
         /\ \A e \in ToSet(s) : ~IsPage(e) => e \in ToSet(Coalesced(s))
         /\ Rising(s) =>
              \A e \in PagesIn(s) :
                (\A p \in PagesIn(s) : p.id <= e.id) => e \in ToSet(Coalesced(s))
<1> DEFINE rest == Kept(s, FALSE)
           pages == Kept(s, TRUE)
           last == pages[Len(pages)]
<1>1. /\ rest \in Seq(Requests) /\ ToSet(rest) = {e \in ToSet(s) : IsPage(e) = FALSE}
      /\ pages \in Seq(Requests) /\ ToSet(pages) = {e \in ToSet(s) : IsPage(e) = TRUE}
  BY KeptRequests
<1>2. ASSUME Rising(s), pages # << >>, NEW e \in PagesIn(s), \A p \in PagesIn(s) : p.id <= e.id
      PROVE  last = e
  BY <1>2, LastKept
<1>3. Coalesced(s) = rest \o (IF pages = << >> THEN << >> ELSE <<last>>)
  BY DEF Coalesced, Last
<1> HIDE DEF rest, pages
<1>4. \A i \in 1..Len(rest) : ~IsPage(rest[i])
  BY <1>1, ElementsOf
<1>5. CASE pages = << >>
  <2>1. Coalesced(s) = rest
    BY <1>1, <1>3, <1>5, ConcatEmptySeq
  <2>2. PagesIn(s) = {}
    BY <1>1, <1>5, NoElements DEF PagesIn
  <2> QED
    BY <1>1, <1>4, <2>1, <2>2 DEF PageLast
<1>6. CASE pages # << >>
  <2>1. last \in Requests /\ last \in ToSet(pages)
    <3>1. Len(pages) \in 1..Len(pages)
      BY <1>1, <1>6, EmptySeq
    <3> QED
      BY <1>1, <3>1, ElementsOf, ElementOfSeq
  <2> HIDE DEF last
  <2>2. Coalesced(s) = Append(rest, last)
    BY <1>1, <1>3, <1>6, <2>1, AppendIsConcat
  <2>3. /\ Append(rest, last) \in Seq(Requests) /\ Len(Append(rest, last)) = Len(rest) + 1
        /\ Len(rest) \in Nat /\ \A i \in 1..Len(rest) : Append(rest, last)[i] = rest[i]
        /\ ToSet(Append(rest, last)) = ToSet(rest) \cup {last}
    BY <1>1, <2>1, AppendElements
  <2>4. PageLast(Coalesced(s))
    BY <1>4, <2>2, <2>3 DEF PageLast
  <2> QED
    BY <1>1, <1>2, <1>6, <2>1, <2>2, <2>3, <2>4
<1> QED
  BY <1>5, <1>6

-----------------------------------------------------------------------------
(* What a step of its thread may do to a worker: it goes on with what it   *)
(* owes, takes nothing back and loses no page on its way.                  *)
Pending(w) == ToCome(w) \cup Answered(w)

Continues(v, g, held, w, then) ==
  /\ then \in WorkerType /\ Sound(g, then)
  /\ then.stop = w.stop /\ then.file = w.file
  /\ Owes(w, held) => Owes(then, held)
  /\ ~w.stop =>
       /\ then.asked = w.asked
       /\ w.at = "ended" => then.at = "ended"
       /\ Unopened(then) => Unopened(w)
       /\ Unopened(w) => Unopened(then) \/ then.at = "ended"
       /\ Pending(then) \subseteq Pending(w)
       /\ v.mode \in Pages /\ OnItsWay(v, g, w) => OnItsWay(v, g, then) \/ then.at = "ended" \/ Unopened(then)

LEMMA WorkerFields ==
  ASSUME NEW w \in WorkerType
  PROVE  /\ w.requests \in Seq(Requests) /\ w.replies \in Seq(Replies) /\ w.todo \in Seq(Requests)
         /\ w.sent \in Nat /\ w.asked \in Nat /\ w.failed \in Nat
         /\ w.at \in Places /\ w.stop \in BOOLEAN /\ w.chunks \in Nat
         /\ w.index \in {None, "building", "partial", "complete"}
BY DEF WorkerType

LEMMA IdTypes ==
  ASSUME NEW w \in WorkerType
  PROVE  Listed(w) \subseteq Nat /\ Requested(w) \subseteq Nat /\ Answered(w) \subseteq Nat
<1>0. w.requests \in Seq(Requests) /\ w.replies \in Seq(Replies) /\ w.todo \in Seq(Requests)
  BY WorkerFields
<1>1. /\ \A r \in PagesIn(w.todo) : r.id \in Nat
      /\ \A r \in PagesIn(w.requests) : r.id \in Nat
  <2>1. PagesIn(w.todo) \subseteq Requests /\ PagesIn(w.requests) \subseteq Requests
    BY <1>0, PagesAre
  <2> QED
    BY <2>1 DEF Requests
<1>2. \A r \in PagesIn(w.replies) : r.page.id \in Nat
  <2>1. PagesIn(w.replies) \subseteq Replies
    BY <1>0, PagesAre
  <2> QED
    BY <2>1 DEF Replies, PageType
<1> QED
  BY <1>1, <1>2 DEF Listed, Requested, Answered

(* The channels stay as they are, or a reply that is no page is added.     *)
LEMMA QueuedKept ==
  ASSUME NEW g, NEW w \in WorkerType, NEW then \in WorkerType,
         then.todo = w.todo, then.requests = w.requests,
         then.sent = w.sent, then.asked = w.asked, then.failed = w.failed,
         \/ then.replies = w.replies
         \/ \E r \in Replies : ~IsPage(r) /\ then.replies = Append(w.replies, r)
  PROVE  /\ Queued(g, w) => Queued(g, then)
         /\ Pending(then) = Pending(w)
<1>0. w.replies \in Seq(Replies)
  BY WorkerFields
<1>1. PagesIn(then.replies) = PagesIn(w.replies)
  <2>1. ASSUME NEW r \in Replies, ~IsPage(r)
        PROVE  PagesIn(Append(w.replies, r)) = PagesIn(w.replies)
    <3> DEFINE old == w.replies
    <3>1. old \in Seq(Replies)
      BY <1>0
    <3> HIDE DEF old
    <3>2. PagesIn(Append(old, r)) = PagesIn(old) \cup (IF IsPage(r) THEN {r} ELSE {})
      BY <3>1, PagesAppended
    <3>3. PagesIn(Append(old, r)) = PagesIn(old)
      BY <2>1, <3>2
    <3> QED
      BY <3>3 DEF old
  <2>2. CASE then.replies = w.replies
    BY <2>2
  <2>3. CASE \E r \in Replies : ~IsPage(r) /\ then.replies = Append(w.replies, r)
    <3>1. PICK r \in Replies : ~IsPage(r) /\ then.replies = Append(w.replies, r)
      BY <2>3
    <3>2. PagesIn(Append(w.replies, r)) = PagesIn(w.replies)
      BY <2>1, <3>1
    <3> QED
      BY <3>1, <3>2
  <2> QED
    BY <2>2, <2>3
<1>2. RisingPages(w.replies) => RisingPages(then.replies)
  BY RisingPagesGrows, WorkerFields
<1> QED
  BY <1>1, <1>2 DEF Queued, Pending, ToCome, Listed, Requested, Answered

(* The first on the list is done, and answered by a page or not.           *)
LEMMA QueuedServed ==
  ASSUME NEW g, NEW w \in WorkerType, NEW then \in WorkerType,
         w.todo # << >>, PageLast(w.todo),
         then.todo = Tail(w.todo), then.requests = w.requests,
         then.sent = w.sent, then.asked = w.asked,
         NEW r \in Replies, then.replies = Append(w.replies, r),
         IsPage(r) => IsPage(w.todo[1]) /\ r.page.id = w.todo[1].id /\ r.page.by = g,
         \/ then.failed = w.failed
         \/ IsPage(w.todo[1]) /\ ~IsPage(r) /\ then.failed = w.todo[1].id
  PROVE  /\ Queued(g, w) => Queued(g, then)
         /\ Pending(then) \subseteq Pending(w)
<1> DEFINE head == w.todo[1]
<1>1. /\ head \in Requests /\ head.id \in Nat
      /\ PagesIn(w.todo) = PagesIn(then.todo) \cup (IF IsPage(head) THEN {head} ELSE {})
  <2>1. w.todo \in Seq(Requests)
    BY WorkerFields
  <2>2. head \in Requests
    BY <2>1, TailElements
  <2>3. PagesIn(w.todo) = PagesIn(then.todo) \cup (IF IsPage(head) THEN {head} ELSE {})
    BY <2>1, PagesTail
  <2> QED
    BY <2>2, <2>3 DEF Requests
<1>2. IsPage(head) => PagesIn(then.todo) = {}
  BY PageLastShrinks, NoPages, WorkerFields
<1>3. PagesIn(then.replies) = PagesIn(w.replies) \cup (IF IsPage(r) THEN {r} ELSE {})
  BY PagesAppended, WorkerFields
<1> HIDE DEF head
<1>4. /\ Listed(w) = Listed(then) \cup (IF IsPage(head) THEN {head.id} ELSE {})
      /\ IsPage(head) => Listed(then) = {}
      /\ Requested(then) = Requested(w)
      /\ Answered(then) = Answered(w) \cup (IF IsPage(r) THEN {r.page.id} ELSE {})
  BY <1>1, <1>2, <1>3 DEF Listed, Requested, Answered
<1>5. IsPage(r) => IsPage(head) /\ r.page.id = head.id /\ r.page.by = g
  BY DEF head
<1>6. Pending(then) \subseteq Pending(w)
  BY <1>4, <1>5 DEF Pending, ToCome
<1>7. ASSUME Queued(g, w)
      PROVE  Queued(g, then)
  <2>1. /\ w.failed \in Nat /\ w.asked \in Nat
        /\ Listed(w) \subseteq Nat /\ Requested(w) \subseteq Nat /\ Answered(w) \subseteq Nat
    BY WorkerFields, IdTypes
  <2>2. ToCome(then) \subseteq ToCome(w)
    BY <1>4 DEF ToCome
  <2>3. RisingPages(then.replies)
    <3>1. IsPage(r) => \A e \in PagesIn(w.replies) : e.page.id < r.page.id
      BY <1>4, <1>5, <1>7 DEF Queued, ToCome, Answered
    <3> QED
      BY <1>7, <3>1, RisingPagesGrows, WorkerFields DEF Queued
  <2>4. \A id \in Listed(then) : \A next \in Requested(then) : id < next
    BY <1>4, <1>7 DEF Queued
  <2>5. /\ then.failed <= then.asked
        /\ \A id \in ToCome(then) : then.failed < id /\ id <= then.asked
    <3>1. CASE then.failed = w.failed
      BY <1>7, <2>2, <3>1 DEF Queued
    <3>2. CASE IsPage(head) /\ then.failed = head.id
      <4>1. head.id \in Listed(w)
        BY <1>4, <3>2
      <4>2. head.id <= w.asked
        BY <1>7, <4>1 DEF Queued, ToCome
      <4>3. \A id \in ToCome(then) : id \in Requested(w) /\ id \in ToCome(w)
        BY <1>4, <3>2 DEF ToCome
      <4> QED
        BY <1>7, <3>2, <4>1, <4>2, <4>3 DEF Queued
    <3> QED
      BY <3>1, <3>2 DEF head
  <2>6. \A id \in Answered(then) : id <= then.asked /\ \A next \in ToCome(then) : id < next
    <3>1. ASSUME NEW id \in Answered(w)
          PROVE  id <= then.asked /\ \A next \in ToCome(then) : id < next
      BY <1>7, <2>2 DEF Queued
    <3>2. ASSUME IsPage(r)
          PROVE  r.page.id <= then.asked /\ \A next \in ToCome(then) : r.page.id < next
      <4>1. head.id \in Listed(w) /\ r.page.id = head.id
        BY <1>4, <1>5, <3>2
      <4>2. ToCome(then) \subseteq Requested(w)
        BY <1>4, <1>5, <3>2 DEF ToCome
      <4> QED
        BY <1>7, <4>1, <4>2 DEF Queued, ToCome
    <3> QED
      BY <1>4, <3>1, <3>2
  <2>7. \A e \in PagesIn(then.replies) : e.page.by = g
    BY <1>3, <1>5, <1>7 DEF Queued
  <2> QED
    BY <1>7, <2>3, <2>4, <2>5, <2>6, <2>7 DEF Queued
<1> QED
  BY <1>6, <1>7

LEMMA ContinuesKept ==
  ASSUME NEW v, NEW g, NEW held \in BOOLEAN, NEW w \in WorkerType, NEW then \in WorkerType,
         Sound(g, w), Placed(then),
         then.stop = w.stop, then.file = w.file,
         then.todo = w.todo, then.requests = w.requests,
         then.sent = w.sent, then.asked = w.asked, then.failed = w.failed,
         \/ then.replies = w.replies
         \/ \E r \in Replies :
              /\ ~IsPage(r) /\ r.kind # "Opened" /\ then.replies = Append(w.replies, r),
         w.at = "searching" => then.at = "searching",
         w.at = "ended" <=> then.at = "ended",
         w.at # "opening", then.at # "opening",
         ~w.stop /\ Late(w) => Late(then), Indexed(w) => Indexed(then)
  PROVE  Continues(v, g, held, w, then)
<1>1. \/ then.replies = w.replies
      \/ \E r \in Replies : ~IsPage(r) /\ then.replies = Append(w.replies, r)
  OBVIOUS
<1>2. /\ Queued(g, w) => Queued(g, then)
      /\ Pending(then) = Pending(w)
  BY <1>1, QueuedKept
<1>3. w.replies \in Seq(Replies)
  BY WorkerFields
<1>4. /\ ToSet(w.replies) \subseteq ToSet(then.replies)
      /\ Has(w.replies, Words) => Has(then.replies, Words)
      /\ Has(then.replies, {"Opened"}) <=> Has(w.replies, {"Opened"})
  <2>1. CASE then.replies = w.replies
    BY <2>1
  <2>2. CASE \E r \in Replies :
               ~IsPage(r) /\ r.kind # "Opened" /\ then.replies = Append(w.replies, r)
    <3>1. PICK r \in Replies : r.kind # "Opened" /\ then.replies = Append(w.replies, r)
      BY <2>2
    <3>2. ToSet(Append(w.replies, r)) = ToSet(w.replies) \cup {r}
      BY <1>3, AppendElements
    <3> QED
      BY <3>1, <3>2 DEF Has
  <2> QED
    BY <2>1, <2>2
<1>5. Owes(w, held) => Owes(then, held)
  BY <1>4 DEF Owes
<1>6. ASSUME ~w.stop
      PROVE  /\ Unopened(then) <=> Unopened(w)
             /\ OnItsWay(v, g, w) => OnItsWay(v, g, then)
  BY <1>4, <1>6 DEF Unopened, OnItsWay, Wanted, Right
<1> QED
  BY <1>2, <1>5, <1>6 DEF Continues, Sound

LEMMA ContinuesServed ==
  ASSUME NEW v, NEW g, NEW held \in BOOLEAN, NEW w \in WorkerType, NEW then \in WorkerType,
         Sound(g, w), w.at \in {"handling", "searching"}, then.at = "serving",
         then.stop = w.stop, then.file = w.file, then.index = w.index,
         then.todo = Tail(w.todo), then.requests = w.requests,
         then.sent = w.sent, then.asked = w.asked,
         NEW r \in Replies, then.replies = Append(w.replies, r),
         r.kind \in Words \/ r.kind \in Modes, w.at = "searching" => r.kind \in Words,
         r.kind \in Modes =>
           /\ r.kind = w.todo[1].kind /\ r.page.id = w.todo[1].id /\ r.page.by = g
           /\ r.page.hit = w.todo[1].hit /\ r.page.final = (w.index \in {"complete", None}),
         IF ~w.stop /\ IsPage(w.todo[1]) /\ r.kind \in Words
           THEN then.failed = w.todo[1].id ELSE then.failed = w.failed
  PROVE  Continues(v, g, held, w, then)
<1> DEFINE head == w.todo[1]
<1>1. /\ w.replies \in Seq(Replies) /\ w.todo \in Seq(Requests) /\ w.todo # << >>
      /\ PageLast(w.todo) /\ OpenedFirst(w.replies) /\ Spoken(w.replies, w.at)
      /\ w.at = "searching" => head.kind = "Search"
      /\ w.at = "handling" => head.kind # "Search"
  BY WorkerFields DEF Sound, Placed
<1>2. /\ ToSet(w.todo) = {head} \cup ToSet(then.todo)
      /\ ToSet(then.replies) = ToSet(w.replies) \cup {r}
  BY <1>1, TailElements, AppendElements
<1>3. r.kind \notin {"Opened", "Progress", "IndexComplete"} /\ (IsPage(r) <=> r.kind \in Pages)
      /\ (IsPage(head) <=> head.kind \in Pages) /\ Pages \subseteq Modes
  BY DEF Words, Modes, IsPage, Pages
<1>4. r.kind \in Words => r.kind \notin Modes
  BY DEF Words, Modes
<1> HIDE DEF head
<1>5. Placed(then)
  <2>1. PageLast(then.todo)
    BY <1>1, PageLastShrinks
  <2>2. OpenedFirst(then.replies)
    BY <1>1, <1>3, OpenedFirstGrows
  <2>3. Spoken(then.replies, then.at)
    BY <1>1, <1>3, SpokenGrows
  <2> QED
    BY <2>1, <2>2, <2>3 DEF Placed
<1>6. /\ ~w.stop /\ Queued(g, w) => Queued(g, then)
      /\ Pending(then) \subseteq Pending(w)
  <2>1. IsPage(r) => IsPage(head) /\ r.page.id = head.id /\ r.page.by = g
    BY <1>3 DEF head
  <2>2. \/ then.failed = w.failed
        \/ IsPage(head) /\ ~IsPage(r) /\ then.failed = head.id
    BY <1>3, <1>4 DEF head
  <2> QED
    BY <1>1, <2>1, <2>2, QueuedServed DEF head
<1>7. Owes(w, held) => Owes(then, held)
  <2>1. CASE r.kind \in Words
    BY <1>2, <2>1 DEF Owes, Has
  <2>2. CASE r.kind \notin Words
    <3>1. head.kind # "Search" /\ w.at # "searching" /\ w.at # "ended"
      BY <1>1, <2>2
    <3>2. Has(w.todo, {"Search"}) => Has(then.todo, {"Search"})
      BY <1>2, <3>1 DEF Has
    <3>3. Has(w.replies, Words) => Has(then.replies, Words)
      BY <1>2 DEF Has
    <3> QED
      BY <3>1, <3>2, <3>3 DEF Owes
  <2> QED
    BY <2>1, <2>2
<1>8. /\ Unopened(then) <=> Unopened(w)
      /\ (Late(w) => Late(then)) /\ (Indexed(w) => Indexed(then))
  BY <1>2, <1>3 DEF Unopened, Late, Indexed, Has
<1>9. ASSUME ~w.stop, v.mode \in Pages, OnItsWay(v, g, w)
      PROVE  OnItsWay(v, g, then)
  <2>1. CASE \E q \in ToSet(w.requests) \cup ToSet(then.todo) : Wanted(v, q, w)
    BY <2>1 DEF OnItsWay, Wanted
  <2>2. CASE Wanted(v, head, w)
    <3>1. IsPage(head) /\ head.id = w.asked
      BY <1>3, <1>9, <2>2 DEF Wanted
    <3>2. CASE r.kind \in Words
      BY <1>9, <3>1, <3>2 DEF OnItsWay, head
    <3>3. CASE r.kind \in Modes
      <4>1. w.index \in {None, "building", "partial", "complete"}
        BY WorkerFields
      <4>2. r.kind = v.mode /\ Right(v, g, r.page, then)
        <5>1. (r.page.final \/ Late(then)) /\ (r.page.final => Indexed(then))
          BY <3>3, <4>1 DEF Late, Indexed
        <5> QED
          BY <2>2, <3>3, <5>1 DEF Right, Wanted, head
      <4> QED
        BY <1>2, <4>2 DEF OnItsWay
    <3> QED
      BY <3>2, <3>3
  <2>3. CASE \E q \in ToSet(w.replies) : q.kind = v.mode /\ Right(v, g, q.page, w)
    <3>1. PICK q \in ToSet(w.replies) : q.kind = v.mode /\ Right(v, g, q.page, w)
      BY <2>3
    <3>2. q \in ToSet(then.replies) /\ Right(v, g, q.page, then)
      BY <1>2, <1>8, <3>1 DEF Right
    <3> QED
      BY <3>1, <3>2 DEF OnItsWay
  <2>4. CASE Right(v, g, ShownOf(v), w)
    <3>1. Right(v, g, ShownOf(v), then)
      BY <1>8, <2>4 DEF Right
    <3> QED
      BY <3>1 DEF OnItsWay
  <2>5. CASE w.failed = w.asked
    <3>1. ~IsPage(head)
      <4>1. SUFFICES ASSUME IsPage(head) PROVE FALSE
        OBVIOUS
      <4>2. head \in PagesIn(w.todo)
        BY <1>2, <4>1 DEF PagesIn
      <4>3. head.id \in ToCome(w)
        BY <4>2 DEF ToCome, Listed
      <4>4. w.failed < head.id /\ head.id <= w.asked
        BY <1>9, <4>3 DEF Sound, Queued
      <4>5. head.id \in Nat /\ w.failed \in Nat
        BY <4>3, IdTypes, WorkerFields DEF ToCome
      <4> QED
        BY <2>5, <4>4, <4>5
    <3>2. then.failed = w.failed
      BY <3>1 DEF head
    <3> QED
      BY <2>5, <3>2 DEF OnItsWay
  <2> QED
    BY <1>2, <1>9, <2>1, <2>2, <2>3, <2>4, <2>5 DEF OnItsWay
<1>10. then.at # "ended" /\ w.at # "ended"
  OBVIOUS
<1> QED
  BY <1>5, <1>6, <1>7, <1>8, <1>9, <1>10 DEF Continues, Sound

-----------------------------------------------------------------------------
(* Every step of a worker's thread, and of its index thread, goes on so.   *)
Working(g, held) ==
  /\ workers \in [1..MaxOpens -> WorkerType] /\ Sound(g, workers[g])
  /\ held => ~workers[g].stop

LEMMA BecomesOf ==
  ASSUME NEW g \in 1..MaxOpens, workers \in [1..MaxOpens -> WorkerType], NEW x, Becomes(g, x)
  PROVE  workers[g] \in WorkerType /\ workers'[g] = x
BY DEF Becomes

LEMMA NoPageType == NoPage \in PageType
BY DEF NoPage, PageType

LEMMA ReplyTypes ==
  \A kind \in Kinds : \A page \in PageType :
    /\ Reply(kind, page) \in Replies
    /\ Reply(kind, page).kind = kind /\ Reply(kind, page).page = page
BY DEF Reply, Replies

LEMMA EmptyChannels ==
  /\ \A at : Spoken(<< >>, at)
  /\ OpenedFirst(<< >>) /\ RisingPages(<< >>) /\ Rising(<< >>) /\ PageLast(<< >>)
<1> DEFINE e == << >>
<1>1. Len(e) = 0
  BY EmptySeq
<1> HIDE DEF e
<1>2. (\A at : Spoken(e, at)) /\ OpenedFirst(e) /\ RisingPages(e) /\ Rising(e) /\ PageLast(e)
  BY <1>1 DEF Spoken, OpenedFirst, RisingPages, Rising, PageLast
<1> QED
  BY <1>2 DEF e

LEMMA FirstReply ==
  ASSUME NEW s \in Seq(Replies), s = << >>, NEW r \in Replies, r.kind # "Progress", NEW at
  PROVE  /\ ToSet(Append(s, r)) = {r} /\ OpenedFirst(Append(s, r))
         /\ RisingPages(Append(s, r)) /\ Spoken(Append(s, r), at)
<1>1. ToSet(s) = {} /\ PagesIn(s) = {}
  BY NoElements, NoPages
<1>2. ToSet(Append(s, r)) = {r}
  <2>1. \A q \in Seq(Replies) : ToSet(Append(q, r)) = ToSet(q) \cup {r}
    BY AppendElements
  <2>2. ToSet(Append(s, r)) = ToSet(s) \cup {r}
    BY <2>1
  <2> QED
    BY <1>1, <2>2
<1>3. OpenedFirst(Append(s, r))
  BY EmptyChannels, OpenedFirstGrows
<1>4. RisingPages(Append(s, r))
  BY <1>1, EmptyChannels, RisingPagesGrows
<1>5. Spoken(s, "idle")
  BY EmptyChannels
<1>6. Spoken(Append(s, r), at)
  BY <1>5, SpokenGrows
<1> QED
  BY <1>2, <1>3, <1>4, <1>6

LEMMA OpensContinues ==
  ASSUME NEW v, NEW g \in 1..MaxOpens, NEW held \in BOOLEAN, Working(g, held), Opens(g)
  PROVE  Continues(v, g, held, workers[g], workers'[g])
<1> DEFINE w == workers[g]
           then == workers'[g]
           r == Reply("Opened", NoPage)
<1>1. /\ w \in WorkerType /\ Sound(g, w) /\ w.at = "opening" /\ r \in Replies /\ r.kind = "Opened"
  BY NoPageType, ReplyTypes, BecomesOf DEF Working, Opens, Kinds
<1>2. then = [Replied(w, "Opened") EXCEPT
                 !.at = "idle",
                 !.index = IF ~embedded /\ Files[w.file] = "Text" THEN "building" ELSE @]
  BY BecomesOf DEF Working, Opens
<1> HIDE DEF w, then
<1>3. /\ then \in WorkerType
      /\ then.replies = Append(w.replies, r) /\ then.at = "idle"
      /\ then.stop = w.stop /\ then.file = w.file /\ then.todo = w.todo
      /\ then.requests = w.requests /\ then.sent = w.sent
      /\ then.asked = w.asked /\ then.failed = w.failed
  <2>1. Append(w.replies, r) \in Seq(Replies)
    BY <1>1, AppendElements, WorkerFields
  <2> HIDE DEF r
  <2> QED
    BY <1>1, <1>2, <2>1 DEF Replied, WorkerType, Places, r
<1>4. w.replies = << >> /\ w.index = None /\ w.todo = << >> /\ PageLast(w.todo)
  BY <1>1 DEF Sound, Placed
<1> HIDE DEF r
<1>5. w.replies \in Seq(Replies)
  BY <1>1, WorkerFields
<1>6. /\ ToSet(then.replies) = {r}
      /\ OpenedFirst(then.replies) /\ Spoken(then.replies, then.at)
  BY <1>1, <1>3, <1>4, <1>5, FirstReply
<1>7. Placed(then)
  BY <1>3, <1>4, <1>6 DEF Placed
<1>8. ~IsPage(r)
  BY <1>1 DEF IsPage, Pages
<1>9. (Queued(g, w) => Queued(g, then)) /\ Pending(then) = Pending(w)
  BY <1>1, <1>3, <1>8, QueuedKept
<1>10. Owes(w, held) => Owes(then, held)
  BY <1>1, <1>3, <1>4, HasNothing DEF Owes
<1>11. Unopened(w) /\ Unopened(then)
  BY <1>1, <1>6 DEF Unopened, Has
<1>12. Continues(v, g, held, w, then)
  BY <1>1, <1>3, <1>7, <1>9, <1>10, <1>11 DEF Continues, Sound
<1> QED
  BY <1>12 DEF w, then

LEMMA OpenFailsContinues ==
  ASSUME NEW v, NEW g \in 1..MaxOpens, NEW held \in BOOLEAN, Working(g, held), OpenFails(g)
  PROVE  Continues(v, g, held, workers[g], workers'[g])
<1> DEFINE w == workers[g]
           then == workers'[g]
           r == Reply("Error", NoPage)
<1>1. /\ w \in WorkerType /\ Sound(g, w) /\ w.at = "opening" /\ r \in Replies /\ r.kind = "Error"
  BY NoPageType, ReplyTypes, BecomesOf DEF Working, OpenFails, Kinds
<1>2. then = [Replied(w, "Error") EXCEPT !.at = "ended", !.requests = << >>]
  BY BecomesOf DEF Working, OpenFails
<1> HIDE DEF w, then
<1>3. /\ then \in WorkerType
      /\ then.replies = Append(w.replies, r) /\ then.at = "ended"
      /\ then.stop = w.stop /\ then.file = w.file /\ then.todo = w.todo
      /\ then.requests = << >> /\ then.sent = w.sent
      /\ then.asked = w.asked /\ then.failed = w.failed /\ then.index = w.index
  <2>1. Append(w.replies, r) \in Seq(Replies) /\ << >> \in Seq(Requests)
    BY <1>1, AppendElements, WorkerFields, EmptySeq
  <2> HIDE DEF r
  <2> QED
    BY <1>1, <1>2, <2>1 DEF Replied, WorkerType, Places, r
<1>4. w.replies = << >> /\ w.index = None /\ w.todo = << >> /\ PageLast(w.todo)
  BY <1>1 DEF Sound, Placed
<1> HIDE DEF r
<1>5. /\ ToSet(then.requests) = {} /\ PagesIn(then.requests) = {} /\ PagesIn(then.todo) = {}
      /\ w.replies \in Seq(Replies) /\ Rising(then.requests)
  BY <1>1, <1>3, <1>4, NoElements, NoPages, EmptyChannels, WorkerFields
<1>6. ~IsPage(r)
  BY <1>1 DEF IsPage, Pages
<1>7. /\ ToSet(then.replies) = {r} /\ OpenedFirst(then.replies)
      /\ Spoken(then.replies, then.at) /\ RisingPages(then.replies)
  BY <1>1, <1>3, <1>4, <1>5, FirstReply
<1>9. Placed(then)
  BY <1>3, <1>4, <1>7 DEF Placed
<1>10. /\ Listed(then) = {} /\ Requested(then) = {} /\ Answered(then) = {}
       /\ PagesIn(then.replies) = {}
  BY <1>5, <1>6, <1>7 DEF Listed, Requested, Answered, PagesIn
<1>11. Queued(g, w) => Queued(g, then)
  BY <1>3, <1>5, <1>7, <1>10 DEF Queued, ToCome
<1>12. Owes(then, held) /\ Pending(then) = {}
  BY <1>1, <1>7, <1>10 DEF Owes, Has, Words, Pending, ToCome
<1>13. Unopened(w) /\ ~Unopened(then)
  BY <1>1, <1>3, <1>7 DEF Unopened, Has
<1>14. Continues(v, g, held, w, then)
  <2>1. w.at # "ended"
    BY <1>1
  <2> QED
    BY <1>1, <1>3, <1>9, <1>11, <1>12, <1>13, <2>1 DEF Continues, Sound
<1> QED
  BY <1>14 DEF w, then

LEMMA NeverStartsContinues ==
  ASSUME NEW v, NEW g \in 1..MaxOpens, NEW held \in BOOLEAN, Working(g, held), NeverStarts(g)
  PROVE  Continues(v, g, held, workers[g], workers'[g])
<1> DEFINE w == workers[g]
           then == workers'[g]
<1>1. /\ w \in WorkerType /\ Sound(g, w) /\ w.at = "opening"
      /\ then = [w EXCEPT !.at = "ended", !.requests = << >>]
  BY BecomesOf DEF Working, NeverStarts
<1> HIDE DEF w, then
<1>2. /\ then \in WorkerType /\ then.at = "ended" /\ then.requests = << >>
      /\ then.replies = w.replies /\ then.todo = w.todo
      /\ then.stop = w.stop /\ then.file = w.file /\ then.sent = w.sent
      /\ then.asked = w.asked /\ then.failed = w.failed
  <2>1. << >> \in Seq(Requests)
    BY EmptySeq
  <2> QED
    BY <1>1, <2>1 DEF WorkerType, Places
<1>3. /\ w.replies = << >> /\ w.todo = << >> /\ PageLast(w.todo)
      /\ OpenedFirst(w.replies) /\ Spoken(w.replies, "ended")
  BY <1>1 DEF Sound, Placed, Spoken
<1>4. Placed(then)
  BY <1>2, <1>3 DEF Placed
<1>5. /\ PagesIn(then.requests) = {} /\ PagesIn(then.todo) = {} /\ PagesIn(then.replies) = {}
      /\ Rising(then.requests) /\ ToSet(then.requests) = {} /\ RisingPages(then.replies)
  BY <1>2, <1>3, NoPages, NoElements, EmptyChannels
<1>6. Listed(then) = {} /\ Requested(then) = {} /\ Answered(then) = {}
  BY <1>5 DEF Listed, Requested, Answered
<1>7. /\ Queued(g, w) => Queued(g, then)
      /\ Pending(then) = {}
  BY <1>2, <1>5, <1>6 DEF Queued, ToCome, Pending
<1>8. Owes(w, held) => Owes(then, held)
  BY <1>1, <1>2, <1>3, HasNothing DEF Owes
<1>9. Unopened(w) /\ ~Unopened(then)
  BY <1>1, <1>2, <1>3, HasNothing DEF Unopened
<1>10. w.at # "ended"
  BY <1>1
<1>11. Continues(v, g, held, w, then)
  BY <1>1, <1>2, <1>4, <1>7, <1>8, <1>9, <1>10 DEF Continues, Sound
<1> QED
  BY <1>11 DEF w, then

(* An index thread that says nothing: it was stopped, or it failed.        *)
LEMMA IndexHaltsContinues ==
  ASSUME NEW v, NEW g \in 1..MaxOpens, NEW held \in BOOLEAN, Working(g, held),
         workers[g].index = "building", NEW index \in {"partial", "complete"},
         index = "partial" \/ workers[g].stop,
         Becomes(g, [workers[g] EXCEPT !.index = index])
  PROVE  Continues(v, g, held, workers[g], workers'[g])
<1> DEFINE w == workers[g]
           then == workers'[g]
<1>1. /\ w \in WorkerType /\ Sound(g, w) /\ then = [w EXCEPT !.index = index]
  BY BecomesOf DEF Working
<1>2. w.index = "building" /\ (index = "partial" \/ w.stop)
  OBVIOUS
<1> HIDE DEF w, then
<1>3. /\ then \in WorkerType /\ then.index = index /\ then.replies = w.replies
      /\ then.stop = w.stop /\ then.file = w.file /\ then.todo = w.todo /\ then.at = w.at
      /\ then.requests = w.requests /\ then.sent = w.sent
      /\ then.asked = w.asked /\ then.failed = w.failed
  BY <1>1 DEF WorkerType
<1>4. w.at # "opening"
  BY <1>1, <1>2 DEF Sound, Placed, None
<1>5. Placed(then)
  BY <1>1, <1>3, <1>4 DEF Sound, Placed
<1>6. (~w.stop => Late(then)) /\ ~Indexed(w)
  BY <1>2, <1>3 DEF Late, Indexed, None
<1>7. /\ ~w.stop /\ Late(w) => Late(then)
      /\ Indexed(w) => Indexed(then)
      /\ w.at = "searching" => then.at = "searching"
      /\ (w.at = "ended" <=> then.at = "ended") /\ then.at # "opening"
  BY <1>3, <1>4, <1>6
<1>8. /\ w \in WorkerType /\ Sound(g, w)
      /\ \/ then.replies = w.replies
         \/ \E r \in Replies :
              /\ ~IsPage(r) /\ r.kind # "Opened" /\ then.replies = Append(w.replies, r)
  BY <1>1, <1>3
<1>9. Continues(v, g, held, w, then)
  BY <1>3, <1>4, <1>5, <1>7, <1>8, ContinuesKept
<1> QED
  BY <1>9 DEF w, then

LEMMA IndexCompletes ==
  ASSUME NEW v, NEW g \in 1..MaxOpens, NEW held \in BOOLEAN, Working(g, held),
         workers[g].index = "building",
         Becomes(g, [Replied(workers[g], "IndexComplete") EXCEPT !.index = "complete"])
  PROVE  Continues(v, g, held, workers[g], workers'[g])
<1> DEFINE w == workers[g]
           then == workers'[g]
           r == Reply("IndexComplete", NoPage)
<1>1. /\ w \in WorkerType /\ Sound(g, w) /\ w.index = "building"
      /\ r \in Replies /\ r.kind = "IndexComplete"
  BY NoPageType, ReplyTypes, BecomesOf DEF Working, Kinds
<1>2. then = [Replied(w, "IndexComplete") EXCEPT !.index = "complete"]
  BY BecomesOf DEF Working
<1> HIDE DEF w, then
<1>3. /\ then \in WorkerType
      /\ then.replies = Append(w.replies, r)
      /\ then.stop = w.stop /\ then.file = w.file /\ then.todo = w.todo /\ then.at = w.at
      /\ then.requests = w.requests /\ then.sent = w.sent
      /\ then.asked = w.asked /\ then.failed = w.failed
  <2>1. Append(w.replies, r) \in Seq(Replies)
    BY <1>1, AppendElements, WorkerFields
  <2> HIDE DEF r
  <2> QED
    BY <1>1, <1>2, <2>1 DEF Replied, WorkerType, r
<1> HIDE DEF r
<1>4. /\ w.at # "opening" /\ w.replies \in Seq(Replies)
      /\ OpenedFirst(w.replies) /\ Spoken(w.replies, w.at) /\ PageLast(w.todo)
  BY <1>1, WorkerFields DEF Sound, Placed, None
<1>5. ~IsPage(r)
  BY <1>1 DEF IsPage, Pages
<1>6. OpenedFirst(then.replies) /\ Spoken(then.replies, then.at)
  <2>1. OpenedFirst(Append(w.replies, r))
    BY <1>1, <1>4, OpenedFirstGrows
  <2>2. Spoken(Append(w.replies, r), w.at)
    BY <1>1, <1>4, SpokenGrows
  <2> QED
    BY <1>3, <2>1, <2>2
<1>7. Placed(then)
  BY <1>1, <1>3, <1>4, <1>6 DEF Sound, Placed
<1>8. Late(then) /\ ~Indexed(w)
  <2>1. r \in ToSet(then.replies)
    BY <1>1, <1>3, <1>4, AppendElements
  <2> QED
    BY <1>1, <2>1 DEF Late, Indexed, Has, None
<1>9. \E q \in Replies :
         ~IsPage(q) /\ q.kind # "Opened" /\ then.replies = Append(w.replies, q)
  BY <1>1, <1>3, <1>5
<1>10. Continues(v, g, held, w, then)
  BY <1>1, <1>3, <1>4, <1>7, <1>8, <1>9, ContinuesKept
<1> QED
  BY <1>10 DEF w, then

LEMMA IndexContinues ==
  ASSUME NEW v, NEW g \in 1..MaxOpens, NEW held \in BOOLEAN, Working(g, held), Index(g)
  PROVE  Continues(v, g, held, workers[g], workers'[g])
<1>1. CASE IndexFails(g)
  <2>1. workers[g].index = "building" /\ Becomes(g, [workers[g] EXCEPT !.index = "partial"])
    BY <1>1 DEF IndexFails
  <2> QED
    BY <2>1, IndexHaltsContinues
<1>2. CASE IndexEnds(g) /\ workers[g].stop
  <2>1. workers[g].index = "building"
    BY <1>2 DEF IndexEnds
  <2>2. PICK index \in {"partial", "complete"} :
             Becomes(g, [workers[g] EXCEPT !.index = index])
    BY <1>2 DEF IndexEnds
  <2> QED
    BY <1>2, <2>1, <2>2, IndexHaltsContinues
<1>3. CASE IndexEnds(g) /\ ~workers[g].stop
  <2>1. /\ workers[g].index = "building"
        /\ Becomes(g, [Replied(workers[g], "IndexComplete") EXCEPT !.index = "complete"])
    BY <1>3 DEF IndexEnds
  <2> QED
    BY <2>1, IndexCompletes
<1> QED
  BY <1>1, <1>2, <1>3 DEF Index

LEMMA ReceivesContinues ==
  ASSUME NEW v, NEW g \in 1..MaxOpens, NEW held \in BOOLEAN, Working(g, held), Receives(g)
  PROVE  Continues(v, g, held, workers[g], workers'[g])
<1> DEFINE w == workers[g]
           then == workers'[g]
           list == Coalesced(w.requests)
<1>1. w \in WorkerType /\ Sound(g, w) /\ w.at = "idle" /\ ~w.stop
  BY BecomesOf DEF Working, Receives
<1>2. then = [w EXCEPT !.at = "serving", !.requests = << >>, !.todo = list]
  BY BecomesOf DEF Working, Receives
<1> HIDE DEF w, then
<1>3. /\ w.requests \in Seq(Requests) /\ list \in Seq(Requests) /\ PageLast(list)
      /\ ToSet(list) \subseteq ToSet(w.requests)
      /\ \A e \in ToSet(w.requests) : ~IsPage(e) => e \in ToSet(list)
      /\ Rising(w.requests) =>
           \A e \in PagesIn(w.requests) :
             (\A p \in PagesIn(w.requests) : p.id <= e.id) => e \in ToSet(list)
  BY <1>1, WorkerFields, CoalescedFacts
<1> HIDE DEF list
<1>4. /\ then \in WorkerType /\ then.replies = w.replies /\ then.todo = list
      /\ then.at = "serving" /\ then.requests = << >>
      /\ then.stop = w.stop /\ then.file = w.file /\ then.sent = w.sent
      /\ then.asked = w.asked /\ then.failed = w.failed /\ then.index = w.index
  <2>1. << >> \in Seq(Requests)
    BY EmptySeq
  <2> QED
    BY <1>1, <1>2, <1>3, <2>1 DEF WorkerType, Places
<1>5. w.todo = << >> /\ OpenedFirst(w.replies) /\ Spoken(w.replies, "serving")
  BY <1>1 DEF Sound, Placed, Spoken
<1>6. Placed(then)
  BY <1>3, <1>4, <1>5 DEF Placed
<1>7. /\ Listed(w) = {} /\ Requested(then) = {} /\ Listed(then) \subseteq Requested(w)
      /\ Answered(then) = Answered(w) /\ PagesIn(then.replies) = PagesIn(w.replies)
      /\ ToSet(then.requests) = {}
  BY <1>3, <1>4, <1>5, NoPages, NoElements DEF Listed, Requested, Answered, PagesIn
<1>8. Queued(g, w)
  BY <1>1 DEF Sound
<1>9. Queued(g, then)
  <2>1. Rising(<< >>)
    BY EmptySeq DEF Rising
  <2> QED
    BY <1>4, <1>7, <1>8, <2>1 DEF Queued, ToCome
<1>10. Pending(then) \subseteq Pending(w)
  BY <1>7 DEF Pending, ToCome
<1>11. Owes(w, held) => Owes(then, held)
  <2>1. Has(w.requests, {"Search"}) => Has(then.todo, {"Search"})
    BY <1>3, <1>4 DEF Has, IsPage, Pages
  <2> QED
    BY <1>1, <1>4, <1>5, <2>1, HasNothing DEF Owes
<1>12. Unopened(then) <=> Unopened(w)
  BY <1>1, <1>4 DEF Unopened
<1>13. ASSUME v.mode \in Pages, OnItsWay(v, g, w)
       PROVE  OnItsWay(v, g, then)
  <2>1. ASSUME NEW r \in ToSet(w.requests), Wanted(v, r, w)
        PROVE  r \in ToSet(then.todo) /\ Wanted(v, r, then)
    <3>1. r \in PagesIn(w.requests) /\ r.id = w.asked
      BY <1>13, <2>1 DEF PagesIn, IsPage, Wanted
    <3>2. \A p \in PagesIn(w.requests) : p.id <= r.id
      BY <1>8, <3>1 DEF Queued, ToCome, Requested
    <3> QED
      BY <1>3, <1>4, <1>8, <2>1, <3>1, <3>2 DEF Queued, Wanted
  <2> QED
    BY <1>4, <1>5, <1>13, <2>1, NoElements DEF OnItsWay, Right, Late, Indexed
<1>14. Continues(v, g, held, w, then)
  BY <1>1, <1>4, <1>6, <1>9, <1>10, <1>11, <1>12, <1>13 DEF Continues, Sound
<1> QED
  BY <1>14 DEF w, then

LEMMA StopsContinues ==
  ASSUME NEW v, NEW g \in 1..MaxOpens, NEW held \in BOOLEAN, Working(g, held), Stops(g)
  PROVE  Continues(v, g, held, workers[g], workers'[g])
<1> DEFINE w == workers[g]
           then == workers'[g]
<1>1. /\ w \in WorkerType /\ Sound(g, w) /\ w.at \in {"idle", "serving"}
      /\ w.stop /\ held = FALSE
  BY BecomesOf DEF Working, Stops
<1>2. then = Ended(w)
  BY BecomesOf DEF Working, Stops
<1> HIDE DEF w, then
<1>3. /\ then \in WorkerType /\ then.replies = w.replies /\ then.todo = << >>
      /\ then.at = "ended" /\ then.stop = w.stop /\ then.file = w.file
  <2>1. << >> \in Seq(Requests)
    BY EmptySeq
  <2> QED
    BY <1>1, <1>2, <2>1 DEF Ended, WorkerType, Places
<1>4. OpenedFirst(w.replies) /\ Spoken(w.replies, "ended") /\ PageLast(<< >>)
  BY <1>1, EmptySeq DEF Sound, Placed, Spoken, PageLast
<1>5. Placed(then)
  BY <1>3, <1>4 DEF Placed
<1>6. Owes(w, held) => Owes(then, held)
  BY <1>1, <1>3 DEF Owes
<1>7. Continues(v, g, held, w, then)
  BY <1>1, <1>3, <1>5, <1>6 DEF Continues, Sound
<1> QED
  BY <1>7 DEF w, then

LEMMA ServesContinues ==
  ASSUME NEW v, NEW g \in 1..MaxOpens, NEW held \in BOOLEAN, Working(g, held), Serves(g)
  PROVE  Continues(v, g, held, workers[g], workers'[g])
<1> DEFINE w == workers[g]
           then == workers'[g]
<1>1. w \in WorkerType /\ Sound(g, w) /\ w.at = "serving" /\ ~w.stop
  BY BecomesOf DEF Working, Serves
<1>2. then = (IF w.todo = << >> THEN [w EXCEPT !.at = "idle"]
              ELSE IF Head(w.todo).kind = "Search"
              THEN [w EXCEPT !.at = "searching", !.cancel = FALSE, !.chunks = Chunks]
              ELSE [w EXCEPT !.at = "handling"])
  BY BecomesOf DEF Working, Serves
<1> HIDE DEF w, then
<1>3. w.todo # << >> => Head(w.todo) = w.todo[1]
  BY <1>1, WorkerFields, TailElements
<1>4. /\ then \in WorkerType /\ then.replies = w.replies /\ then.todo = w.todo
      /\ then.requests = w.requests /\ then.index = w.index
      /\ then.stop = w.stop /\ then.file = w.file /\ then.sent = w.sent
      /\ then.asked = w.asked /\ then.failed = w.failed
      /\ then.at = (IF w.todo = << >> THEN "idle"
                    ELSE IF w.todo[1].kind = "Search" THEN "searching" ELSE "handling")
  <2>1. Chunks \in Nat
    BY ViewerAssumption DEF ViewerAssumption
  <2>2. CASE w.todo = << >>
    BY <1>1, <1>2, <2>2 DEF WorkerType, Places
  <2>3. CASE w.todo # << >> /\ w.todo[1].kind = "Search"
    BY <1>1, <1>2, <1>3, <2>1, <2>3 DEF WorkerType, Places
  <2>4. CASE w.todo # << >> /\ w.todo[1].kind # "Search"
    BY <1>1, <1>2, <1>3, <2>4 DEF WorkerType, Places
  <2> QED
    BY <2>2, <2>3, <2>4
<1>5. OpenedFirst(w.replies) /\ PageLast(w.todo) /\ Spoken(w.replies, then.at)
  BY <1>1 DEF Sound, Placed, Spoken
<1>6. Placed(then)
  BY <1>1, <1>4, <1>5 DEF Placed
<1>7. Continues(v, g, held, w, then)
  BY <1>1, <1>4, <1>6, ContinuesKept DEF Late, Indexed
<1> QED
  BY <1>7 DEF w, then

Answering(w, r, failed) == [Done(w) EXCEPT !.replies = Append(@, r), !.failed = failed]

LEMMA DoneFields ==
  ASSUME NEW w \in WorkerType, w.todo # << >>, NEW r \in Replies, NEW failed \in Nat,
         NEW then, then = Answering(w, r, failed)
  PROVE  /\ then \in WorkerType /\ then.at = "serving"
         /\ then.stop = w.stop /\ then.file = w.file /\ then.index = w.index
         /\ then.todo = Tail(w.todo) /\ then.requests = w.requests
         /\ then.sent = w.sent /\ then.asked = w.asked /\ then.failed = failed
         /\ then.replies = Append(w.replies, r)
<1>1. /\ Append(w.replies, r) \in Seq(Replies) /\ Tail(w.todo) \in Seq(Requests)
  BY WorkerFields, AppendElements, TailElements
<1> QED
  BY <1>1 DEF Answering, Done, WorkerType, Places

LEMMA HeadOfList ==
  ASSUME NEW w \in WorkerType, Placed(w), w.at \in {"handling", "searching"}
  PROVE  /\ w.todo # << >> /\ Head(w.todo) = w.todo[1] /\ w.todo[1] \in Requests
         /\ w.todo[1].id \in Nat /\ w.todo[1].hit \in Nat
         /\ w.at = "handling" => w.todo[1].kind \in Modes
<1>1. /\ w.todo # << >> /\ w.todo \in Seq(Requests)
      /\ w.at = "handling" => w.todo[1].kind # "Search"
  BY WorkerFields DEF Sound, Placed
<1>2. Head(w.todo) = w.todo[1] /\ w.todo[1] \in Requests
  BY <1>1, TailElements
<1> QED
  BY <1>1, <1>2 DEF Requests

LEMMA AnswersContinues ==
  ASSUME NEW v, NEW g \in 1..MaxOpens, NEW held \in BOOLEAN, Working(g, held), Answers(g)
  PROVE  Continues(v, g, held, workers[g], workers'[g])
<1> DEFINE w == workers[g]
           then == workers'[g]
           head == w.todo[1]
           page == PageOf(g, head)
           r == Reply(head.kind, page)
<1>1. w \in WorkerType /\ Sound(g, w) /\ w.at = "handling"
  BY BecomesOf DEF Working, Answers
<1>2. /\ w.todo # << >> /\ Head(w.todo) = head /\ head \in Requests /\ head.kind \in Modes
      /\ head.id \in Nat /\ head.hit \in Nat
  BY <1>1, HeadOfList DEF Sound
<1>3. then = [Done(w) EXCEPT !.replies = Append(@, r)]
  BY <1>2, BecomesOf DEF Working, Answers
<1>4. /\ page \in PageType /\ page.by = g /\ page.id = head.id /\ page.hit = head.hit
      /\ page.final = (w.index \in {"complete", None})
  <2>1. (w.index \in {"complete", None}) \in BOOLEAN /\ g \in Nat
    BY ViewerAssumption DEF ViewerAssumption
  <2> QED
    BY <1>2, <2>1 DEF PageOf, PageType
<1> HIDE DEF page
<1>5. r \in Replies /\ r.kind = head.kind /\ r.page = page
  BY <1>2, <1>4, ReplyTypes DEF Kinds
<1> HIDE DEF w, then, r
<1>6. then = Answering(w, r, w.failed)
  <2>1. Done(w).failed = w.failed /\ DOMAIN Done(w) = DOMAIN w /\ "failed" \in DOMAIN w
    BY <1>1 DEF Done, WorkerType
  <2> QED
    BY <1>1, <1>3, <2>1 DEF Answering, Done, WorkerType
<1>7. /\ then \in WorkerType /\ then.at = "serving"
      /\ then.stop = w.stop /\ then.file = w.file /\ then.index = w.index
      /\ then.todo = Tail(w.todo) /\ then.requests = w.requests
      /\ then.sent = w.sent /\ then.asked = w.asked /\ then.failed = w.failed
      /\ then.replies = Append(w.replies, r)
  <2>1. w.failed \in Nat
    BY <1>1, WorkerFields
  <2> QED
    BY <1>1, <1>2, <1>5, <1>6, <2>1, DoneFields
<1>8. r.kind \notin Words
  BY <1>2, <1>5 DEF Modes, Words
<1>9. Continues(v, g, held, w, then)
  BY <1>1, <1>2, <1>4, <1>5, <1>7, <1>8, ContinuesServed
<1> QED
  BY <1>9 DEF w, then

LEMMA AnswerFailsContinues ==
  ASSUME NEW v, NEW g \in 1..MaxOpens, NEW held \in BOOLEAN, Working(g, held), AnswerFails(g)
  PROVE  Continues(v, g, held, workers[g], workers'[g])
<1> DEFINE w == workers[g]
           then == workers'[g]
           head == w.todo[1]
           failed == IF IsPage(head) /\ ~w.stop THEN head.id ELSE w.failed
           r == Reply("Error", NoPage)
<1>1. w \in WorkerType /\ Sound(g, w) /\ w.at = "handling"
  BY BecomesOf DEF Working, AnswerFails
<1>2. /\ w.todo # << >> /\ Head(w.todo) = head /\ head \in Requests /\ head.id \in Nat
  BY <1>1, HeadOfList DEF Sound
<1>3. then = [Replied(Done(w), "Error") EXCEPT
                 !.failed = IF IsPage(Head(w.todo)) /\ ~w.stop THEN Head(w.todo).id ELSE @]
  BY BecomesOf DEF Working, AnswerFails
<1>4. r \in Replies /\ r.kind = "Error"
  BY NoPageType, ReplyTypes DEF Kinds
<1> HIDE DEF w, then
<1>5. then = Answering(w, r, failed)
  BY <1>1, <1>2, <1>3 DEF Answering, Replied, Done, WorkerType
<1>6. failed \in Nat
  BY <1>1, <1>2, WorkerFields
<1> HIDE DEF r
<1>7. /\ then \in WorkerType /\ then.at = "serving"
      /\ then.stop = w.stop /\ then.file = w.file /\ then.index = w.index
      /\ then.todo = Tail(w.todo) /\ then.requests = w.requests
      /\ then.sent = w.sent /\ then.asked = w.asked /\ then.failed = failed
      /\ then.replies = Append(w.replies, r)
  <2> HIDE DEF failed
  <2> QED
    BY <1>1, <1>2, <1>4, <1>5, <1>6, DoneFields
<1>8. r.kind \in Words /\ r.kind \notin Modes
  BY <1>4 DEF Modes, Words
<1>9. Continues(v, g, held, w, then)
  BY <1>1, <1>4, <1>7, <1>8, ContinuesServed
<1> QED
  BY <1>9 DEF w, then

LEMMA SearchEndsContinues ==
  ASSUME NEW v, NEW g \in 1..MaxOpens, NEW held \in BOOLEAN, Working(g, held), SearchEnds(g)
  PROVE  Continues(v, g, held, workers[g], workers'[g])
<1> DEFINE w == workers[g]
           then == workers'[g]
           head == w.todo[1]
<1>1. w \in WorkerType /\ Sound(g, w) /\ w.at = "searching"
  BY BecomesOf DEF Working, SearchEnds
<1>2. /\ w.todo # << >> /\ Head(w.todo) = head /\ head.id \in Nat
  BY <1>1, HeadOfList DEF Sound
<1>3. head.kind = "Search"
  BY <1>1 DEF Sound, Placed
<1>4. \/ then = Replied(Done(w), "Miss")
      \/ then = [Done(w) EXCEPT !.replies = Append(@, Reply("Hit", [NoPage EXCEPT !.hit = head.id]))]
  BY <1>2, BecomesOf DEF Working, SearchEnds
<1>5. PICK r \in Replies : /\ r.kind \in Words /\ r.kind \notin Modes
                           /\ then = [Done(w) EXCEPT !.replies = Append(@, r)]
  <2>1. CASE then = Replied(Done(w), "Miss")
    <3>1. Reply("Miss", NoPage) \in Replies /\ Reply("Miss", NoPage).kind = "Miss"
      BY NoPageType, ReplyTypes DEF Kinds
    <3> QED
      BY <2>1, <3>1 DEF Replied, Words, Modes
  <2>2. CASE then = [Done(w) EXCEPT
                        !.replies = Append(@, Reply("Hit", [NoPage EXCEPT !.hit = head.id]))]
    <3> DEFINE q == [NoPage EXCEPT !.hit = head.id]
    <3>1. q \in PageType
      BY <1>2 DEF NoPage, PageType
    <3> HIDE DEF q
    <3>2. Reply("Hit", q) \in Replies /\ Reply("Hit", q).kind = "Hit"
      BY <3>1, ReplyTypes DEF Kinds
    <3> QED
      BY <2>2, <3>2 DEF Words, Modes, q
  <2> QED
    BY <1>4, <2>1, <2>2
<1> HIDE DEF w, then
<1>6. then = Answering(w, r, w.failed)
  BY <1>1, <1>5 DEF Answering, Done, WorkerType
<1>7. /\ then \in WorkerType /\ then.at = "serving"
      /\ then.stop = w.stop /\ then.file = w.file /\ then.index = w.index
      /\ then.todo = Tail(w.todo) /\ then.requests = w.requests
      /\ then.sent = w.sent /\ then.asked = w.asked /\ then.failed = w.failed
      /\ then.replies = Append(w.replies, r)
  <2>1. w.failed \in Nat
    BY <1>1, WorkerFields
  <2> QED
    BY <1>1, <1>2, <1>6, <2>1, DoneFields
<1>8. ~IsPage(head)
  BY <1>3 DEF IsPage, Pages
<1>9. Continues(v, g, held, w, then)
  BY <1>1, <1>5, <1>7, <1>8, ContinuesServed
<1> QED
  BY <1>9 DEF w, then

LEMMA SearchReadsContinues ==
  ASSUME NEW v, NEW g \in 1..MaxOpens, NEW held \in BOOLEAN, Working(g, held), SearchReads(g)
  PROVE  Continues(v, g, held, workers[g], workers'[g])
<1> DEFINE w == workers[g]
           then == workers'[g]
           next == [w EXCEPT !.chunks = @ - 1]
           r == Reply("Progress", NoPage)
<1>1. w \in WorkerType /\ Sound(g, w) /\ w.at = "searching" /\ w.chunks > 0
  BY BecomesOf DEF Working, SearchReads
<1>2. then = next \/ then = Replied(next, "Progress")
  BY BecomesOf DEF Working, SearchReads
<1>3. r \in Replies /\ r.kind = "Progress"
  BY NoPageType, ReplyTypes DEF Kinds
<1> HIDE DEF w, then
<1>4. w.chunks - 1 \in Nat /\ Append(w.replies, r) \in Seq(Replies)
  BY <1>1, <1>3, WorkerFields, AppendElements
<1>5. /\ then \in WorkerType
      /\ then.replies \in {w.replies, Append(w.replies, r)}
      /\ then.stop = w.stop /\ then.file = w.file /\ then.todo = w.todo /\ then.at = w.at
      /\ then.requests = w.requests /\ then.sent = w.sent /\ then.index = w.index
      /\ then.asked = w.asked /\ then.failed = w.failed
  <2>1. CASE then = next
    BY <1>1, <1>4, <2>1 DEF WorkerType
  <2>2. CASE then = Replied(next, "Progress")
    BY <1>1, <1>4, <2>2 DEF Replied, WorkerType
  <2> QED
    BY <1>2, <2>1, <2>2
<1> HIDE DEF r
<1>6. /\ w.replies \in Seq(Replies)
      /\ OpenedFirst(w.replies) /\ Spoken(w.replies, w.at) /\ PageLast(w.todo)
  BY <1>1, WorkerFields DEF Sound, Placed
<1>7. OpenedFirst(then.replies) /\ Spoken(then.replies, then.at)
  <2>1. OpenedFirst(Append(w.replies, r))
    BY <1>3, <1>6, OpenedFirstGrows
  <2>2. Spoken(Append(w.replies, r), w.at)
    BY <1>1, <1>3, <1>6, SpokenGrows
  <2> QED
    BY <1>5, <1>6, <2>1, <2>2
<1>8. Placed(then)
  BY <1>1, <1>5, <1>7 DEF Sound, Placed
<1>9. ~IsPage(r) /\ (Late(w) => Late(then)) /\ (Indexed(w) => Indexed(then))
  <2>1. Has(w.replies, {"IndexComplete"}) => Has(then.replies, {"IndexComplete"})
    <3>1. Has(Append(w.replies, r), {"IndexComplete"})
            <=> Has(w.replies, {"IndexComplete"}) \/ r.kind \in {"IndexComplete"}
      BY <1>3, <1>6, HasAppended
    <3> QED
      BY <1>5, <3>1
  <2> QED
    BY <1>3, <1>5, <2>1 DEF IsPage, Pages, Late, Indexed
<1>10. \/ then.replies = w.replies
       \/ \E q \in Replies :
            /\ ~IsPage(q) /\ q.kind # "Opened" /\ then.replies = Append(w.replies, q)
  BY <1>3, <1>5, <1>9
<1>11. Continues(v, g, held, w, then)
  BY <1>1, <1>5, <1>8, <1>9, <1>10, ContinuesKept
<1> QED
  BY <1>11 DEF w, then

LEMMA ThreadContinues ==
  ASSUME NEW v, NEW g \in 1..MaxOpens, NEW held \in BOOLEAN, Working(g, held),
         Thread(g) \/ Index(g)
  PROVE  Continues(v, g, held, workers[g], workers'[g])
<1>1. CASE Opens(g)
  BY <1>1, OpensContinues
<1>2. CASE OpenFails(g)
  BY <1>2, OpenFailsContinues
<1>3. CASE Receives(g)
  BY <1>3, ReceivesContinues
<1>4. CASE Stops(g)
  BY <1>4, StopsContinues
<1>5. CASE Serves(g)
  BY <1>5, ServesContinues
<1>6. CASE Answers(g)
  BY <1>6, AnswersContinues
<1>7. CASE AnswerFails(g)
  BY <1>7, AnswerFailsContinues
<1>8. CASE SearchEnds(g)
  BY <1>8, SearchEndsContinues
<1>9. CASE SearchReads(g)
  BY <1>9, SearchReadsContinues
<1>10. CASE Index(g)
  BY <1>10, IndexContinues
<1>11. CASE NeverStarts(g)
  BY <1>11, NeverStartsContinues
<1> QED
  BY <1>1, <1>2, <1>3, <1>4, <1>5, <1>6, <1>7, <1>8, <1>9, <1>10, <1>11 DEF Thread

LEMMA ThreadStep ==
  ASSUME Inv, NEW g \in 1..MaxOpens, Thread(g) \/ Index(g)
  PROVE  Inv'
<1>1. /\ UNCHANGED <<embedded, view, current, opened, misled>>
      /\ \E x : workers' = [workers EXCEPT ![g] = x]
  BY DEF Thread, Index, IndexEnds, IndexFails, Opens, OpenFails, NeverStarts, Receives, Stops, Serves, Answers, AnswerFails,
         SearchEnds, SearchReads, Becomes
<1> DEFINE held == (g = current)
           w == workers[g]
           then == workers'[g]
<1>2. held \in BOOLEAN /\ Working(g, held)
  BY DEF Inv, Typed, Working
<1>3. Continues(view, g, held, w, then)
  BY <1>2, ThreadContinues
<1>4. /\ workers \in [1..MaxOpens -> WorkerType] /\ w \in WorkerType
      /\ \A h \in 1..MaxOpens : h # g => workers'[h] = workers[h]
      /\ workers' = [workers EXCEPT ![g] = then]
  BY <1>1 DEF Inv, Typed
<1>5. /\ then \in WorkerType /\ Sound(g, then) /\ then.stop = w.stop /\ then.file = w.file
      /\ Owes(w, held) => Owes(then, held)
  BY <1>3 DEF Continues
<1>6. workers' \in [1..MaxOpens -> WorkerType]
  BY <1>4, <1>5
<1>7. \A h \in 1..MaxOpens : Sound(h, workers'[h])
  BY <1>4, <1>5 DEF Inv
<1>8. Typed'
  <2>1. current \in Nat /\ opened \in Nat /\ (current # 0 => current \in 1..MaxOpens)
    BY ViewerAssumption DEF Inv, Typed, ViewerAssumption
  <2>2. current # 0 => ~workers'[current].stop /\ workers'[current].file \in DOMAIN Files
    BY <1>4, <1>5, <2>1 DEF Inv, Typed
  <2> QED
    BY <1>1, <1>6, <2>2 DEF Inv, Typed
<1>9. Searched'
  <2>1. ASSUME NEW h \in 1..MaxOpens, Owes(workers[h], h = current)
        PROVE  Owes(workers'[h], h = current)
    BY <1>4, <1>5, <2>1
  <2> QED
    BY <1>1, <2>1 DEF Inv, Searched
<1>10. ASSUME current # 0, ~misled
       PROVE  Detected(view, workers'[current]) /\ LastAsked(view, current, workers'[current])
  <2>1. Detected(view, workers[current]) /\ LastAsked(view, current, workers[current])
    BY <1>10 DEF Inv, Followed
  <2>2. CASE g # current
    <3>1. current \in 1..MaxOpens
      BY <1>10, ViewerAssumption DEF Inv, Typed, ViewerAssumption
    <3> QED
      BY <1>4, <2>1, <2>2, <3>1
  <2>3. CASE g = current
    <3> HIDE DEF w, then
    <3>1. ~w.stop /\ Detected(view, w) /\ LastAsked(view, g, w)
      BY <1>10, <2>1, <2>3 DEF Inv, Typed, w
    <3>2. /\ then.asked = w.asked
          /\ w.at = "ended" => then.at = "ended"
          /\ Unopened(then) => Unopened(w)
          /\ Unopened(w) => Unopened(then) \/ then.at = "ended"
          /\ Pending(then) \subseteq Pending(w)
          /\ view.mode \in Pages /\ OnItsWay(view, g, w)
               => OnItsWay(view, g, then) \/ then.at = "ended" \/ Unopened(then)
      BY <1>3, <3>1 DEF Continues
    <3>3. Detected(view, then)
      BY <1>5, <3>1, <3>2 DEF Detected
    <3>4. \A page : Newer(page, w) => Newer(page, then)
      BY <3>2 DEF Newer, Pending
    <3>5. LastAsked(view, g, then)
      BY <3>1, <3>2, <3>4 DEF LastAsked
    <3> QED
      BY <2>3, <3>3, <3>5 DEF then
  <2> QED
    BY <2>2, <2>3
<1>11. Followed'
  BY <1>1, <1>10 DEF Followed
<1> QED
  BY <1>7, <1>8, <1>9, <1>11 DEF Inv

-----------------------------------------------------------------------------
(* A request to the worker the view holds leaves everything else of it as  *)
(* it was.                                                                 *)
Sent(v, kind, w) ==
  IF w.at = "ended" THEN w
  ELSE [w EXCEPT !.requests = Append(@, [kind |-> kind, id |-> w.sent + 1, hit |-> v.highlight]),
                 !.sent = w.sent + 1,
                 !.asked = IF kind \in Pages THEN w.sent + 1 ELSE @]

Asking(g, w, then) ==
  /\ then \in WorkerType /\ Sound(g, then)
  /\ then.at = w.at /\ then.stop = w.stop /\ then.file = w.file
  /\ then.replies = w.replies /\ then.todo = w.todo /\ then.index = w.index
  /\ Owes(w, TRUE) => Owes(then, TRUE)
  /\ \A page \in PageType : Newer(page, w) => Newer(page, then)

AsksFor(v, then) ==
  then.at = "ended" \/ (then.asked # 0 /\ \E r \in ToSet(then.requests) : Wanted(v, r, then))

StillAsks(w, then) ==
  then.asked = w.asked /\ then.failed = w.failed /\ ToSet(w.requests) \subseteq ToSet(then.requests)

LEMMA SentFacts ==
  ASSUME NEW v \in ViewType, NEW kind \in Modes \cup {"Search"}, NEW g, NEW w \in WorkerType,
         Sound(g, w), ~w.stop
  PROVE  /\ Asking(g, w, Sent(v, kind, w))
         /\ kind = v.mode /\ kind \in Pages => AsksFor(v, Sent(v, kind, w))
         /\ kind = "Search" => Owes(Sent(v, kind, w), TRUE) /\ StillAsks(w, Sent(v, kind, w))
<1>1. CASE w.at = "ended"
  <2>1. Sent(v, kind, w) = w
    BY <1>1 DEF Sent
  <2> QED
    BY <1>1, <2>1 DEF Asking, AsksFor, Owes, StillAsks
<1>2. CASE w.at # "ended"
  <2> DEFINE then == Sent(v, kind, w)
             r == [kind |-> kind, id |-> w.sent + 1, hit |-> v.highlight]
  <2>1. /\ w.requests \in Seq(Requests) /\ w.sent \in Nat /\ w.asked \in Nat /\ w.failed \in Nat
        /\ v.highlight \in Nat
    BY WorkerFields DEF ViewType
  <2>2. r \in Requests /\ r.kind = kind /\ r.id = w.sent + 1 /\ r.hit = v.highlight
    BY <2>1 DEF Requests
  <2>3. then = [w EXCEPT !.requests = Append(@, r), !.sent = w.sent + 1,
                         !.asked = IF kind \in Pages THEN w.sent + 1 ELSE @]
    BY <1>2 DEF Sent
  <2> HIDE DEF then, r
  <2>4. /\ then \in WorkerType /\ then.requests = Append(w.requests, r)
        /\ then.sent = w.sent + 1
        /\ then.asked = (IF kind \in Pages THEN w.sent + 1 ELSE w.asked)
        /\ then.at = w.at /\ then.stop = w.stop /\ then.file = w.file /\ then.failed = w.failed
        /\ then.replies = w.replies /\ then.todo = w.todo /\ then.index = w.index
    <3>1. Append(w.requests, r) \in Seq(Requests) /\ w.sent + 1 \in Nat
      BY <2>1, <2>2, AppendElements
    <3> QED
      BY <2>1, <2>3, <3>1 DEF WorkerType
  <2>5. /\ ToSet(then.requests) = ToSet(w.requests) \cup {r}
        /\ PagesIn(then.requests) = PagesIn(w.requests) \cup (IF IsPage(r) THEN {r} ELSE {})
        /\ IsPage(r) <=> kind \in Pages
    BY <2>1, <2>2, <2>4, AppendElements, PagesAppended DEF IsPage
  <2>6. Queued(g, w)
    BY DEF Sound
  <2>7. /\ Listed(w) \subseteq Nat /\ Requested(w) \subseteq Nat /\ Answered(w) \subseteq Nat
    BY IdTypes
  <2>8. /\ Listed(then) = Listed(w) /\ Answered(then) = Answered(w)
        /\ Requested(then) = Requested(w) \cup (IF kind \in Pages THEN {w.sent + 1} ELSE {})
        /\ ToCome(then) = ToCome(w) \cup (IF kind \in Pages THEN {w.sent + 1} ELSE {})
    BY <2>2, <2>4, <2>5 DEF Listed, Answered, Requested, ToCome
  <2>9. w.asked <= then.asked /\ then.asked <= then.sent /\ w.asked < w.sent + 1
    BY <2>1, <2>4, <2>6 DEF Queued
  <2>10. Queued(g, then)
    <3>1. \A e \in ToSet(w.requests) : e.id <= w.sent /\ e.id \in Nat
      <4>1. ToSet(w.requests) \subseteq Requests
        BY <2>1, ElementsOf
      <4>2. \A e \in Requests : e.id \in Nat
        BY DEF Requests
      <4>3. \A e \in ToSet(w.requests) : e.id <= w.sent
        BY <2>6 DEF Queued
      <4> QED
        BY <4>1, <4>2, <4>3
    <3>2. Rising(then.requests)
      <4>1. \A e \in ToSet(w.requests) : e.id < r.id
        BY <2>1, <2>2, <3>1
      <4> QED
        BY <2>1, <2>2, <2>4, <2>6, <4>1, RisingGrows DEF Queued
    <3>3. \A e \in ToSet(then.requests) : e.id <= then.sent
      BY <2>1, <2>2, <2>4, <2>5, <3>1
    <3>4. \A id \in Listed(then) : \A next \in Requested(then) : id < next
      <4>1. \A id \in Listed(w) : id <= w.asked
        BY <2>6 DEF Queued, ToCome
      <4> QED
        BY <2>1, <2>6, <2>7, <2>8, <2>9, <4>1 DEF Queued
    <3>5. \A id \in ToCome(then) : then.failed < id /\ id <= then.asked
      <4>1. \A id \in ToCome(w) : w.failed < id /\ id <= w.asked /\ id \in Nat
        BY <2>6, <2>7 DEF Queued, ToCome
      <4>2. w.failed <= w.asked
        BY <2>6 DEF Queued
      <4> QED
        BY <2>1, <2>4, <2>8, <2>9, <4>1, <4>2
    <3>6. \A id \in Answered(then) : id <= then.asked /\ \A next \in ToCome(then) : id < next
      <4>1. \A id \in Answered(w) : id <= w.asked /\ id \in Nat /\ \A next \in ToCome(w) : id < next
        BY <2>6, <2>7 DEF Queued
      <4> QED
        BY <2>1, <2>4, <2>8, <2>9, <4>1
    <3>7. then.failed <= then.asked
      BY <2>1, <2>4, <2>6, <2>9 DEF Queued
    <3> QED
      BY <2>4, <2>6, <2>9, <3>2, <3>3, <3>4, <3>5, <3>6, <3>7 DEF Queued
  <2>11. Sound(g, then)
    BY <2>4, <2>10 DEF Sound, Placed
  <2>12. Owes(w, TRUE) => Owes(then, TRUE)
    BY <2>4, <2>5 DEF Owes, Has
  <2>13. ASSUME NEW page \in PageType, Newer(page, w)
         PROVE  Newer(page, then)
    <3>1. page.id \in Nat
      BY DEF PageType
    <3>2. page.id <= w.asked /\ \A id \in ToCome(w) \cup Answered(w) : page.id < id
      BY <2>13 DEF Newer
    <3>3. page.id <= then.asked /\ page.id < w.sent + 1
      BY <2>1, <2>4, <2>9, <3>1, <3>2
    <3> QED
      BY <2>8, <3>2, <3>3 DEF Newer
  <2>14. Asking(g, w, then)
    BY <2>4, <2>11, <2>12, <2>13 DEF Asking
  <2>15. kind = v.mode /\ kind \in Pages => AsksFor(v, then)
    BY <2>1, <2>2, <2>4, <2>5 DEF AsksFor, Wanted
  <2>16. kind = "Search" => Owes(then, TRUE) /\ StillAsks(w, then)
    <3>1. kind = "Search" => kind \notin Pages
      BY DEF Pages
    <3> QED
      BY <2>2, <2>4, <2>5, <3>1 DEF Owes, Has, StillAsks
  <2> QED
    BY <2>14, <2>15, <2>16 DEF then
<1> QED
  BY <1>1, <1>2

(* What has been asked of the workers, for the view v.                     *)
Asked(ws) ==
  /\ ws \in [1..MaxOpens -> WorkerType]
  /\ \A g \in 1..MaxOpens : g # current => ws[g] = workers[g]
  /\ current # 0 => Asking(current, workers[current], ws[current])

LEMMA CurrentIs ==
  ASSUME Inv, current # 0
  PROVE  /\ current \in 1..MaxOpens /\ workers[current] \in WorkerType
         /\ ~workers[current].stop /\ workers[current].file \in DOMAIN Files
         /\ Sound(current, workers[current])
<1>1. current \in 1..MaxOpens
  BY ViewerAssumption DEF Inv, Typed, ViewerAssumption
<1> QED
  BY <1>1 DEF Inv, Typed

LEMMA SendAsks ==
  ASSUME Inv, NEW v \in ViewType, NEW kind \in Modes \cup {"Search"}
  PROVE  /\ Asked(Send(v, kind))
         /\ current # 0 /\ kind = v.mode /\ kind \in Pages => AsksFor(v, Send(v, kind)[current])
         /\ current # 0 /\ kind = "Search" =>
              /\ Owes(Send(v, kind)[current], TRUE)
              /\ StillAsks(workers[current], Send(v, kind)[current])
<1>1. workers \in [1..MaxOpens -> WorkerType]
  BY DEF Inv, Typed
<1>2. CASE current = 0
  <2>1. Send(v, kind) = workers
    BY <1>2 DEF Send
  <2> QED
    BY <1>1, <1>2, <2>1 DEF Asked
<1>3. CASE current # 0
  <2> DEFINE w == workers[current]
  <2>1. current \in 1..MaxOpens /\ w \in WorkerType /\ ~w.stop /\ Sound(current, w)
    BY <1>3, CurrentIs
  <2>2. Send(v, kind) = [workers EXCEPT ![current] = Sent(v, kind, w)]
    <3>1. CASE w.at = "ended"
      BY <1>1, <1>3, <2>1, <3>1 DEF Send, Sent
    <3>2. CASE w.at # "ended"
      BY <1>1, <1>3, <2>1, <3>2 DEF Send, Sent, WorkerType
    <3> QED
      BY <3>1, <3>2
  <2>3. /\ Asking(current, w, Sent(v, kind, w))
        /\ kind = v.mode /\ kind \in Pages => AsksFor(v, Sent(v, kind, w))
        /\ kind = "Search" => Owes(Sent(v, kind, w), TRUE) /\ StillAsks(w, Sent(v, kind, w))
    BY <2>1, SentFacts
  <2>4. Sent(v, kind, w) \in WorkerType
    BY <2>3 DEF Asking
  <2>5. Send(v, kind)[current] = Sent(v, kind, w)
    BY <1>1, <2>1, <2>2
  <2>6. Asked(Send(v, kind))
    BY <1>1, <2>1, <2>2, <2>3, <2>4, <2>5 DEF Asked
  <2> QED
    BY <2>3, <2>5, <2>6
<1> QED
  BY <1>2, <1>3

LEMMA RequestsAsk ==
  ASSUME Inv, NEW v \in ViewType
  PROVE  /\ Asked(RequestCurrent(v)) /\ Asked(RequestPage(v)) /\ Asked(workers)
         /\ current # 0 => StillAsks(workers[current], workers[current])
         /\ current # 0 /\ v.mode \in Pages =>
              AsksFor(v, RequestCurrent(v)[current]) /\ AsksFor(v, RequestPage(v)[current])
<1>1. v.mode \in Modes \cup {None}
  BY DEF ViewType
<1>2. Asked(workers)
  <2>1. current # 0 => Asking(current, workers[current], workers[current])
    BY CurrentIs DEF Asking
  <2> QED
    BY <2>1 DEF Asked, Inv, Typed
<1>3. /\ v.mode \in Pages => v.mode \in Modes \cup {"Search"}
      /\ v.mode = "Image" => v.mode \in Modes \cup {"Search"}
  BY DEF Pages, Modes
<1>4. Asked(RequestCurrent(v)) /\ Asked(RequestPage(v))
  BY <1>2, <1>3, SendAsks DEF RequestCurrent, RequestPage
<1>5. current # 0 /\ v.mode \in Pages =>
        AsksFor(v, RequestCurrent(v)[current]) /\ AsksFor(v, RequestPage(v)[current])
  BY <1>3, SendAsks DEF RequestCurrent, RequestPage
<1>6. StillAsks(workers[current], workers[current])
  BY DEF StillAsks
<1> QED
  BY <1>2, <1>4, <1>5, <1>6

(* An act of the user on a file that stays: the view becomes v, and the    *)
(* worker has been asked, or let be.                                       *)
LEMMA ActStep ==
  ASSUME Inv, NEW v \in ViewType, NEW ws, Asked(ws),
         view' = v, workers' = ws, UNCHANGED <<embedded, current, opened>>,
         misled' \in BOOLEAN, misled => misled',
         \/ v.searching => view.searching
         \/ current # 0 /\ Owes(ws[current], TRUE),
         current # 0 /\ ~misled' =>
           /\ v.detected = view.detected /\ v.text = view.text /\ v.hex = view.hex
           /\ Unopened(workers[current]) => (~v.forced => v.mode = None)
           /\ ~Unopened(workers[current]) /\ workers[current].at # "ended" =>
                (~v.forced => v.mode = Files[workers[current].file])
           /\ \/ v.mode \in Pages => AsksFor(v, ws[current])
              \/ v.mode = view.mode /\ v.highlight = view.highlight /\ StillAsks(workers[current], ws[current])
  PROVE  Inv'
<1>1. ws \in [1..MaxOpens -> WorkerType] /\ \A g \in 1..MaxOpens : g # current => ws[g] = workers[g]
  BY DEF Asked
<1> DEFINE w == workers[current]
           then == ws[current]
<1>2. current # 0 =>
        /\ current \in 1..MaxOpens /\ w \in WorkerType /\ ~w.stop
        /\ w.file \in DOMAIN Files /\ Sound(current, w)
  BY CurrentIs
<1>3. current # 0 =>
        /\ then \in WorkerType /\ Sound(current, then)
        /\ then.at = w.at /\ then.stop = w.stop /\ then.file = w.file
        /\ then.replies = w.replies /\ then.todo = w.todo /\ then.index = w.index
        /\ Owes(w, TRUE) => Owes(then, TRUE)
        /\ \A page \in PageType : Newer(page, w) => Newer(page, then)
  BY DEF Asked, Asking
<1>4. Typed'
  BY <1>1, <1>2, <1>3 DEF Inv, Typed
<1>5. \A g \in 1..MaxOpens : Sound(g, workers'[g])
  <2>1. ASSUME NEW g \in 1..MaxOpens, g = current
        PROVE  current # 0
    BY <2>1, ViewerAssumption DEF ViewerAssumption
  <2>2. \A g \in 1..MaxOpens : g = current => Sound(g, ws[g])
    BY <1>3, <2>1
  <2>3. \A g \in 1..MaxOpens : g # current => Sound(g, ws[g])
    BY <1>1 DEF Inv
  <2> QED
    BY <2>2, <2>3
<1>6. Searched'
  <2>1. CASE v.searching => view.searching
    <3>1. ASSUME NEW g \in 1..MaxOpens, Owes(workers[g], g = current)
          PROVE  Owes(ws[g], g = current)
      <4>1. CASE g = current
        <5>1. current # 0 /\ (g = current) = TRUE
          BY <1>2, <4>1
        <5> QED
          BY <1>3, <3>1, <4>1, <5>1
      <4> QED
        BY <1>1, <3>1, <4>1
    <3>2. v.searching => \E g \in 1..MaxOpens : Owes(ws[g], g = current)
      BY <2>1, <3>1 DEF Inv, Searched
    <3> QED
      BY <3>2 DEF Searched
  <2>2. CASE current # 0 /\ Owes(ws[current], TRUE)
    <3>1. Owes(ws[current], current = current)
      BY <2>2
    <3> QED
      BY <1>2, <2>2, <3>1 DEF Searched
  <2> QED
    BY <2>1, <2>2
<1>7. ASSUME current # 0, ~misled'
      PROVE  Detected(v, then) /\ LastAsked(v, current, then)
  <2>1. ~misled /\ Detected(view, w) /\ LastAsked(view, current, w)
    BY <1>7 DEF Inv, Followed
  <2>2. /\ v.detected = view.detected /\ v.text = view.text /\ v.hex = view.hex
        /\ Unopened(w) => (~v.forced => v.mode = None)
        /\ ~Unopened(w) /\ w.at # "ended" => (~v.forced => v.mode = Files[w.file])
        /\ \/ v.mode \in Pages => AsksFor(v, then)
           \/ v.mode = view.mode /\ v.highlight = view.highlight /\ StillAsks(w, then)
    BY <1>7
  <2> HIDE DEF w, then
  <2>3. Unopened(then) <=> Unopened(w)
    BY <1>3, <1>7 DEF Unopened
  <2>4. Detected(v, then)
    BY <1>3, <1>7, <2>1, <2>2, <2>3 DEF Detected
  <2>5. Newer(v.text, then) /\ Newer(v.hex, then)
    <3>1. v.text \in PageType /\ v.hex \in PageType
      BY DEF ViewType
    <3>2. Newer(v.text, w) /\ Newer(v.hex, w)
      BY <2>1, <2>2 DEF LastAsked
    <3> QED
      BY <1>3, <1>7, <3>1, <3>2
  <2>6. v.mode \in Pages => Unopened(then) \/ then.at = "ended" \/ (then.asked # 0 /\ OnItsWay(v, current, then))
    <3>1. CASE v.mode \in Pages => AsksFor(v, then)
      BY <3>1 DEF AsksFor, OnItsWay
    <3>2. CASE v.mode = view.mode /\ v.highlight = view.highlight /\ StillAsks(w, then)
      <4>1. ShownOf(v) = ShownOf(view)
        BY <2>2, <3>2 DEF ShownOf
      <4>2. (Late(then) <=> Late(w)) /\ (Indexed(then) <=> Indexed(w))
        BY <1>3, <1>7 DEF Late, Indexed
      <4>3. OnItsWay(view, current, w) => OnItsWay(v, current, then)
        BY <1>3, <1>7, <3>2, <4>1, <4>2 DEF OnItsWay, Wanted, Right, StillAsks
      <4>4. Unopened(w) \/ w.at = "ended" \/ (w.asked # 0 /\ OnItsWay(view, current, w))
              => Unopened(then) \/ then.at = "ended" \/ (then.asked # 0 /\ OnItsWay(v, current, then))
        BY <1>3, <1>7, <2>3, <3>2, <4>3 DEF StillAsks
      <4> QED
        BY <2>1, <3>2, <4>4 DEF LastAsked
    <3> QED
      BY <2>2, <3>1, <3>2
  <2> QED
    BY <2>4, <2>5, <2>6 DEF LastAsked
<1>8. Followed'
  BY <1>7 DEF Followed
<1> QED
  BY <1>4, <1>5, <1>6, <1>8 DEF Inv

LEMMA ViewIs ==
  ASSUME Inv
  PROVE  /\ view \in ViewType /\ misled \in BOOLEAN
         /\ view.mode \in Modes \cup {None} /\ view.forced \in BOOLEAN
         /\ view.detected \in DOMAIN Files \cup {None}
         /\ None \notin Modes
         /\ current # 0 /\ ~misled =>
              /\ Unopened(workers[current]) => view.detected = None /\ (~view.forced => view.mode = None)
              /\ ~Unopened(workers[current]) /\ workers[current].at # "ended" =>
                   /\ view.detected = workers[current].file
                   /\ ~view.forced => view.mode = Files[workers[current].file]
<1>1. view \in ViewType /\ misled \in BOOLEAN
  BY DEF Inv, Typed
<1>2. /\ view.mode \in Modes \cup {None} /\ view.forced \in BOOLEAN
      /\ view.detected \in DOMAIN Files \cup {None}
  BY <1>1 DEF ViewType
<1>3. None \notin Modes
  BY DEF None, Modes
<1>4. current # 0 /\ ~misled => Detected(view, workers[current])
  BY DEF Inv, Followed
<1> QED
  BY <1>1, <1>2, <1>3, <1>4 DEF Detected

LEMMA NavigateStep ==
  ASSUME Inv, Navigate
  PROVE  Inv'
<1> DEFINE ws == RequestPage(view)
<1>1. /\ view' = view /\ workers' = ws /\ misled' = misled
      /\ UNCHANGED <<embedded, current, opened>>
  BY DEF Navigate
<1>2. view \in ViewType
  BY ViewIs
<1>3. Asked(ws) /\ (current # 0 /\ view.mode \in Pages => AsksFor(view, ws[current]))
  BY <1>2, RequestsAsk
<1> HIDE DEF ws
<1> QED
  BY <1>1, <1>2, <1>3, ViewIs, ActStep

LEMMA ResizeStep ==
  ASSUME Inv, Resize
  PROVE  Inv'
<1> DEFINE ws == RequestCurrent(view)
<1>1. /\ view' = view /\ workers' = ws /\ misled' = misled
      /\ UNCHANGED <<embedded, current, opened>>
  BY DEF Resize
<1>2. view \in ViewType
  BY ViewIs
<1>3. Asked(ws) /\ (current # 0 /\ view.mode \in Pages => AsksFor(view, ws[current]))
  BY <1>2, RequestsAsk
<1> HIDE DEF ws
<1> QED
  BY <1>1, <1>2, <1>3, ViewIs, ActStep

LEMMA SetModeStep ==
  ASSUME Inv, SetMode
  PROVE  Inv'
<1>1. PICK mode \in Modes :
        /\ view' = [view EXCEPT !.mode = mode, !.forced = TRUE]
        /\ workers' = IF view.mode = mode THEN workers
                      ELSE RequestCurrent([view EXCEPT !.mode = mode, !.forced = TRUE])
        /\ misled' = misled /\ UNCHANGED <<embedded, current, opened>>
  BY DEF SetMode
<1> DEFINE v == [view EXCEPT !.mode = mode, !.forced = TRUE]
           ws == IF view.mode = mode THEN workers ELSE RequestCurrent(v)
<1>2. view \in ViewType
  BY ViewIs
<1>3. /\ v \in ViewType /\ v.mode = mode /\ v.forced = TRUE
      /\ v.detected = view.detected /\ v.text = view.text /\ v.hex = view.hex
      /\ v.highlight = view.highlight /\ v.searching = view.searching
  BY <1>2 DEF ViewType
<1>4. view' = v /\ workers' = ws
  BY <1>1
<1> HIDE DEF v
<1>5. /\ Asked(ws)
      /\ current # 0 =>
           \/ v.mode \in Pages => AsksFor(v, ws[current])
           \/ v.mode = view.mode /\ StillAsks(workers[current], ws[current])
  BY <1>3, RequestsAsk
<1> HIDE DEF ws
<1> QED
  BY <1>1, <1>3, <1>4, <1>5, ViewIs, ActStep

LEMMA SetModeAutoStep ==
  ASSUME Inv, SetModeAuto
  PROVE  Inv'
<1> DEFINE v == [view EXCEPT !.mode = AutoMode(view), !.forced = FALSE]
           ws == IF view.mode = v.mode THEN workers ELSE RequestCurrent(v)
<1>1. /\ view' = v /\ workers' = ws /\ misled' = (misled \/ view.detected = None)
      /\ UNCHANGED <<embedded, current, opened>>
  BY DEF SetModeAuto
<1>2. view \in ViewType
  BY ViewIs
<1>3. /\ AutoMode(view) \in Modes
      /\ view.detected # None => AutoMode(view) = Files[view.detected]
  BY ViewIs, ViewerAssumption DEF AutoMode, ViewerAssumption, Modes
<1>4. /\ v \in ViewType /\ v.mode = AutoMode(view) /\ v.forced = FALSE
      /\ v.detected = view.detected /\ v.text = view.text /\ v.hex = view.hex
      /\ v.highlight = view.highlight /\ v.searching = view.searching
  BY <1>2, <1>3 DEF ViewType
<1> HIDE DEF v
<1>5. /\ Asked(ws)
      /\ current # 0 =>
           \/ v.mode \in Pages => AsksFor(v, ws[current])
           \/ v.mode = view.mode /\ StillAsks(workers[current], ws[current])
  BY <1>4, RequestsAsk
<1> HIDE DEF ws
<1>6. misled' \in BOOLEAN /\ (misled => misled')
  BY <1>1
<1>7. current # 0 /\ ~misled' =>
        /\ ~Unopened(workers[current])
        /\ workers[current].at # "ended" => v.mode = Files[workers[current].file]
  BY <1>1, <1>3, <1>4, ViewIs
<1> QED
  BY <1>1, <1>4, <1>5, <1>6, <1>7, ActStep

LEMMA FindStep ==
  ASSUME Inv, Find
  PROVE  Inv'
<1> DEFINE v == [view EXCEPT !.searching = TRUE]
           ws == Send(view, "Search")
<1>1. /\ current # 0 /\ view' = v /\ workers' = ws /\ misled' = misled
      /\ UNCHANGED <<embedded, current, opened>>
  BY DEF Find
<1>2. view \in ViewType
  BY ViewIs
<1>3. /\ v \in ViewType /\ v.mode = view.mode /\ v.forced = view.forced
      /\ v.detected = view.detected /\ v.text = view.text /\ v.hex = view.hex
      /\ v.highlight = view.highlight
  BY <1>2 DEF ViewType
<1>4. Asked(ws) /\ Owes(ws[current], TRUE) /\ StillAsks(workers[current], ws[current])
  BY <1>1, <1>2, SendAsks
<1> HIDE DEF v, ws
<1> QED
  BY <1>1, <1>3, <1>4, ViewIs, ActStep

LEMMA OpenBarStep ==
  ASSUME Inv, OpenBar
  PROVE  Inv'
<1> DEFINE v == [view EXCEPT !.bar = TRUE]
<1>1. /\ view' = v /\ workers' = workers /\ misled' = misled
      /\ UNCHANGED <<embedded, current, opened>>
  BY DEF OpenBar
<1>2. view \in ViewType
  BY ViewIs
<1>3. /\ v \in ViewType /\ v.mode = view.mode /\ v.forced = view.forced
      /\ v.detected = view.detected /\ v.text = view.text /\ v.hex = view.hex
      /\ v.highlight = view.highlight /\ v.searching = view.searching
  BY <1>2 DEF ViewType
<1>4. Asked(workers) /\ (current # 0 => StillAsks(workers[current], workers[current]))
  BY <1>2, RequestsAsk
<1> HIDE DEF v
<1> QED
  BY <1>1, <1>3, <1>4, ViewIs, ActStep

(* The flag that cancels a search is nothing that is asked.                *)
LEMMA CancelledAsks ==
  ASSUME Inv, NEW ws, Asked(ws)
  PROVE  /\ Asked(Cancelled(ws))
         /\ current # 0 =>
              /\ StillAsks(workers[current], ws[current]) =>
                   StillAsks(workers[current], Cancelled(ws)[current])
              /\ \A v : AsksFor(v, ws[current]) => AsksFor(v, Cancelled(ws)[current])
<1>1. CASE current = 0
  BY <1>1 DEF Cancelled
<1>2. CASE current # 0
  <2> DEFINE w == workers[current]
             then == ws[current]
             after == Cancelled(ws)[current]
  <2>1. /\ current \in 1..MaxOpens /\ ws \in [1..MaxOpens -> WorkerType]
        /\ \A g \in 1..MaxOpens : g # current => ws[g] = workers[g]
        /\ Asking(current, w, then) /\ then \in WorkerType
    BY <1>2, CurrentIs DEF Asked, Asking
  <2>2. /\ Cancelled(ws) = [ws EXCEPT ![current] = after]
        /\ after = [then EXCEPT !.cancel = TRUE]
    BY <1>2, <2>1 DEF Cancelled
  <2>3. Cancelled(ws)[current] = after
    OBVIOUS
  <2> HIDE DEF w, then, after
  <2>4. /\ after \in WorkerType /\ after.at = then.at /\ after.stop = then.stop
        /\ after.file = then.file /\ after.index = then.index /\ after.todo = then.todo
        /\ after.requests = then.requests /\ after.replies = then.replies
        /\ after.sent = then.sent /\ after.asked = then.asked /\ after.failed = then.failed
    BY <2>1, <2>2 DEF WorkerType
  <2>5. Sound(current, after) <=> Sound(current, then)
    BY <2>4 DEF Sound, Placed, Queued, Listed, Requested, Answered, ToCome
  <2>6. Owes(after, TRUE) <=> Owes(then, TRUE)
    BY <2>4 DEF Owes
  <2>7. \A page : Newer(page, after) <=> Newer(page, then)
    BY <2>4 DEF Newer, ToCome, Listed, Requested, Answered
  <2>8. Asking(current, w, after)
    BY <2>1, <2>4, <2>5, <2>6, <2>7 DEF Asking
  <2>9. Asked(Cancelled(ws))
    BY <2>1, <2>2, <2>3, <2>4, <2>8 DEF Asked, w
  <2>10. /\ StillAsks(w, then) => StillAsks(w, after)
         /\ \A v : AsksFor(v, then) => AsksFor(v, after)
    BY <2>4 DEF StillAsks, AsksFor, Wanted
  <2> QED
    BY <2>9, <2>10 DEF w, then, after
<1> QED
  BY <1>1, <1>2

LEMMA CloseBarStep ==
  ASSUME Inv, CloseBar
  PROVE  Inv'
<1> DEFINE v == BarClosed
<1>1. /\ view' = v /\ misled' = misled /\ UNCHANGED <<embedded, current, opened>>
      /\ workers' = Cancelled(workers) \/ workers' = Cancelled(RequestPage(view))
  BY DEF CloseBar
<1>2. view \in ViewType
  BY ViewIs
<1>3. /\ v \in ViewType /\ v.mode = view.mode /\ v.forced = view.forced
      /\ v.detected = view.detected /\ v.text = view.text /\ v.hex = view.hex
      /\ v.highlight = view.highlight /\ v.searching = FALSE
  BY <1>2 DEF ViewType, BarClosed
<1>4. PICK ws : /\ workers' = Cancelled(ws) /\ Asked(ws)
                /\ current # 0 =>
                     \/ view.mode \in Pages => AsksFor(view, ws[current])
                     \/ StillAsks(workers[current], ws[current])
  BY <1>1, <1>2, RequestsAsk
<1> DEFINE then == Cancelled(ws)
<1>5. /\ Asked(then)
      /\ current # 0 =>
           \/ view.mode \in Pages => AsksFor(view, then[current])
           \/ StillAsks(workers[current], then[current])
  BY <1>4, CancelledAsks
<1>6. workers' = then
  BY <1>4
<1> HIDE DEF v, then
<1>7. current # 0 => (AsksFor(view, then[current]) => AsksFor(v, then[current]))
  BY <1>3 DEF AsksFor, Wanted
<1> QED
  BY <1>1, <1>3, <1>5, <1>6, <1>7, ViewIs, ActStep

-----------------------------------------------------------------------------
(* Another file, or none: the worker that is let go is asked for nothing   *)
(* more, and the new one has nothing on its way.                           *)
LEMMA BlankFacts ==
  ASSUME NEW mode \in Modes \cup {None}
  PROVE  /\ Blank(mode) \in ViewType /\ Blank(mode).mode = mode /\ Blank(mode).detected = None
         /\ Blank(mode).text = NoPage /\ Blank(mode).hex = NoPage
         /\ Blank(mode).searching = FALSE /\ Blank(mode).forced = FALSE
<1> DEFINE page == NoPage
<1>1. page \in PageType
  BY NoPageType
<1> HIDE DEF page
<1>2. Blank(mode) =
        [mode |-> mode, forced |-> FALSE, detected |-> None, text |-> page, hex |-> page,
         image |-> page, highlight |-> 0, searching |-> FALSE, bar |-> FALSE]
  BY DEF Blank, page
<1> QED
  BY <1>1, <1>2 DEF ViewType, page

LEMMA ResetFacts ==
  ASSUME Inv, NEW v, v = Reset(view)
  PROVE  /\ v \in ViewType /\ v.detected = None /\ v.searching = FALSE
         /\ v.text = NoPage /\ v.hex = NoPage
         /\ ~v.forced => v.mode = None
<1> DEFINE mode == IF view.forced THEN view.mode ELSE None
           bar == embedded /\ view.bar
           b == Blank(mode)
<1>1. mode \in Modes \cup {None} /\ view.forced \in BOOLEAN
  BY ViewIs
<1>2. bar \in BOOLEAN
  OBVIOUS
<1>3. /\ b \in ViewType /\ b.mode = mode /\ b.detected = None
      /\ b.text = NoPage /\ b.hex = NoPage /\ b.searching = FALSE
  BY <1>1, BlankFacts
<1>4. v = [b EXCEPT !.forced = view.forced, !.bar = bar]
  BY DEF Reset
<1>5. ~view.forced => mode = None
  OBVIOUS
<1> HIDE DEF mode, bar, b
<1> QED
  BY <1>1, <1>2, <1>3, <1>4, <1>5 DEF ViewType

LEMMA FreshFacts ==
  ASSUME NEW f \in DOMAIN Files, NEW g
  PROVE  /\ Fresh(f) \in WorkerType /\ Sound(g, Fresh(f))
         /\ ~Fresh(f).stop /\ Fresh(f).file = f /\ Unopened(Fresh(f))
         /\ Newer(NoPage, Fresh(f))
<1> DEFINE e == << >>
           w == Fresh(f)
<1>1. e \in Seq(Requests) /\ e \in Seq(Replies) /\ ToSet(e) = {} /\ PagesIn(e) = {}
  BY EmptySeq, NoElements, NoPages
<1>2. Rising(e) /\ RisingPages(e) /\ OpenedFirst(e) /\ PageLast(e) /\ Spoken(e, "opening")
  BY EmptyChannels
<1>3. e = << >>
  OBVIOUS
<1>4. w = [file |-> f, at |-> "opening", stop |-> FALSE, cancel |-> FALSE,
           requests |-> e, replies |-> e, todo |-> e, chunks |-> 0,
           index |-> None, sent |-> 0, asked |-> 0, failed |-> 0]
  BY DEF Fresh
<1> HIDE DEF e, w
<1>5. /\ w.file = f /\ w.at = "opening" /\ w.stop = FALSE /\ w.requests = e /\ w.replies = e
      /\ w.todo = e /\ w.index = None /\ w.sent = 0 /\ w.asked = 0 /\ w.failed = 0
  BY <1>4
<1>6. w \in WorkerType
  BY <1>1, <1>4 DEF WorkerType, Places
<1>7. Placed(w)
  BY <1>2, <1>3, <1>5 DEF Placed
<1>8. Listed(w) = {} /\ Requested(w) = {} /\ Answered(w) = {} /\ ToCome(w) = {}
  BY <1>1, <1>5 DEF Listed, Requested, Answered, ToCome
<1>9. Queued(g, w)
  BY <1>1, <1>2, <1>5, <1>8 DEF Queued
<1>10. Newer(NoPage, w)
  BY <1>5, <1>8 DEF Newer, NoPage
<1>11. Unopened(w)
  BY <1>5 DEF Unopened
<1> QED
  BY <1>5, <1>6, <1>7, <1>9, <1>10, <1>11 DEF Sound, w

LEMMA LetGoFacts ==
  ASSUME Inv
  PROVE  /\ LetGo(workers) \in [1..MaxOpens -> WorkerType]
         /\ \A g \in 1..MaxOpens : Sound(g, LetGo(workers)[g])
<1>1. /\ workers \in [1..MaxOpens -> WorkerType]
      /\ \A g \in 1..MaxOpens : Sound(g, workers[g])
  BY DEF Inv, Typed
<1>2. CASE current = 0
  BY <1>1, <1>2 DEF LetGo
<1>3. CASE current # 0
  <2> DEFINE e == << >>
             w == workers[current]
             then == [w EXCEPT !.stop = TRUE, !.cancel = TRUE, !.requests = e,
                               !.sent = 0, !.asked = 0, !.failed = 0]
  <2>1. current \in 1..MaxOpens /\ w \in WorkerType /\ Sound(current, w)
    BY <1>3, CurrentIs
  <2>2. LetGo(workers) = [workers EXCEPT ![current] = then]
    BY <1>3 DEF LetGo
  <2>3. e \in Seq(Requests)
    BY EmptySeq
  <2> HIDE DEF e
  <2>4. /\ then \in WorkerType /\ then.stop = TRUE /\ then.at = w.at /\ then.todo = w.todo
        /\ then.replies = w.replies /\ then.index = w.index
    BY <2>1, <2>3 DEF WorkerType
  <2> HIDE DEF w, then
  <2>5. Sound(current, then)
    BY <2>1, <2>4 DEF Sound, Placed
  <2> QED
    BY <1>1, <2>1, <2>2, <2>4, <2>5
<1> QED
  BY <1>2, <1>3

LEMMA OpenCurrentStep ==
  ASSUME Inv, OpenCurrent
  PROVE  Inv'
<1> DEFINE new == opened + 1
           ws == LetGo(workers)
<1>1. PICK f \in DOMAIN Files :
        /\ opened' = new /\ current' = new
        /\ workers' = [ws EXCEPT ![new] = Fresh(f)]
  BY DEF OpenCurrent
<1>2. /\ opened < MaxOpens /\ view' = Reset(view) /\ misled' = FALSE /\ embedded' = embedded
  BY DEF OpenCurrent
<1>3. new \in 1..MaxOpens /\ new \in Nat /\ new # 0
  BY <1>2, ViewerAssumption DEF Inv, Typed, ViewerAssumption
<1>4. ws \in [1..MaxOpens -> WorkerType] /\ \A g \in 1..MaxOpens : Sound(g, ws[g])
  BY LetGoFacts
<1>5. /\ Fresh(f) \in WorkerType /\ Sound(new, Fresh(f)) /\ ~Fresh(f).stop
      /\ Fresh(f).file = f /\ Unopened(Fresh(f)) /\ Newer(NoPage, Fresh(f))
  BY FreshFacts
<1> DEFINE v == Reset(view)
<1>6. /\ v \in ViewType /\ v.detected = None /\ v.searching = FALSE
      /\ v.text = NoPage /\ v.hex = NoPage /\ (~v.forced => v.mode = None)
  BY ResetFacts
<1>7. view' = v
  BY <1>2
<1> HIDE DEF new, ws, v
<1>8. /\ workers' \in [1..MaxOpens -> WorkerType] /\ workers'[new] = Fresh(f)
      /\ \A g \in 1..MaxOpens : Sound(g, workers'[g])
  BY <1>1, <1>3, <1>4, <1>5
<1>9. Typed'
  <2>1. embedded \in BOOLEAN
    BY DEF Inv, Typed
  <2>2. new \in 0..MaxOpens /\ new \in 0..new
    BY <1>3
  <2> QED
    BY <1>1, <1>2, <1>3, <1>5, <1>6, <1>7, <1>8, <2>1, <2>2 DEF Typed
<1>10. Searched'
  BY <1>6, <1>7 DEF Searched
<1>11. Detected(v, Fresh(f))
  BY <1>5, <1>6 DEF Detected
<1>12. LastAsked(v, new, Fresh(f))
  BY <1>5, <1>6 DEF LastAsked
<1>13. Followed'
  BY <1>1, <1>7, <1>8, <1>11, <1>12 DEF Followed
<1> QED
  BY <1>8, <1>9, <1>10, <1>13 DEF Inv

LEMMA ClearFileStep ==
  ASSUME Inv, ClearFile
  PROVE  Inv'
<1> DEFINE v == Reset(view)
           ws == LetGo(workers)
<1>1. /\ view' = v /\ current' = 0 /\ workers' = ws
      /\ UNCHANGED <<embedded, opened, misled>>
  BY DEF ClearFile
<1>2. ws \in [1..MaxOpens -> WorkerType] /\ \A g \in 1..MaxOpens : Sound(g, ws[g])
  BY LetGoFacts
<1>3. v \in ViewType /\ v.searching = FALSE
  BY ResetFacts
<1> HIDE DEF v, ws
<1>4. embedded \in BOOLEAN /\ misled \in BOOLEAN /\ opened \in 0..MaxOpens /\ 0 \in 0..opened
  BY ViewerAssumption DEF Inv, Typed, ViewerAssumption
<1>5. Typed'
  BY <1>1, <1>2, <1>3, <1>4 DEF Typed
<1> QED
  BY <1>1, <1>2, <1>3, <1>5 DEF Inv, Searched, Followed

LEMMA Starts == Init => Inv
<1> SUFFICES ASSUME Init PROVE Inv
  OBVIOUS
<1>1. /\ embedded \in BOOLEAN /\ view = Blank(None) /\ current = 0 /\ opened = 0
      /\ workers = [g \in 1..MaxOpens |-> Unused] /\ misled = FALSE
  BY ViewerAssumption DEF Init, ViewerAssumption
<1>2. view \in ViewType /\ view.searching = FALSE
  BY <1>1, BlankFacts
<1> DEFINE e == << >>
           w == Unused
<1>3. e \in Seq(Requests) /\ e \in Seq(Replies) /\ ToSet(e) = {} /\ PagesIn(e) = {}
  BY EmptySeq, NoElements, NoPages
<1>4. Rising(e) /\ RisingPages(e) /\ OpenedFirst(e) /\ PageLast(e) /\ Spoken(e, "ended")
  BY EmptyChannels
<1>5. e = << >>
  OBVIOUS
<1> DEFINE b == Fresh(None)
<1>6. /\ b = [file |-> None, at |-> "opening", stop |-> FALSE, cancel |-> FALSE,
              requests |-> e, replies |-> e, todo |-> e, chunks |-> 0,
              index |-> None, sent |-> 0, asked |-> 0, failed |-> 0]
      /\ w = [b EXCEPT !.at = "ended"]
  BY DEF Unused, Fresh
<1> HIDE DEF e, w, b
<1>7. /\ w.at = "ended" /\ w.requests = e /\ w.replies = e
      /\ w.todo = e /\ w.sent = 0 /\ w.asked = 0 /\ w.failed = 0
  BY <1>6
<1>8. w \in WorkerType
  <2>1. b \in WorkerType
    BY <1>3, <1>6 DEF WorkerType, Places
  <2> QED
    BY <1>6, <2>1 DEF WorkerType, Places
<1>9. Placed(w)
  BY <1>4, <1>5, <1>7 DEF Placed
<1>10. Listed(w) = {} /\ Requested(w) = {} /\ Answered(w) = {} /\ ToCome(w) = {}
  BY <1>3, <1>7 DEF Listed, Requested, Answered, ToCome
<1>11. \A g : Sound(g, w)
  BY <1>3, <1>4, <1>7, <1>9, <1>10 DEF Queued, Sound
<1>12. workers \in [1..MaxOpens -> WorkerType] /\ \A g \in 1..MaxOpens : Sound(g, workers[g])
  BY <1>1, <1>8, <1>11 DEF w
<1>13. MaxOpens \in Nat
  BY ViewerAssumption DEF ViewerAssumption
<1>14. Typed
  <2>1. opened \in 0..MaxOpens /\ current \in 0..opened
    BY <1>1, <1>13
  <2>2. misled \in BOOLEAN /\ embedded \in BOOLEAN
    BY <1>1
  <2> QED
    BY <1>1, <1>2, <1>12, <2>1, <2>2 DEF Typed
<1> QED
  BY <1>1, <1>2, <1>12, <1>14 DEF Inv, Searched, Followed

-----------------------------------------------------------------------------
(* A reply is taken from its channel.                                      *)
Took(g, w, then) ==
  LET r == w.replies[1]
  IN /\ r \in Replies /\ r = Head(w.replies)
     /\ then \in WorkerType /\ Sound(g, then) /\ ~Unopened(then)
     /\ then.at = w.at /\ then.stop = w.stop /\ then.file = w.file /\ then.index = w.index
     /\ then.requests = w.requests /\ then.todo = w.todo
     /\ then.asked = w.asked /\ then.failed = w.failed
     /\ ToSet(w.replies) = {r} \cup ToSet(then.replies)
     /\ r.kind = "Progress" => w.at = "searching" \/ Has(then.replies, Words)
     /\ r.kind = "Opened" <=> Unopened(w)
     /\ \A page : Newer(page, w) => Newer(page, then)
     /\ ~w.stop /\ IsPage(r) =>
          Newer(r.page, then) /\ \A page \in PageType : Newer(page, w) => page.id < r.page.id

LEMMA Taken ==
  ASSUME NEW g, NEW w \in WorkerType, Sound(g, w), w.replies # << >>
  PROVE  Took(g, w, [w EXCEPT !.replies = Tail(w.replies)])
<1> DEFINE s == w.replies
           r == w.replies[1]
           t == Tail(w.replies)
           then == [w EXCEPT !.replies = t]
<1>1. s \in Seq(Replies) /\ s # << >> /\ w.at \in Places
  BY WorkerFields
<1>2. /\ r \in Replies /\ r = Head(s) /\ t \in Seq(Replies)
      /\ ToSet(s) = {r} \cup ToSet(t)
      /\ PagesIn(s) = PagesIn(t) \cup (IF IsPage(r) THEN {r} ELSE {})
  BY <1>1, TailElements, PagesTail
<1>3. /\ Placed(w) /\ (~w.stop => Queued(g, w))
      /\ OpenedFirst(s) /\ Spoken(s, w.at) /\ w.at # "opening"
  BY <1>1 DEF Sound, Placed
<1>4. /\ OpenedFirst(t) /\ ~Has(t, {"Opened"}) /\ Spoken(t, w.at)
      /\ r.kind = "Progress" => w.at = "searching" \/ Has(t, Words)
  BY <1>1, <1>3, OpenedFirstShrinks, SpokenShrinks
<1> HIDE DEF t, r, s
<1>5. /\ then \in WorkerType /\ then.replies = t
      /\ then.at = w.at /\ then.stop = w.stop /\ then.file = w.file /\ then.index = w.index
      /\ then.requests = w.requests /\ then.todo = w.todo
      /\ then.sent = w.sent /\ then.asked = w.asked /\ then.failed = w.failed
  BY <1>2 DEF WorkerType
<1> HIDE DEF then
<1>6. Placed(then)
  BY <1>3, <1>4, <1>5 DEF Placed
<1>7. ~Unopened(then) /\ (r.kind = "Opened" <=> Unopened(w))
  <2>1. Has(s, {"Opened"}) <=> r.kind = "Opened"
    BY <1>2, <1>4 DEF Has
  <2> QED
    BY <1>3, <1>4, <1>5, <2>1 DEF Unopened, s
<1>8. /\ ToCome(then) = ToCome(w) /\ Listed(then) = Listed(w) /\ Requested(then) = Requested(w)
      /\ Answered(w) = Answered(then) \cup (IF IsPage(r) THEN {r.page.id} ELSE {})
  BY <1>2, <1>5 DEF ToCome, Listed, Requested, Answered, s
<1>9. ~w.stop => Queued(g, then)
  <2>1. ASSUME ~w.stop PROVE RisingPages(t)
    <3>1. RisingPages(s)
      BY <1>3, <2>1 DEF Queued, s
    <3> QED
      BY <1>1, <3>1, RisingPagesShrinks DEF t, s
  <2>2. ~w.stop => \A e \in PagesIn(t) : e.page.by = g
    BY <1>2, <1>3 DEF Queued, s
  <2>3. ~w.stop => \A id \in Answered(then) : id <= then.asked /\ \A next \in ToCome(then) : id < next
    BY <1>3, <1>5, <1>8 DEF Queued
  <2> QED
    BY <1>3, <1>5, <1>8, <2>1, <2>2, <2>3 DEF Queued
<1>10. \A page : Newer(page, w) => Newer(page, then)
  BY <1>5, <1>8 DEF Newer
<1>11. ASSUME ~w.stop, IsPage(r)
       PROVE  Newer(r.page, then) /\ \A page \in PageType : Newer(page, w) => page.id < r.page.id
  <2>1. r.page.id \in Answered(w)
    BY <1>8, <1>11
  <2>2. r.page.id <= w.asked /\ \A next \in ToCome(w) : r.page.id < next
    BY <1>3, <1>11, <2>1 DEF Queued
  <2>3. \A e \in PagesIn(t) : r.page.id < e.page.id
    <3>1. RisingPages(s)
      BY <1>3, <1>11 DEF Queued, s
    <3> QED
      BY <1>1, <1>11, <3>1, RisingPagesShrinks DEF t, s, r
  <2>4. \A id \in Answered(then) : r.page.id < id
    BY <1>5, <2>3 DEF Answered
  <2> QED
    BY <1>5, <1>8, <2>1, <2>2, <2>4 DEF Newer
<1>12. Sound(g, then)
  BY <1>5, <1>6, <1>9 DEF Sound
<1>13. then = [w EXCEPT !.replies = Tail(w.replies)]
  BY DEF then, t
<1>14. ToSet(w.replies) = {w.replies[1]} \cup ToSet(then.replies)
  BY <1>2, <1>5 DEF s, r
<1>15. Took(g, w, then)
  BY <1>2, <1>4, <1>5, <1>7, <1>10, <1>11, <1>12, <1>14 DEF Took, s, r
<1> QED
  BY <1>13, <1>15

(* A word of a search apart, a reply does not change what is owed.         *)
LEMMA TookOwes ==
  ASSUME NEW g, NEW w, NEW then, Took(g, w, then), NEW held \in BOOLEAN,
         w.replies[1].kind \notin Words, Owes(w, held)
  PROVE  Owes(then, held)
<1>1. Has(w.replies, Words) => Has(then.replies, Words)
  BY DEF Took, Has
<1> QED
  BY <1>1 DEF Took, Owes

(* Nor where the page is that was asked for last, unless it is that page.  *)
LEMMA TookOnItsWay ==
  ASSUME NEW v, NEW g, NEW w, NEW then, Took(g, w, then), v.mode \in Pages,
         w.replies[1].kind # v.mode, w.replies[1].kind # "IndexComplete" \/ v.mode # "Text",
         OnItsWay(v, g, w)
  PROVE  OnItsWay(v, g, then)
<1>1. v.mode = "Text" => (Late(w) => Late(then)) /\ (Indexed(w) => Indexed(then))
  BY DEF Took, Late, Indexed, Has
<1>2. \A page : Right(v, g, page, w) => Right(v, g, page, then)
  BY <1>1 DEF Right, Took
<1>3. \A r : Wanted(v, r, w) => Wanted(v, r, then)
  BY DEF Wanted, Took
<1> QED
  BY <1>2, <1>3 DEF Took, OnItsWay

-----------------------------------------------------------------------------
(* Reading a reply keeps the invariant when it does for its own worker.    *)
LEMMA ReplyStep ==
  ASSUME Inv, NEW g \in 1..MaxOpens, workers[g].replies # << >>,
         NEW v \in ViewType, NEW ws, Asked(ws), Told(g, v, ws),
         NEW then, then = [ws[g] EXCEPT !.replies = Tail(ws[g].replies)],
         \/ v.searching => view.searching /\ workers[g].replies[1].kind \notin Words
         \/ v.searching => Owes(then, g = current),
         g = current /\ ~misled => Detected(v, then) /\ LastAsked(v, g, then)
  PROVE  Inv'
<1>1. /\ view' = v /\ misled' = (misled \/ g # current)
      /\ UNCHANGED <<embedded, current, opened>>
      /\ workers' = [ws EXCEPT ![g].replies = Tail(workers[g].replies)]
  BY DEF Told
<1>2. /\ workers \in [1..MaxOpens -> WorkerType] /\ ws \in [1..MaxOpens -> WorkerType]
      /\ \A h \in 1..MaxOpens : h # current => ws[h] = workers[h]
      /\ current # 0 => Asking(current, workers[current], ws[current])
      /\ \A h \in 1..MaxOpens : Sound(h, workers[h])
  BY DEF Inv, Typed, Asked
<1>3. \A h \in 1..MaxOpens :
        /\ Sound(h, ws[h]) /\ ws[h].stop = workers[h].stop /\ ws[h].file = workers[h].file
        /\ ws[h].replies = workers[h].replies
        /\ Owes(workers[h], h = current) => Owes(ws[h], h = current)
  <2>1. SUFFICES ASSUME NEW h \in 1..MaxOpens
                 PROVE  /\ Sound(h, ws[h]) /\ ws[h].stop = workers[h].stop
                        /\ ws[h].file = workers[h].file /\ ws[h].replies = workers[h].replies
                        /\ Owes(workers[h], h = current) => Owes(ws[h], h = current)
    OBVIOUS
  <2>2. CASE h # current
    BY <1>2, <2>2
  <2>3. CASE h = current
    <3>1. current # 0 /\ (h = current) = TRUE
      BY <2>3, ViewerAssumption DEF ViewerAssumption
    <3>2. Asking(h, workers[h], ws[h])
      BY <1>2, <2>3, <3>1
    <3> QED
      BY <3>1, <3>2 DEF Asking
  <2> QED
    BY <2>2, <2>3
<1>4. ws[g] \in WorkerType /\ Sound(g, ws[g]) /\ ws[g].replies # << >>
  BY <1>2, <1>3
<1>5. Took(g, ws[g], then)
  BY <1>4, Taken
<1>6. then \in WorkerType /\ Sound(g, then) /\ then.stop = ws[g].stop /\ then.file = ws[g].file
  BY <1>5 DEF Took
<1>7. workers' = [ws EXCEPT ![g] = then]
  <2>1. Tail(ws[g].replies) = Tail(workers[g].replies)
    BY <1>3
  <2> HIDE DEF Told
  <2> QED
    BY <1>1, <1>2, <2>1
<1>8. /\ workers' \in [1..MaxOpens -> WorkerType] /\ workers'[g] = then
      /\ \A h \in 1..MaxOpens : h # g => workers'[h] = ws[h]
  BY <1>2, <1>6, <1>7
<1>9. \A h \in 1..MaxOpens : Sound(h, workers'[h])
  BY <1>3, <1>6, <1>8
<1>10. Typed'
  <2>1. embedded \in BOOLEAN /\ misled' \in BOOLEAN /\ opened \in 0..MaxOpens /\ current \in 0..opened
    BY <1>1 DEF Inv, Typed
  <2>2. ASSUME current # 0
        PROVE  ~workers'[current].stop /\ workers'[current].file \in DOMAIN Files
    <3>1. /\ current \in 1..MaxOpens /\ ~workers[current].stop
          /\ workers[current].file \in DOMAIN Files
      BY <2>2, CurrentIs
    <3> QED
      BY <1>3, <1>6, <1>8, <3>1
  <2> QED
    BY <1>1, <1>8, <2>1, <2>2 DEF Typed
<1>11. Searched'
  <2>1. CASE v.searching => view.searching /\ workers[g].replies[1].kind \notin Words
    <3>1. ASSUME NEW h \in 1..MaxOpens, Owes(workers[h], h = current),
                 workers[g].replies[1].kind \notin Words
          PROVE  Owes(workers'[h], h = current)
      <4>1. Owes(ws[h], h = current)
        BY <1>3, <3>1
      <4>2. CASE h = g
        <5>1. ws[g].replies[1].kind \notin Words
          BY <1>3, <3>1
        <5>2. (h = current) \in BOOLEAN
          OBVIOUS
        <5> DEFINE held == h = current
        <5>3. held \in BOOLEAN /\ Owes(ws[g], held)
          BY <4>1, <4>2, <5>2
        <5> HIDE DEF held
        <5>4. Owes(then, held)
          BY <1>5, <5>1, <5>3, TookOwes
        <5> QED
          BY <1>8, <4>2, <5>4 DEF held
      <4> QED
        BY <1>8, <4>1, <4>2
    <3> QED
      BY <1>1, <2>1, <3>1 DEF Inv, Searched
  <2>2. CASE v.searching => Owes(then, g = current)
    BY <1>1, <1>8, <2>2 DEF Searched
  <2> QED
    BY <2>1, <2>2
<1>12. Followed'
  BY <1>1, <1>8 DEF Followed
<1> QED
  BY <1>9, <1>10, <1>11, <1>12 DEF Inv

(* What the view knows of the worker whose reply it reads, once the reply  *)
(* has made it ask for more.                                               *)
Follows(g, v, w, ws, then) ==
  /\ w \in WorkerType /\ ~w.stop /\ Sound(g, w) /\ w.file \in DOMAIN Files
  /\ Detected(view, w) /\ LastAsked(view, g, w)
  /\ Took(g, ws[g], then)
  /\ ws[g].at = w.at /\ ws[g].stop = w.stop /\ ws[g].file = w.file /\ ws[g].replies = w.replies
  /\ Unopened(w) <=> w.replies[1].kind = "Opened"
  /\ \A page \in PageType : Newer(page, w) => Newer(page, ws[g]) /\ Newer(page, then)

LEMMA ReplyFollows ==
  ASSUME Inv, NEW g \in 1..MaxOpens, workers[g].replies # << >>,
         NEW ws, Asked(ws), g = current, ~misled,
         NEW then, then = [ws[g] EXCEPT !.replies = Tail(ws[g].replies)]
  PROVE  Follows(g, view, workers[g], ws, then)
<1> DEFINE w == workers[g]
<1>1. current # 0 /\ w \in WorkerType /\ ~w.stop /\ Sound(g, w) /\ w.file \in DOMAIN Files
  <2>1. current # 0
    BY ViewerAssumption DEF ViewerAssumption
  <2> QED
    BY <2>1, CurrentIs
<1>2. Detected(view, w) /\ LastAsked(view, g, w)
  BY <1>1 DEF Inv, Followed
<1>3. Asking(g, w, ws[g])
  BY <1>1 DEF Asked
<1>4. /\ ws[g] \in WorkerType /\ Sound(g, ws[g]) /\ ws[g].replies = w.replies
      /\ ws[g].at = w.at /\ ws[g].stop = w.stop /\ ws[g].file = w.file
      /\ \A page \in PageType : Newer(page, w) => Newer(page, ws[g])
  BY <1>3 DEF Asking
<1>5. Took(g, ws[g], then)
  BY <1>4, Taken
<1>6. /\ Unopened(ws[g]) <=> w.replies[1].kind = "Opened"
      /\ \A page : Newer(page, ws[g]) => Newer(page, then)
  BY <1>4, <1>5 DEF Took
<1>7. Unopened(ws[g]) <=> Unopened(w)
  BY <1>4 DEF Unopened
<1> HIDE DEF w
<1> QED
  BY <1>1, <1>2, <1>4, <1>5, <1>6, <1>7 DEF Follows, w

(* A reply that leaves the pages as they are, and after which the page of  *)
(* the mode that is on has been asked for.                                 *)
LEMMA AskedAgain ==
  ASSUME NEW g, NEW v \in ViewType, NEW ws, NEW then, Follows(g, view, workers[g], ws, then),
         view \in ViewType, v.text = view.text, v.hex = view.hex,
         v.mode \in Pages => AsksFor(v, ws[g])
  PROVE  LastAsked(v, g, then)
<1> DEFINE w == workers[g]
<1>1. /\ LastAsked(view, g, w) /\ Took(g, ws[g], then)
      /\ \A page \in PageType : Newer(page, w) => Newer(page, then)
  BY DEF Follows
<1>2. Newer(v.text, then) /\ Newer(v.hex, then)
  BY <1>1 DEF LastAsked, ViewType
<1>3. /\ then.at = ws[g].at /\ then.asked = ws[g].asked /\ then.requests = ws[g].requests
  BY <1>1 DEF Took
<1>4. v.mode \in Pages => then.at = "ended" \/ (then.asked # 0 /\ OnItsWay(v, g, then))
  BY <1>3 DEF AsksFor, OnItsWay, Wanted
<1> QED
  BY <1>2, <1>4 DEF LastAsked

(* A reply other than Opened keeps what is known of the file.              *)
LEMMA DetectedStill ==
  ASSUME NEW g, NEW v, NEW ws, NEW then, Follows(g, view, workers[g], ws, then),
         workers[g].replies[1].kind # "Opened",
         v.mode = view.mode, v.forced = view.forced, v.detected = view.detected
  PROVE  Detected(v, then)
BY DEF Follows, Detected, Took

-----------------------------------------------------------------------------
(* Every kind of reply keeps the invariant.                                *)
LEMMA OpenedStep ==
  ASSUME Inv, NEW g \in 1..MaxOpens, workers[g].replies # << >>, OnOpened(g)
  PROVE  Inv'
<1> DEFINE w == workers[g]
           known == [view EXCEPT !.detected = w.file]
           mode == IF view.mode = None THEN AutoMode(known) ELSE view.mode
           v == [known EXCEPT !.mode = mode]
           ws == RequestCurrent(v)
           then == [ws[g] EXCEPT !.replies = Tail(ws[g].replies)]
<1>1. view \in ViewType /\ w \in WorkerType
  BY ViewIs DEF Inv, Typed
<1>2. w.file \in DOMAIN Files \cup {None}
  BY <1>1 DEF WorkerType
<1>3. /\ known \in ViewType /\ known.mode = view.mode /\ known.detected = w.file
      /\ known.forced = view.forced /\ known.text = view.text /\ known.hex = view.hex
      /\ known.searching = view.searching
  BY <1>1, <1>2 DEF ViewType
<1>4. /\ workers[g].replies[1].kind = "Opened"
      /\ Told(g, [known EXCEPT !.mode = IF known.mode = None THEN AutoMode(known) ELSE known.mode],
              RequestCurrent([known EXCEPT !.mode =
                                IF known.mode = None THEN AutoMode(known) ELSE known.mode]))
  <2>1. w.replies \in Seq(Replies)
    BY <1>1, WorkerFields
  <2>2. Head(w.replies) = w.replies[1]
    BY <2>1, TailElements
  <2> QED
    BY <1>1, <2>2 DEF OnOpened
<1>5. Told(g, v, ws)
  BY <1>3, <1>4
<1> HIDE DEF known
<1>6. AutoMode(known) \in Modes /\ (w.file \in DOMAIN Files => AutoMode(known) = Files[w.file])
  BY <1>2, <1>3, ViewerAssumption DEF AutoMode, ViewerAssumption, Modes
<1>7. mode \in Modes \cup {None} /\ (w.file \in DOMAIN Files /\ view.mode = None => mode = Files[w.file])
  BY <1>6, ViewIs
<1> HIDE DEF mode
<1>8. /\ v \in ViewType /\ v.mode = mode /\ v.detected = w.file /\ v.forced = view.forced
      /\ v.text = view.text /\ v.hex = view.hex /\ v.searching = view.searching
  BY <1>3, <1>7 DEF ViewType
<1> HIDE DEF v
<1>9. Asked(ws) /\ (current # 0 /\ v.mode \in Pages => AsksFor(v, ws[current]))
  BY <1>8, RequestsAsk
<1> HIDE DEF ws
<1>10. workers[g].replies[1].kind \notin Words
  BY <1>4 DEF Words
<1>11. then = [ws[g] EXCEPT !.replies = Tail(ws[g].replies)]
  OBVIOUS
<1> HIDE DEF then
<1>12. ASSUME g = current, ~misled
       PROVE  Detected(v, then) /\ LastAsked(v, g, then)
  <2>1. Follows(g, view, w, ws, then)
    BY <1>9, <1>11, <1>12, ReplyFollows
  <2>2. current # 0
    BY <1>12, ViewerAssumption DEF ViewerAssumption
  <2>3. Detected(v, then)
    <3>1. ~Unopened(then) /\ Unopened(w) /\ Detected(view, w) /\ then.file = w.file /\ w.file \in DOMAIN Files
      BY <1>4, <2>1 DEF Follows, Took
    <3> QED
      BY <1>7, <1>8, <3>1 DEF Detected
  <2>4. LastAsked(v, g, then)
    BY <1>1, <1>8, <1>9, <1>12, <2>1, <2>2, AskedAgain
  <2> QED
    BY <2>3, <2>4
<1>13. v.searching => view.searching /\ workers[g].replies[1].kind \notin Words
  BY <1>8, <1>10
<1> HIDE DEF w
<1> QED
  BY <1>5, <1>8, <1>9, <1>11, <1>12, <1>13, ReplyStep

LEMMA HitStep ==
  ASSUME Inv, NEW g \in 1..MaxOpens, workers[g].replies # << >>, OnHit(g)
  PROVE  Inv'
<1> DEFINE w == workers[g]
           r == w.replies[1]
           v == [view EXCEPT !.highlight = r.page.hit, !.searching = FALSE]
           ws == RequestPage(v)
           then == [ws[g] EXCEPT !.replies = Tail(ws[g].replies)]
<1>1. view \in ViewType /\ w \in WorkerType
  BY ViewIs DEF Inv, Typed
<1>2. w.replies \in Seq(Replies)
  BY <1>1, WorkerFields
<1>3. Head(w.replies) = r /\ r \in Replies
  BY <1>2, TailElements
<1>4. r.kind = "Hit" /\ Told(g, v, ws)
  BY <1>3 DEF OnHit
<1>5. r.page.hit \in Nat
  BY <1>3 DEF Replies, PageType
<1>6. /\ v \in ViewType /\ v.mode = view.mode /\ v.detected = view.detected
      /\ v.forced = view.forced
      /\ v.text = view.text /\ v.hex = view.hex /\ v.searching = FALSE
  BY <1>1, <1>5 DEF ViewType
<1> HIDE DEF v
<1>7. Asked(ws) /\ (current # 0 /\ v.mode \in Pages => AsksFor(v, ws[current]))
  BY <1>6, RequestsAsk
<1> HIDE DEF ws
<1>8. then = [ws[g] EXCEPT !.replies = Tail(ws[g].replies)]
  OBVIOUS
<1> HIDE DEF then
<1>9. ASSUME g = current, ~misled
      PROVE  Detected(v, then) /\ LastAsked(v, g, then)
  <2>1. Follows(g, view, w, ws, then)
    BY <1>7, <1>8, <1>9, ReplyFollows
  <2>2. current # 0
    BY <1>9, ViewerAssumption DEF ViewerAssumption
  <2>3. Detected(v, then)
    BY <1>4, <1>6, <2>1, DetectedStill
  <2>4. LastAsked(v, g, then)
    BY <1>1, <1>6, <1>7, <1>9, <2>1, <2>2, AskedAgain
  <2> QED
    BY <2>3, <2>4
<1> HIDE DEF w
<1> QED
  BY <1>4, <1>6, <1>7, <1>8, <1>9, ReplyStep

LEMMA IndexCompleteStep ==
  ASSUME Inv, NEW g \in 1..MaxOpens, workers[g].replies # << >>, OnIndexComplete(g)
  PROVE  Inv'
<1> DEFINE w == workers[g]
           r == w.replies[1]
           ws == IF view.mode = "Text" THEN RequestPage(view) ELSE workers
           then == [ws[g] EXCEPT !.replies = Tail(ws[g].replies)]
<1>1. view \in ViewType /\ w \in WorkerType
  BY ViewIs DEF Inv, Typed
<1>2. w.replies \in Seq(Replies)
  BY <1>1, WorkerFields
<1>3. Head(w.replies) = r /\ r \in Replies
  BY <1>2, TailElements
<1>4. r.kind = "IndexComplete" /\ Told(g, view, ws)
  BY <1>3 DEF OnIndexComplete
<1>5. Asked(ws) /\ (current # 0 /\ view.mode = "Text" => AsksFor(view, ws[current]))
  BY <1>1, RequestsAsk DEF Pages
<1>6. view.mode # "Text" => ws = workers
  OBVIOUS
<1> HIDE DEF ws
<1>7. then = [ws[g] EXCEPT !.replies = Tail(ws[g].replies)]
  OBVIOUS
<1> HIDE DEF then
<1>8. ASSUME g = current, ~misled
      PROVE  Detected(view, then) /\ LastAsked(view, g, then)
  <2>1. Follows(g, view, w, ws, then)
    BY <1>5, <1>7, <1>8, ReplyFollows
  <2>2. current # 0
    BY <1>8, ViewerAssumption DEF ViewerAssumption
  <2>3. Detected(view, then)
    BY <1>4, <2>1, DetectedStill
  <2>4. CASE view.mode = "Text"
    BY <1>1, <1>5, <1>8, <2>1, <2>2, <2>3, <2>4, AskedAgain
  <2>5. CASE view.mode # "Text"
    <3>1. view.mode \in Pages => w.replies[1].kind # view.mode
      BY <1>4 DEF Pages
    <3>2. /\ LastAsked(view, g, w) /\ Took(g, w, then) /\ ~Unopened(w)
      BY <1>4, <1>6, <2>1, <2>5 DEF Follows
    <3>3. view.mode \in Pages /\ OnItsWay(view, g, w) => OnItsWay(view, g, then)
      BY <2>5, <3>1, <3>2, TookOnItsWay
    <3>4. /\ then.at = w.at /\ then.asked = w.asked
          /\ \A page : Newer(page, w) => Newer(page, then)
      BY <3>2 DEF Took
    <3>5. LastAsked(view, g, then)
      BY <3>2, <3>3, <3>4 DEF LastAsked
    <3> QED
      BY <2>3, <3>5
  <2> QED
    BY <2>4, <2>5
<1>9. workers[g].replies[1].kind \notin Words
  BY <1>4 DEF Words
<1> HIDE DEF w
<1> QED
  BY <1>1, <1>4, <1>5, <1>7, <1>8, <1>9, ReplyStep

LEMMA SearchWordStep ==
  ASSUME Inv, NEW g \in 1..MaxOpens, workers[g].replies # << >>, OnSearchWord(g)
  PROVE  Inv'
<1> DEFINE w == workers[g]
           r == w.replies[1]
           searching == r.kind = "Progress"
           v == [view EXCEPT !.searching = searching]
           then == [w EXCEPT !.replies = Tail(w.replies)]
<1>1. view \in ViewType /\ w \in WorkerType /\ Sound(g, w)
  BY ViewIs DEF Inv, Typed
<1>2. w.replies \in Seq(Replies)
  BY <1>1, WorkerFields
<1>3. Head(w.replies) = r /\ r \in Replies
  BY <1>2, TailElements
<1>4. r.kind \in {"Miss", "Progress", "Error"} /\ Told(g, v, workers)
  BY <1>3 DEF OnSearchWord
<1>5. searching \in BOOLEAN
  OBVIOUS
<1> HIDE DEF searching
<1>6. /\ v \in ViewType /\ v.mode = view.mode /\ v.detected = view.detected
      /\ v.forced = view.forced /\ v.highlight = view.highlight
      /\ v.text = view.text /\ v.hex = view.hex /\ v.searching = searching
  BY <1>1, <1>5 DEF ViewType
<1> HIDE DEF v
<1>7. Asked(workers)
  BY <1>1, RequestsAsk
<1>8. Took(g, w, then)
  BY <1>1, Taken
<1>9. then = [workers[g] EXCEPT !.replies = Tail(workers[g].replies)]
  OBVIOUS
<1> HIDE DEF then
<1>10. v.searching => Owes(then, g = current)
  BY <1>6, <1>8 DEF searching, Took, Owes
<1>11. ASSUME g = current, ~misled
       PROVE  Detected(v, then) /\ LastAsked(v, g, then)
  <2>1. Follows(g, view, w, workers, then)
    BY <1>7, <1>9, <1>11, ReplyFollows
  <2>2. Detected(v, then)
    BY <1>4, <1>6, <2>1, DetectedStill
  <2>3. LastAsked(view, g, w) /\ ~Unopened(w)
    BY <1>4, <2>1 DEF Follows
  <2>4. r.kind \notin Pages /\ r.kind # "IndexComplete"
    BY <1>4 DEF Pages
  <2>5. view.mode \in Pages /\ OnItsWay(view, g, w) => OnItsWay(view, g, then)
    BY <1>8, <2>4, TookOnItsWay
  <2>6. ShownOf(v) = ShownOf(view)
    BY <1>6 DEF ShownOf
  <2>7. OnItsWay(view, g, then) => OnItsWay(v, g, then)
    BY <1>6, <2>6 DEF OnItsWay, Wanted, Right
  <2>8. /\ then.at = w.at /\ then.asked = w.asked
        /\ \A page : Newer(page, w) => Newer(page, then)
    BY <1>8 DEF Took
  <2>9. LastAsked(v, g, then)
    BY <1>6, <2>3, <2>5, <2>7, <2>8 DEF LastAsked
  <2> QED
    BY <2>2, <2>9
<1> HIDE DEF w
<1> QED
  BY <1>4, <1>6, <1>7, <1>9, <1>10, <1>11, ReplyStep

LEMMA PageStep ==
  ASSUME Inv, NEW g \in 1..MaxOpens, workers[g].replies # << >>, OnPage(g)
  PROVE  Inv'
<1> DEFINE w == workers[g]
           r == w.replies[1]
           v == CASE r.kind = "Text" -> [view EXCEPT !.text = r.page]
                  [] r.kind = "Hex" -> [view EXCEPT !.hex = r.page]
                  [] r.kind = "Image" -> [view EXCEPT !.image = r.page]
           then == [w EXCEPT !.replies = Tail(w.replies)]
<1>1. view \in ViewType /\ w \in WorkerType /\ Sound(g, w)
  BY ViewIs DEF Inv, Typed
<1>2. w.replies \in Seq(Replies)
  BY <1>1, WorkerFields
<1>3. Head(w.replies) = r /\ r \in Replies
  BY <1>2, TailElements
<1>4. r.kind \in Modes /\ Told(g, v, workers)
  BY <1>3 DEF OnPage
<1>5. r.page \in PageType
  BY <1>3 DEF Replies
<1>6. /\ v \in ViewType /\ v.mode = view.mode /\ v.detected = view.detected
      /\ v.forced = view.forced /\ v.highlight = view.highlight
      /\ v.searching = view.searching
      /\ v.text = (IF r.kind = "Text" THEN r.page ELSE view.text)
      /\ v.hex = (IF r.kind = "Hex" THEN r.page ELSE view.hex)
  <2>1. CASE r.kind = "Text"
    <3>1. v = [view EXCEPT !.text = r.page]
      BY <2>1
    <3> HIDE DEF v
    <3> QED
      BY <1>1, <1>5, <2>1, <3>1 DEF ViewType
  <2>2. CASE r.kind = "Hex"
    <3>1. v = [view EXCEPT !.hex = r.page]
      BY <2>2
    <3> HIDE DEF v
    <3> QED
      BY <1>1, <1>5, <2>2, <3>1 DEF ViewType
  <2>3. CASE r.kind = "Image"
    <3>1. v = [view EXCEPT !.image = r.page]
      BY <2>3
    <3> HIDE DEF v
    <3> QED
      BY <1>1, <1>5, <2>3, <3>1 DEF ViewType
  <2> QED
    BY <1>4, <2>1, <2>2, <2>3 DEF Modes
<1> HIDE DEF v
<1>7. Asked(workers)
  BY <1>1, RequestsAsk
<1>8. Took(g, w, then)
  <2>1. w.replies # << >>
    OBVIOUS
  <2> QED
    BY <1>1, <2>1, Taken
<1>9. then = [workers[g] EXCEPT !.replies = Tail(workers[g].replies)]
  OBVIOUS
<1> HIDE DEF then
<1>10. r.kind \notin Words /\ r.kind # "Opened" /\ r.kind # "IndexComplete"
  BY <1>4 DEF Words, Modes
<1>11. ASSUME g = current, ~misled
       PROVE  Detected(v, then) /\ LastAsked(v, g, then)
  <2>1. Follows(g, view, w, workers, then)
    BY <1>7, <1>9, <1>11, ReplyFollows
  <2>2. Detected(v, then)
    BY <1>6, <1>10, <2>1, DetectedStill
  <2>3. LastAsked(view, g, w) /\ ~Unopened(w) /\ ~w.stop
    BY <1>10, <2>1 DEF Follows
  <2>4. /\ then.at = w.at /\ then.asked = w.asked /\ then.failed = w.failed
        /\ then.requests = w.requests /\ then.todo = w.todo
        /\ ToSet(w.replies) = {r} \cup ToSet(then.replies)
        /\ \A page : Newer(page, w) => Newer(page, then)
        /\ IsPage(r) =>
             Newer(r.page, then) /\ \A page \in PageType : Newer(page, w) => page.id < r.page.id
    BY <1>8, <2>3 DEF Took
  <2>5. Newer(v.text, then) /\ Newer(v.hex, then)
    <3>1. Newer(view.text, then) /\ Newer(view.hex, then)
      BY <2>3, <2>4 DEF LastAsked
    <3>2. r.kind \in {"Text", "Hex"} => Newer(r.page, then)
      BY <2>4 DEF IsPage, Pages
    <3> QED
      BY <1>6, <3>1, <3>2
  <2>6. ASSUME v.mode \in Pages, OnItsWay(view, g, w)
        PROVE  OnItsWay(v, g, then)
    <3>1. v.mode = "Text" \/ v.mode = "Hex"
      BY <2>6 DEF Pages
    <3>2. CASE r.kind # view.mode
      <4>1. OnItsWay(view, g, then)
        BY <1>6, <1>8, <1>10, <2>6, <3>2, TookOnItsWay
      <4>2. ShownOf(v) = ShownOf(view)
        BY <1>6, <3>1, <3>2 DEF ShownOf
      <4> QED
        BY <1>6, <4>1, <4>2 DEF OnItsWay, Wanted, Right
    <3>3. CASE r.kind = view.mode
      <4>1. IsPage(r) /\ ShownOf(v) = r.page
        BY <1>6, <2>6, <3>1, <3>3 DEF IsPage, ShownOf
      <4>2. (Late(w) <=> Late(then)) /\ (Indexed(w) <=> Indexed(then))
        BY <1>8, <1>10 DEF Took, Late, Indexed, Has
      <4>3. ~Right(view, g, ShownOf(view), w)
        <5>1. ShownOf(view) \in PageType /\ Newer(ShownOf(view), w)
          BY <1>1, <2>3 DEF ShownOf, LastAsked, ViewType
        <5>2. ShownOf(view).id < r.page.id /\ r.page.id <= w.asked
          BY <2>4, <4>1, <5>1 DEF Newer
        <5>3. ShownOf(view).id \in Nat /\ r.page.id \in Nat /\ w.asked \in Nat
          BY <1>1, <1>5, <5>1, WorkerFields DEF PageType
        <5> QED
          BY <5>2, <5>3 DEF Right
      <4>4. \A page : Right(view, g, page, w) => Right(v, g, page, then)
        BY <1>6, <2>4, <4>2 DEF Right
      <4>5. \A e : Wanted(view, e, w) => Wanted(v, e, then)
        BY <1>6, <2>4 DEF Wanted
      <4>6. CASE \E e \in ToSet(w.requests) \cup ToSet(w.todo) : Wanted(view, e, w)
        BY <2>4, <4>5, <4>6 DEF OnItsWay
      <4>7. CASE \E e \in ToSet(w.replies) : e.kind = view.mode /\ Right(view, g, e.page, w)
        <5>1. PICK e \in {r} \cup ToSet(then.replies) : e.kind = view.mode /\ Right(view, g, e.page, w)
          BY <2>4, <4>7
        <5>2. CASE e = r
          BY <4>1, <4>4, <5>1, <5>2 DEF OnItsWay
        <5>3. CASE e \in ToSet(then.replies)
          BY <1>6, <4>4, <5>1, <5>3 DEF OnItsWay
        <5> QED
          BY <5>1, <5>2, <5>3
      <4>8. CASE w.failed = w.asked
        BY <2>4, <4>8 DEF OnItsWay
      <4> QED
        BY <2>6, <4>3, <4>6, <4>7, <4>8 DEF OnItsWay
    <3> QED
      BY <3>2, <3>3
  <2>7. v.mode \in Pages => then.at = "ended" \/ (then.asked # 0 /\ OnItsWay(v, g, then))
    BY <1>6, <2>3, <2>4, <2>6 DEF LastAsked
  <2> QED
    BY <2>2, <2>5, <2>7 DEF LastAsked
<1>12. v.searching => view.searching /\ workers[g].replies[1].kind \notin Words
  BY <1>6, <1>10
<1> HIDE DEF w
<1> QED
  BY <1>4, <1>6, <1>7, <1>9, <1>11, <1>12, ReplyStep

LEMMA Step == Inv /\ [Next]_vars => Inv'
<1> SUFFICES ASSUME Inv, [Next]_vars PROVE Inv'
  OBVIOUS
<1>1. CASE User
  BY <1>1, NavigateStep, ResizeStep, SetModeStep, SetModeAutoStep, FindStep, OpenBarStep,
     CloseBarStep, OpenCurrentStep, ClearFileStep DEF User
<1>2. CASE \E g \in 1..MaxOpens : Thread(g) \/ Index(g)
  BY <1>2, ThreadStep
<1>3. CASE \E g \in 1..MaxOpens : OnReply(g)
  BY <1>3, OpenedStep, PageStep, HitStep, SearchWordStep, IndexCompleteStep DEF OnReply
<1>4. CASE UNCHANGED vars
  BY <1>4 DEF vars, Inv, Typed, Searched, Followed
<1> QED
  BY <1>1, <1>2, <1>3, <1>4 DEF Next

LEMMA Invariance == Spec => []Inv
BY Starts, Step, PTL DEF Spec

-----------------------------------------------------------------------------
(* At rest a search the view still shows would be owed a word, and nobody  *)
(* is left to give it.                                                     *)
LEMMA RestNoSearch == Inv => NoSearchLeft
<1> SUFFICES ASSUME Inv, Settled PROVE ~view.searching
  BY DEF NoSearchLeft
<1>1. ASSUME NEW g \in 1..MaxOpens
      PROVE  ~Owes(workers[g], g = current)
  <2> DEFINE w == workers[g]
  <2>1. /\ w.requests = << >> /\ w.replies = << >> /\ (g # current => w.at = "ended")
        /\ g = current => w.at = "idle"
        /\ Sound(g, w)
    BY DEF Settled, Inv
  <2>2. w.todo = << >>
    BY <2>1 DEF Sound, Placed
  <2>3. ~Has(w.requests, {"Search"}) /\ ~Has(w.todo, {"Search"}) /\ ~Has(w.replies, Words)
    BY <2>1, <2>2, HasNothing
  <2>4. w.at # "searching" /\ (g = current => w.at # "ended")
    BY <2>1
  <2> HIDE DEF w
  <2> QED
    BY <2>3, <2>4 DEF Owes, w
<1> QED
  BY <1>1 DEF Inv, Searched

(* At rest the page that was asked for last can only be the one on screen. *)
LEMMA RestShown ==
  ASSUME Inv, Settled, ~misled
  PROVE  /\ view.mode \in Pages =>
              /\ workers[current].asked # 0
              /\ \/ Right(view, current, ShownOf(view), workers[current])
                 \/ workers[current].failed = workers[current].asked
         /\ ~view.forced => view.mode = Files[workers[current].file]
         /\ Late(workers[current]) <=> workers[current].index = "partial"
<1> DEFINE w == workers[current]
<1>1. current # 0 /\ w.at = "idle" /\ w.index # "building"
  BY DEF Settled
<1>2. current \in 1..MaxOpens /\ Sound(current, w)
  BY <1>1, CurrentIs
<1>3. w.requests = << >> /\ w.replies = << >>
  BY <1>2 DEF Settled
<1>4. w.todo = << >>
  BY <1>1, <1>2 DEF Sound, Placed
<1>5. Detected(view, w) /\ LastAsked(view, current, w)
  BY <1>1 DEF Inv, Followed
<1> HIDE DEF w
<1>6. ToSet(w.requests) = {} /\ ToSet(w.replies) = {} /\ ToSet(w.todo) = {}
  BY <1>3, <1>4, NoElements
<1>7. ~Unopened(w) /\ (Late(w) <=> w.index = "partial")
  BY <1>1, <1>3, HasNothing DEF Unopened, Late
<1>8. view.mode \in Pages => w.asked # 0 /\ OnItsWay(view, current, w)
  BY <1>1, <1>5, <1>7 DEF LastAsked
<1>9. ~view.forced => view.mode = Files[w.file]
  BY <1>1, <1>5, <1>7 DEF Detected
<1>10. OnItsWay(view, current, w) =>
         Right(view, current, ShownOf(view), w) \/ w.failed = w.asked
  BY <1>6 DEF OnItsWay
<1> QED
  BY <1>7, <1>8, <1>9, <1>10 DEF w

(* When nothing is on its way, the view shows the page that was asked for  *)
(* last, in the mode that is on, and a mode the user has not chosen is the *)
(* file's: whatever order requests, hits and the index came in.            *)
THEOREM LastAskedHolds == Spec => []LastAskedShown
<1>1. Inv => LastAskedShown
  BY RestShown DEF LastAskedShown, Right, ShownOf, Shown
<1> QED
  BY <1>1, Invariance, PTL

(* That page marks the hit found last, and its line numbers are final just *)
(* when the index thread has not failed, whatever it raced with.           *)
THEOREM ShownCompleteHolds == Spec => []ShownIsComplete
<1>1. Inv => ShownIsComplete
  <2>1. ASSUME Inv, Settled, ~misled, view.mode \in Pages,
               workers[current].failed # workers[current].asked
        PROVE  /\ Shown.hit = view.highlight
               /\ view.mode = "Text" => (Shown.final <=> workers[current].index # "partial")
    <3>1. Right(view, current, Shown, workers[current])
      BY <2>1, RestShown DEF ShownOf, Shown
    <3>2. Late(workers[current]) <=> workers[current].index = "partial"
      BY <2>1, RestShown
    <3> QED
      BY <3>1, <3>2 DEF Right, Indexed, None
  <2> QED
    BY <2>1 DEF ShownIsComplete
<1> QED
  BY <1>1, Invariance, PTL

(* When nothing is on its way, no search is shown to run, whichever worker *)
(* was asked for it and however it ended.                                  *)
THEOREM NoSearchLeftHolds == Spec => []NoSearchLeft
BY RestNoSearch, Invariance, PTL

===============================================================================
