------------------------ MODULE MemoryCompressionProofs ------------------------
(***************************************************************************)
(* The memory of the review conversations, and the requests built from     *)
(* them, for every set of files, every number of rounds and of calls per   *)
(* reply, and all weights and limits.                                      *)
(***************************************************************************)
EXTENDS ChatEncoding, FiniteSetTheorems, SequenceTheorems, WellFoundedInduction, TLAPS

(* Induction up to n, on a set of numbers instead of a predicate. *)
LEMMA UpTo ==
  ASSUME NEW n \in Nat, NEW T \in SUBSET (0..n), 0 \in T,
         \A k \in T : k < n => k + 1 \in T
  PROVE  T = 0..n
<1> SUFFICES ASSUME (0..n) \ T # {} PROVE FALSE
  OBVIOUS
<1>1. (0..n) \ T \in SUBSET Nat
  OBVIOUS
<1>2. PICK m \in (0..n) \ T : \A k \in (0..n) \ T : <<k, m>> \notin OpToRel(<, Nat)
  BY <1>1, NatLessThanWellFounded, WFMin
<1>3. m \in 1..n /\ m - 1 \in 0..n
  <2>1. m \in 0..n /\ m # 0  OBVIOUS
  <2> QED BY <2>1
<1>4. m - 1 \in T
  <2> SUFFICES ASSUME m - 1 \notin T PROVE FALSE  OBVIOUS
  <2>1. m - 1 \in (0..n) \ T /\ m - 1 < m /\ m \in Nat /\ m - 1 \in Nat  BY <1>3
  <2> QED BY <1>2, <2>1 DEF OpToRel
<1>5. m \in T
  <2>1. m - 1 < n /\ (m - 1) + 1 = m  BY <1>3
  <2> QED BY <1>4, <2>1
<1> QED
  BY <1>2, <1>5

(* A nonempty set of positions has a last one. *)
LEMMA LastPosition ==
  ASSUME NEW n \in Nat, NEW S \in SUBSET (1..n), S # {}
  PROVE  Max(S) \in S /\ \A j \in S : Max(S) >= j
<1> DEFINE D == {n - i : i \in S}
<1>1. D \subseteq Nat /\ D # {}
  <2>1. \A i \in S : n - i \in D /\ n - i \in Nat  OBVIOUS
  <2>2. \A d \in D : d \in Nat  BY <2>1
  <2> QED BY <2>1, <2>2
<1>2. PICK d \in D : \A e \in D : <<e, d>> \notin OpToRel(<, Nat)
  BY <1>1, NatLessThanWellFounded, WFMin
<1>3. \A e \in D : ~(e < d)
  <2> TAKE e \in D
  <2>1. e \in Nat /\ d \in Nat  BY <1>1
  <2>2. <<e, d>> \notin OpToRel(<, Nat)  BY <1>2
  <2> QED BY <2>1, <2>2 DEF OpToRel
<1>4. PICK i \in S : d = n - i  BY <1>2
<1>5. \A j \in S : i >= j
  <2> TAKE j \in S
  <2>1. n - j \in D  OBVIOUS
  <2>2. ~(n - j < n - i)  BY <1>3, <1>4, <2>1
  <2>3. i \in Int /\ j \in Int /\ n \in Int  OBVIOUS
  <2> QED BY <2>2, <2>3
<1> QED BY <1>4, <1>5 DEF Max

LEMMA CompressEndInside ==
  ASSUME NEW s \in Seq(Entry)
  PROVE  CompressEnd(s) \in 0..Len(s) /\ Len(s) \in Nat
<1> DEFINE old == RoundsOf(s) \ ActiveRounds(s)
<1>1. Len(s) \in Nat /\ old \in SUBSET (1..Len(s))
  BY LenProperties DEF RoundsOf
<1> HIDE DEF old
<1>2. old # {} => Max(old) \in old  BY <1>1, LastPosition
<1>3. CompressEnd(s) = IF old = {} THEN Len(s) ELSE Max(old)
  BY DEF CompressEnd, old
<1>4. CASE old = {}  BY <1>1, <1>3, <1>4
<1>5. CASE old # {}
  <2>1. CompressEnd(s) \in 1..Len(s)  BY <1>1, <1>2, <1>3, <1>5
  <2> QED BY <1>1, <2>1
<1> QED BY <1>4, <1>5
-------------------------------------------------------------------------------
(* Conversations. *)

(* No round comes back after an entry of its reply, nor after its summary. *)
Orderly(c) ==
  /\ \A i, j \in DOMAIN c.tail :
       i < j /\ c.tail[j].kind = "round" => c.tail[i].id # c.tail[j].id
  /\ \A i \in RoundsOf(c.tail) : c.tail[i].id \notin c.summed

(* The rounds a conversation knows of, and that each was added to one before:
   added is the number of the last round of each file that was. *)
Ids(c) == {c.tail[i].id : i \in DOMAIN c.tail} \cup c.summed
Past(c, added) == \A r \in Ids(c) : r[2] <= added[r[1]]

LEMMA ConvFacts ==
  ASSUME NEW c \in Conv
  PROVE  /\ c.tail \in Seq(Entry) /\ Len(c.tail) \in Nat
         /\ DOMAIN c.tail = 1..Len(c.tail)
         /\ \A i \in DOMAIN c.tail : c.tail[i] \in Entry
         /\ c.head \in Files /\ c.summed \in SUBSET RoundId /\ c.sums \in Nat
         /\ Ids(c) \in SUBSET RoundId
         /\ RoundsOf(c.tail) \subseteq DOMAIN c.tail
<1>1. /\ c.tail \in Seq(Entry) /\ c.head \in Files
      /\ c.summed \in SUBSET RoundId /\ c.sums \in Nat
  BY DEF Conv
<1>2. Len(c.tail) \in Nat /\ DOMAIN c.tail = 1..Len(c.tail)
  BY <1>1, LenProperties
<1>3. \A i \in DOMAIN c.tail : c.tail[i] \in Entry
  BY <1>1, <1>2, ElementOfSeq
<1>4. \A i \in DOMAIN c.tail : c.tail[i].id \in RoundId  BY <1>3 DEF Entry
<1> QED BY <1>1, <1>2, <1>3, <1>4 DEF Ids, RoundsOf

(* A conversation grows by entries of a reply it does not know. *)
LEMMA Grows ==
  ASSUME NEW c \in Conv, NEW t \in Seq(Entry), NEW id,
         \A i \in 1..Len(t) : t[i].id = id,
         \A i \in 1..Len(t) : t[i].kind = "round" => i = 1,
         id \notin Ids(c), Orderly(c)
  PROVE  LET d == [c EXCEPT !.tail = @ \o t]
         IN  /\ d \in Conv /\ Orderly(d) /\ Ids(d) \subseteq Ids(c) \cup {id}
             /\ Shown(c) \subseteq Shown(d)
<1> DEFINE u == c.tail \o t
           d == [c EXCEPT !.tail = @ \o t]
           n == Len(c.tail)
<1>1. /\ u \in Seq(Entry) /\ Len(u) = n + Len(t) /\ n \in Nat /\ Len(t) \in Nat
      /\ DOMAIN u = 1..(n + Len(t)) /\ DOMAIN c.tail = 1..n
      /\ \A i \in 1..(n + Len(t)) : u[i] = IF i <= n THEN c.tail[i] ELSE t[i - n]
  BY ConvFacts, ConcatProperties, LenProperties
<1>2. d = [c EXCEPT !.tail = u]  OBVIOUS
<1> HIDE DEF u, d, n
<1>3. d \in Conv /\ d.tail = u /\ d.summed = c.summed  BY <1>1, <1>2 DEF Conv
<1>4. \A i \in 1..n : u[i] = c.tail[i] /\ i \in DOMAIN u /\ u[i].id # id
  BY <1>1 DEF Ids
<1>5. \A i \in DOMAIN u : i > n => u[i].id = id /\ (u[i].kind = "round" => i = n + 1)
  <2> TAKE i \in DOMAIN u
  <2> HAVE i > n
  <2>1. i - n \in 1..Len(t) /\ u[i] = t[i - n]  BY <1>1
  <2>2. i - n = 1 => i = n + 1  BY <1>1
  <2> QED BY <2>1, <2>2
<1>6. \A i \in DOMAIN u : i \in 1..n \/ i > n  BY <1>1
<1>7. Orderly(d)
  <2>1. ASSUME NEW i \in DOMAIN u, NEW j \in DOMAIN u, i < j, u[j].kind = "round"
        PROVE  u[i].id # u[j].id
    <3>1. CASE j \in 1..n
      <4>1. i \in 1..n  BY <1>1, <2>1, <3>1
      <4>2. c.tail[i].id # c.tail[j].id
        BY <1>1, <1>4, <2>1, <3>1, <4>1 DEF Orderly
      <4> QED BY <1>4, <3>1, <4>1, <4>2
    <3>2. CASE j > n
      <4>1. j = n + 1 /\ u[j].id = id  BY <1>5, <2>1, <3>2
      <4>2. i \in 1..n  BY <1>1, <2>1, <4>1
      <4> QED BY <1>4, <4>1, <4>2
    <3> QED BY <1>6, <3>1, <3>2
  <2>2. ASSUME NEW i \in RoundsOf(u)  PROVE u[i].id \notin c.summed
    <3>1. i \in DOMAIN u /\ u[i].kind = "round"  BY DEF RoundsOf
    <3>2. CASE i \in 1..n
      <4>1. i \in RoundsOf(c.tail)  BY <1>1, <1>4, <3>1, <3>2 DEF RoundsOf
      <4> QED BY <1>4, <3>2, <4>1 DEF Orderly
    <3>3. CASE i > n  BY <1>5, <3>1, <3>3 DEF Ids
    <3> QED BY <1>6, <3>1, <3>2, <3>3
  <2> QED BY <1>3, <2>1, <2>2 DEF Orderly
<1>8. Ids(d) \subseteq Ids(c) \cup {id}
  <2>1. \A i \in DOMAIN u : u[i].id \in Ids(c) \cup {id}
    BY <1>1, <1>4, <1>5, <1>6 DEF Ids
  <2> QED BY <1>3, <2>1 DEF Ids
<1>9. Shown(c) \subseteq Shown(d)
  <2>1. \A i \in RoundsOf(c.tail) : i \in RoundsOf(u) /\ u[i].id = c.tail[i].id
    BY <1>1, <1>4 DEF RoundsOf
  <2> QED BY <1>3, <2>1 DEF Shown
<1> QED BY <1>3, <1>7, <1>8, <1>9 DEF d

(* A compression forgets nothing but by failing, and its zones do not overlap. *)
LEMMA Compresses ==
  ASSUME NEW c \in Conv, Orderly(c), NEW d \in RunCompression(c)
  PROVE  /\ d \in Conv /\ Orderly(d) /\ Ids(d) \subseteq Ids(c)
         /\ Shown(c) \subseteq Shown(d) \/ d = HeadOnly(c)
<1>1. CASE d = c  BY <1>1
<1>2. CASE d = HeadOnly(c)
  <2>1. d \in Conv /\ d.tail = <<>> /\ d.summed = c.summed
    BY <1>2, EmptySeq DEF HeadOnly, Conv
  <2>2. DOMAIN d.tail = {} /\ RoundsOf(d.tail) = {}  BY <2>1 DEF RoundsOf
  <2> QED BY <1>2, <2>1, <2>2 DEF Orderly, Ids
<1>3. CASE d = Rebuilt(c)
  <2> DEFINE e == CompressEnd(c.tail)
             n == Len(c.tail)
             u == SubSeq(c.tail, e + 1, n)
             old == {c.tail[i].id : i \in 1..e}
  <2>1. e \in 0..n /\ n \in Nat /\ DOMAIN c.tail = 1..n
        /\ \A i \in 1..n : c.tail[i] \in Entry
    BY ConvFacts, CompressEndInside
  <2>2. d = [c EXCEPT !.summed = @ \cup old, !.sums = @ + 1, !.tail = u]
    BY <1>3 DEF Rebuilt
  <2> HIDE DEF e, n
  <2>3. /\ u \in Seq(Entry) /\ Len(u) = n - e
        /\ \A i \in 1..(n - e) : u[i] = c.tail[e + i]
    <3>1. e + 1 \in Int /\ n \in Int /\ \A i \in (e + 1)..n : c.tail[i] \in Entry
      BY <2>1
    <3>2. /\ u \in Seq(Entry)
          /\ Len(u) = IF e + 1 <= n THEN n - (e + 1) + 1 ELSE 0
          /\ \A i \in 1..(n - (e + 1) + 1) : u[i] = c.tail[(e + 1) + i - 1]
      BY <3>1, SubSeqProperties
    <3>3. \A i \in 1..(n - e) : i \in 1..(n - (e + 1) + 1) /\ (e + 1) + i - 1 = e + i
      BY <2>1
    <3>4. Len(u) = n - e  BY <2>1, <3>2
    <3> QED BY <3>2, <3>3, <3>4
  <2>4. DOMAIN u = 1..(n - e)  BY <2>3, LenProperties
  <2>5. old \in SUBSET RoundId /\ old \subseteq Ids(c)
    BY <2>1 DEF Entry, Ids
  <2> HIDE DEF u, old
  <2>6. d \in Conv /\ d.tail = u /\ d.summed = c.summed \cup old
    <3>1. c.summed \cup old \in SUBSET RoundId /\ c.sums + 1 \in Nat /\ c.head \in Files
      BY <2>5, ConvFacts
    <3>2. d = [head |-> c.head, summed |-> c.summed \cup old, sums |-> c.sums + 1, tail |-> u]
      BY <2>2 DEF Conv
    <3> QED BY <2>3, <3>1, <3>2 DEF Conv
  <2>7. \A i \in DOMAIN u : e + i \in DOMAIN c.tail /\ e + i > e /\ u[i] = c.tail[e + i]
    BY <2>1, <2>3, <2>4
  <2>8. \A i \in RoundsOf(u) : e + i \in RoundsOf(c.tail) /\ u[i] = c.tail[e + i]
    BY <2>7 DEF RoundsOf
  <2>9. Orderly(d)
    <3>1. ASSUME NEW i \in DOMAIN u, NEW j \in DOMAIN u, i < j, u[j].kind = "round"
          PROVE  u[i].id # u[j].id
      <4>1. e + i < e + j  BY <2>1, <2>4, <3>1
      <4> QED BY <2>7, <3>1, <4>1 DEF Orderly
    <3>2. ASSUME NEW i \in RoundsOf(u)  PROVE u[i].id \notin c.summed \cup old
      <4>1. u[i].id \notin c.summed  BY <2>8 DEF Orderly
      <4>2. ASSUME NEW k \in 1..e  PROVE c.tail[k].id # u[i].id
        <5>1. k \in DOMAIN c.tail /\ k < e + i
          BY <2>1, <2>4 DEF RoundsOf
        <5>2. c.tail[e + i].kind = "round" /\ e + i \in DOMAIN c.tail
          BY <2>8 DEF RoundsOf
        <5> QED BY <2>8, <5>1, <5>2 DEF Orderly
      <4> QED BY <4>1, <4>2 DEF old
    <3> QED BY <2>6, <3>1, <3>2 DEF Orderly
  <2>10. Ids(d) \subseteq Ids(c)
    BY <2>5, <2>6, <2>7 DEF Ids
  <2>11. Shown(c) \subseteq Shown(d)
    <3>1. ASSUME NEW i \in RoundsOf(c.tail)  PROVE c.tail[i].id \in Shown(d)
      <4>1. i \in 1..n /\ c.tail[i].kind = "round"  BY <2>1 DEF RoundsOf
      <4>2. CASE i <= e
        <5>1. i \in 1..e  BY <2>1, <4>1, <4>2
        <5> QED BY <2>6, <5>1 DEF old, Shown
      <4>3. CASE i > e
        <5>1. i - e \in DOMAIN u /\ e + (i - e) = i  BY <2>1, <2>4, <4>1, <4>3
        <5>2. u[i - e] = c.tail[i]  BY <2>7, <5>1
        <5>3. i - e \in RoundsOf(u)  BY <4>1, <5>1, <5>2 DEF RoundsOf
        <5> QED BY <2>6, <5>2, <5>3 DEF Shown
      <4> QED BY <2>1, <4>1, <4>2, <4>3
    <3> QED BY <2>6, <3>1 DEF Shown
  <2> QED BY <2>6, <2>9, <2>10, <2>11
<1> QED BY <1>1, <1>2, <1>3 DEF RunCompression

LEMMA PastStays ==
  ASSUME NEW c \in Conv, NEW a, NEW b, Past(c, a),
         \A f \in Files : a[f] \in Int /\ b[f] \in Int /\ a[f] <= b[f]
  PROVE  Past(c, b)
<1> SUFFICES ASSUME NEW r \in Ids(c)  PROVE r[2] <= b[r[1]]  BY DEF Past
<1>1. r[1] \in Files /\ r[2] \in Int
  BY ConvFacts, CompressionAssumption DEF RoundId
<1>2. r[2] <= a[r[1]]  BY DEF Past
<1> QED BY <1>1, <1>2

-------------------------------------------------------------------------------
(* The inductive invariant. *)

Places == {"call", "apply", "hard", "compressing", "soft", "trigger",
           "append", "final", "recompressing", "done"}

(* While its goroutine is in addNextMessage, the round a file received last is
   in no conversation yet. *)
Adding(f) == pc[f] \in {"apply", "hard", "compressing", "soft", "trigger", "append"}
Added == [f \in Files |-> IF Adding(f) THEN round[f] - 1 ELSE round[f]]

FilesOK ==
  /\ pc \in [Files -> Places]
  /\ round \in [Files -> 0..MaxRounds]
  /\ conv \in [Files -> Conv]
  /\ reply \in [Files -> Entry \cup {NoReply}]
  /\ \A f \in Files : Adding(f) =>
       reply[f] \in Entry /\ reply[f].id = <<f, round[f]>>

(* A job can still replace a conversation while it runs or is pending; the
   pending one has not yet. *)
Job == [conv : Conv \cup {NoConv}, state : {"running", "closed"}, retired : BOOLEAN, uses : Nat]
Usable(j) == jobs[j].state = "running" \/ j = pending

JobsOK ==
  /\ jobs \in Seq(Job) /\ pending \in 0..Len(jobs)
  /\ \A j \in DOMAIN jobs : jobs[j].uses <= 1 /\ (Usable(j) => jobs[j].conv \in Conv)
  /\ pending # None => ~jobs[pending].retired /\ jobs[pending].uses = 0

Sound(c) == Orderly(c) /\ Past(c, Added)

ConvsSound == \A f \in Files : Sound(conv[f])
JobsSound  == \A j \in DOMAIN jobs : Usable(j) => Sound(jobs[j].conv)

Inv == FilesOK /\ JobsOK /\ ConvsSound /\ JobsSound

LEMMA JobFacts ==
  ASSUME JobsOK
  PROVE  /\ Len(jobs) \in Nat /\ DOMAIN jobs = 1..Len(jobs)
         /\ \A j \in DOMAIN jobs : jobs[j] \in Job
         /\ pending # None => pending \in DOMAIN jobs
<1>1. Len(jobs) \in Nat /\ DOMAIN jobs = 1..Len(jobs)
  BY LenProperties DEF JobsOK
<1>2. \A j \in DOMAIN jobs : jobs[j] \in Job  BY <1>1, ElementOfSeq DEF JobsOK
<1> QED BY <1>1, <1>2 DEF JobsOK, None

LEMMA InitInv == Init => Inv
<1> SUFFICES ASSUME Init PROVE Inv  OBVIOUS
<1>1. \A f \in Files : /\ conv[f] \in Conv /\ conv[f].tail = <<>> /\ conv[f].summed = {}
                       /\ DOMAIN conv[f].tail = {} /\ RoundsOf(conv[f].tail) = {}
  BY EmptySeq DEF Init, Conv, RoundsOf
<1>2. FilesOK
  <2>1. conv \in [Files -> Conv]  BY EmptySeq DEF Init, Conv
  <2> QED BY <2>1, CompressionAssumption DEF Init, FilesOK, Places, Adding
<1>3. jobs \in Seq(Job) /\ Len(jobs) = 0 /\ DOMAIN jobs = {}
  BY EmptySeq DEF Init
<1>4. JobsOK /\ JobsSound  BY <1>3 DEF Init, JobsOK, JobsSound, None
<1>5. ConvsSound  BY <1>1 DEF ConvsSound, Sound, Orderly, Past, Ids
<1> QED BY <1>2, <1>4, <1>5 DEF Inv

(* No step of any goroutine takes a round back. *)
LEMMA AddedGrows ==
  ASSUME FilesOK, [Next]_vars
  PROVE  \A f \in Files : Added[f] \in Int /\ Added'[f] \in Int /\ Added[f] <= Added'[f]
<1> SUFFICES ASSUME NEW f \in Files
             PROVE  Added[f] \in Int /\ Added'[f] \in Int /\ Added[f] <= Added'[f]
  OBVIOUS
<1>0. round[f] \in Int /\ pc[f] \in Places  BY CompressionAssumption DEF FilesOK
<1>1. CASE pc'[f] = pc[f] /\ round'[f] = round[f]
  BY <1>0, <1>1 DEF Added, Adding
<1>2. ASSUME NEW g \in Files, Respond(g)
      PROVE  Added[f] \in Int /\ Added'[f] \in Int /\ Added[f] <= Added'[f]
  BY <1>0, <1>2 DEF Respond, Move, Added, Adding, FilesOK
<1>3. ASSUME NEW g \in Files, Remind(g)
      PROVE  Added[f] \in Int /\ Added'[f] \in Int /\ Added[f] <= Added'[f]
  BY <1>0, <1>3 DEF Remind, Move, Added, Adding, FilesOK
<1>4. ASSUME NEW g \in Files,
             \/ TryApply(g) \/ CancelFirst(g) \/ CompressFirst(g) \/ Soft(g) \/ Trigger(g)
      PROVE  Added[f] \in Int /\ Added'[f] \in Int /\ Added[f] <= Added'[f]
  <2>1. /\ round' = round /\ Adding(g)
        /\ \E to \in {"hard", "compressing", "soft", "trigger", "append"} :
             pc' = [pc EXCEPT ![g] = to]
    BY <1>4 DEF TryApply, MeasureNext, CancelFirst, CompressFirst, Soft, Trigger, Move, Adding
  <2> QED BY <1>0, <2>1 DEF Added, Adding, FilesOK
<1>5. ASSUME NEW g \in Files,
             AppendRound(g) \/ LoopOver(g) \/ CancelLast(g) \/ CompressLast(g)
      PROVE  Added[f] \in Int /\ Added'[f] \in Int /\ Added[f] <= Added'[f]
  <2>1. /\ round' = round
        /\ \E to \in {"final", "call", "done", "recompressing"} :
             pc' = [pc EXCEPT ![g] = to]
    BY <1>5 DEF AppendRound, LoopOver, CancelLast, CompressLast, After, Move
  <2> QED BY <1>0, <2>1 DEF Added, Adding, FilesOK
<1>6. ASSUME NEW j \in DOMAIN jobs, JobEnds(j)
      PROVE  pc' = pc /\ round' = round
  BY <1>6 DEF JobEnds
<1>7. UNCHANGED vars => pc' = pc /\ round' = round  BY DEF vars
<1> QED BY <1>1, <1>2, <1>3, <1>4, <1>5, <1>6, <1>7 DEF Next, FileStep, Stopped
-------------------------------------------------------------------------------
(* The jobs. *)

(* A job that leaves the slot keeps its uses; running on, it keeps its snapshot. *)
LEMMA RetiredKeeps ==
  ASSUME JobsOK
  PROVE  /\ Retired(pending) \in Seq(Job) /\ Len(Retired(pending)) = Len(jobs)
         /\ \A j \in DOMAIN jobs :
              /\ Retired(pending)[j].uses = jobs[j].uses
              /\ Retired(pending)[j].state = jobs[j].state
              /\ jobs[j].state = "running" => Retired(pending)[j].conv = jobs[j].conv
<1>1. CASE pending = None
  BY <1>1 DEF Retired, JobsOK
<1>2. CASE pending # None
  <2> DEFINE old == jobs[pending]
             new == IF old.state = "closed"
                      THEN [old EXCEPT !.retired = TRUE, !.conv = NoConv]
                      ELSE [old EXCEPT !.retired = TRUE]
  <2>1. pending \in 1..Len(jobs) /\ old \in Job  BY <1>2, JobFacts
  <2>2. Retired(pending) = [jobs EXCEPT ![pending] = new]  BY <1>2 DEF Retired
  <2> HIDE DEF old
  <2>3. new \in Job /\ new.uses = old.uses /\ new.state = old.state
        /\ (old.state = "running" => new.conv = old.conv)
    BY <2>1 DEF Job
  <2> HIDE DEF new
  <2>4. /\ Retired(pending) \in Seq(Job) /\ Len(Retired(pending)) = Len(jobs)
        /\ \A j \in 1..Len(jobs) : Retired(pending)[j] = IF j = pending THEN new ELSE jobs[j]
    BY <2>1, <2>2, <2>3, ExceptSeq DEF JobsOK
  <2> QED BY <2>3, <2>4, JobFacts DEF old
<1> QED BY <1>1, <1>2

(* Where the slice of a job that is still usable comes from. *)
FromBefore(j) ==
  \/ \E f \in Files : jobs'[j].conv = conv[f]
  \/ /\ j \in DOMAIN jobs /\ Usable(j)
     /\ jobs'[j].conv \in {jobs[j].conv} \cup RunCompression(jobs[j].conv)

(* A result is used when it leaves the slot, for the first time. *)
UsedInTime(j) ==
  \/ jobs'[j].uses = jobs[j].uses
  \/ j = pending /\ pending # None /\ jobs'[j].uses = 1

JobsMove ==
  /\ JobsOK'
  /\ \A j \in DOMAIN jobs' : Usable(j)' => FromBefore(j)
  /\ \A j \in DOMAIN jobs : j \in DOMAIN jobs' /\ UsedInTime(j)

LEMMA Cancels ==
  ASSUME Inv, CancelPending
  PROVE  JobsMove
<1> USE DEF Inv
<1>1. /\ jobs' \in Seq(Job) /\ Len(jobs') = Len(jobs) /\ pending' = None
      /\ \A j \in DOMAIN jobs :
           /\ jobs'[j].uses = jobs[j].uses /\ jobs'[j].state = jobs[j].state
           /\ jobs[j].state = "running" => jobs'[j].conv = jobs[j].conv
  BY RetiredKeeps DEF CancelPending
<1>2. DOMAIN jobs' = DOMAIN jobs /\ DOMAIN jobs = 1..Len(jobs) /\ Len(jobs) \in Nat
  BY <1>1, JobFacts, LenProperties
<1>3. \A j \in DOMAIN jobs' : Usable(j)' => jobs[j].state = "running"
  BY <1>1, <1>2 DEF Usable, None
<1>4. JobsOK'
  BY <1>1, <1>2, <1>3 DEF JobsOK, Usable, None
<1>5. \A j \in DOMAIN jobs' : Usable(j)' => FromBefore(j)
  BY <1>1, <1>2, <1>3 DEF FromBefore, Usable
<1> QED BY <1>1, <1>2, <1>4, <1>5 DEF JobsMove, UsedInTime

LEMMA Applies ==
  ASSUME Inv, NEW f \in Files, TryApply(f), ClosedJobPending
  PROVE  JobsMove /\ conv' = [conv EXCEPT ![f] = jobs[pending].conv]
<1> USE DEF Inv
<1> DEFINE old == jobs[pending]
           new == [old EXCEPT !.uses = @ + 1, !.conv = NoConv]
<1>1. pending # None /\ pending \in 1..Len(jobs) /\ old \in Job /\ old.uses = 0
      /\ old.state = "closed"
  BY JobFacts DEF ClosedJobPending, JobsOK
<1>2. jobs' = [jobs EXCEPT ![pending].uses = @ + 1, ![pending].conv = NoConv]
      /\ pending' = None /\ conv' = [conv EXCEPT ![f] = jobs[pending].conv]
  BY DEF TryApply
<1>3. jobs' = [jobs EXCEPT ![pending] = new]  BY <1>1, <1>2, JobFacts
<1> HIDE DEF old
<1>4. new \in Job /\ new.uses = 1 /\ new.state = "closed"
  <2>1. old \in Job /\ old.uses = 0 /\ old.state = "closed"  BY <1>1
  <2>2. [old EXCEPT !.uses = @ + 1] \in Job /\ [old EXCEPT !.uses = @ + 1].uses = 1
        /\ [old EXCEPT !.uses = @ + 1].state = "closed"
    BY <2>1 DEF Job
  <2> DEFINE used == [old EXCEPT !.uses = @ + 1]
  <2>3. new = [used EXCEPT !.conv = NoConv]  OBVIOUS
  <2> HIDE DEF used, new
  <2> QED BY <2>2, <2>3 DEF Job, used
<1> HIDE DEF new
<1>5. /\ jobs' \in Seq(Job) /\ Len(jobs') = Len(jobs)
      /\ \A j \in 1..Len(jobs) : jobs'[j] = IF j = pending THEN new ELSE jobs[j]
  BY <1>1, <1>3, <1>4, ExceptSeq DEF JobsOK
<1>6. DOMAIN jobs' = DOMAIN jobs /\ DOMAIN jobs = 1..Len(jobs) /\ Len(jobs) \in Nat
  BY <1>5, JobFacts, LenProperties
<1>7. \A j \in DOMAIN jobs' : Usable(j)' => j # pending /\ Usable(j)
  <2> SUFFICES ASSUME NEW j \in DOMAIN jobs', Usable(j)'  PROVE j # pending /\ Usable(j)
    OBVIOUS
  <2>1. j \in 1..Len(jobs) /\ j # pending'  BY <1>2, <1>6 DEF None
  <2>2. jobs'[j].state = "running"  BY <2>1 DEF Usable
  <2>3. j # pending /\ jobs'[j] = jobs[j]  BY <1>4, <1>5, <2>1, <2>2
  <2> QED BY <2>2, <2>3 DEF Usable
<1>8. JobsOK'
  BY <1>2, <1>4, <1>5, <1>6, <1>7 DEF JobsOK, None
<1>9. \A j \in DOMAIN jobs' : Usable(j)' => FromBefore(j)
  BY <1>5, <1>6, <1>7 DEF FromBefore
<1> QED BY <1>1, <1>2, <1>4, <1>5, <1>6, <1>8, <1>9 DEF JobsMove, UsedInTime

LEMMA Triggers ==
  ASSUME Inv, NEW f \in Files, Trigger(f)
  PROVE  JobsMove
<1> USE DEF Inv
<1> DEFINE R == Retired(pending)
           new == [conv |-> conv[f], state |-> "running", retired |-> FALSE, uses |-> 0]
           n == Len(jobs)
<1>1. conv[f] \in Conv /\ new \in Job  BY DEF FilesOK, Job
<1>2. jobs' = Append(R, new) /\ pending' = n + 1  BY DEF Trigger
<1>3. /\ R \in Seq(Job) /\ Len(R) = n /\ DOMAIN jobs = 1..n /\ n \in Nat
      /\ \A j \in DOMAIN jobs :
           /\ R[j].uses = jobs[j].uses /\ R[j].state = jobs[j].state
           /\ jobs[j].state = "running" => R[j].conv = jobs[j].conv
  BY RetiredKeeps, JobFacts
<1> HIDE DEF R, n
<1>4. new.conv = conv[f] /\ new.uses = 0 /\ ~new.retired  OBVIOUS
<1> HIDE DEF new
<1>5. /\ jobs' \in Seq(Job) /\ Len(jobs') = n + 1
      /\ \A j \in 1..n : jobs'[j] = R[j]
      /\ jobs'[n + 1] = new
  BY <1>1, <1>2, <1>3, AppendProperties
<1>6. DOMAIN jobs' = 1..(n + 1)  BY <1>5, LenProperties
<1>7. \A j \in DOMAIN jobs' : j = n + 1 \/ j \in 1..n  BY <1>3, <1>6
<1>8. ASSUME NEW j \in 1..n
      PROVE  /\ jobs'[j].uses = jobs[j].uses
             /\ Usable(j)' => jobs[j].state = "running" /\ jobs'[j].conv = jobs[j].conv
  <2>1. j # pending'  BY <1>2, <1>3
  <2> QED BY <1>3, <1>5, <2>1 DEF Usable
<1>9. JobsOK'
  <2>1. pending' \in 0..Len(jobs') /\ pending' \in DOMAIN jobs' /\ jobs'[pending'] = new
    BY <1>2, <1>3, <1>5, <1>6
  <2>2. \A j \in DOMAIN jobs' :
          jobs'[j].uses <= 1 /\ (Usable(j)' => jobs'[j].conv \in Conv)
    BY <1>1, <1>3, <1>4, <1>5, <1>7, <1>8 DEF JobsOK, Usable
  <2> QED BY <1>4, <1>5, <2>1, <2>2 DEF JobsOK
<1>10. \A j \in DOMAIN jobs' : Usable(j)' => FromBefore(j)
  BY <1>3, <1>4, <1>5, <1>7, <1>8 DEF FromBefore, Usable
<1>11. \A j \in DOMAIN jobs : j \in DOMAIN jobs' /\ UsedInTime(j)
  BY <1>3, <1>6, <1>8 DEF UsedInTime
<1> QED BY <1>9, <1>10, <1>11 DEF JobsMove

LEMMA Ends ==
  ASSUME Inv, NEW j \in DOMAIN jobs, JobEnds(j)
  PROVE  JobsMove
<1> USE DEF Inv
<1> DEFINE old == jobs[j]
<1>1. old \in Job /\ Usable(j) /\ old.conv \in Conv /\ Orderly(old.conv) /\ j \in 1..Len(jobs)
  BY JobFacts DEF JobEnds, Usable, JobsOK, JobsSound, Sound
<1>2. PICK c \in RunCompression(old.conv) \cup {NoConv} :
        /\ jobs' = [jobs EXCEPT ![j].state = "closed", ![j].conv = c]
        /\ pending = j => c \in RunCompression(old.conv)
        /\ pending' = pending
  BY DEF JobEnds
<1>3. c \in Conv \cup {NoConv} /\ (pending = j => c \in Conv)
  BY <1>1, <1>2, Compresses
<1> DEFINE new == [old EXCEPT !.state = "closed", !.conv = c]
<1>4. jobs' = [jobs EXCEPT ![j] = new]  BY <1>2
<1> HIDE DEF old
<1>5. /\ new \in Job /\ new.uses = old.uses /\ new.retired = old.retired
      /\ new.conv = c /\ new.state = "closed"
  BY <1>1, <1>3 DEF Job
<1> HIDE DEF new
<1>6. /\ jobs' \in Seq(Job) /\ Len(jobs') = Len(jobs)
      /\ \A i \in 1..Len(jobs) : jobs'[i] = IF i = j THEN new ELSE jobs[i]
  BY <1>1, <1>4, <1>5, ExceptSeq DEF JobsOK
<1>7. DOMAIN jobs' = DOMAIN jobs /\ DOMAIN jobs = 1..Len(jobs) /\ Len(jobs) \in Nat
  BY <1>6, JobFacts, LenProperties
<1>8. \A i \in DOMAIN jobs' : Usable(i)' => Usable(i) /\ (i = j => pending = j)
  BY <1>2, <1>5, <1>6, <1>7 DEF Usable
<1>9. JobsOK'
  BY <1>2, <1>3, <1>5, <1>6, <1>7, <1>8, JobFacts DEF JobsOK, old
<1>10. \A i \in DOMAIN jobs' : Usable(i)' => FromBefore(i)
  BY <1>2, <1>5, <1>6, <1>7, <1>8 DEF FromBefore, old
<1> QED BY <1>5, <1>6, <1>7, <1>9, <1>10 DEF JobsMove, UsedInTime, old

LEMMA JobsStep ==
  ASSUME Inv, [Next]_vars
  PROVE  JobsMove
<1>1. CASE UNCHANGED <<jobs, pending>>
  BY <1>1 DEF Inv, JobsMove, JobsOK, Usable, FromBefore, UsedInTime
<1>2. ASSUME NEW f \in Files, TryApply(f)
      PROVE  JobsMove
  <2>1. CASE ClosedJobPending  BY <1>2, <2>1, Applies
  <2>2. CASE ~ClosedJobPending  BY <1>1, <1>2, <2>2 DEF TryApply
  <2> QED BY <2>1, <2>2
<1>3. ASSUME NEW f \in Files, CancelFirst(f) \/ CancelLast(f)  PROVE JobsMove
  BY <1>3, Cancels DEF CancelFirst, CancelLast
<1>4. ASSUME NEW f \in Files, Trigger(f)  PROVE JobsMove
  BY <1>4, Triggers
<1>5. ASSUME NEW j \in DOMAIN jobs, JobEnds(j)  PROVE JobsMove
  BY <1>5, Ends
<1>6. ASSUME NEW f \in Files,
             \/ Respond(f) \/ Remind(f) \/ LoopOver(f) \/ CompressFirst(f) \/ Soft(f)
             \/ AppendRound(f) \/ CompressLast(f)
      PROVE  UNCHANGED <<jobs, pending>>
  BY <1>6 DEF Respond, Remind, LoopOver, CompressFirst, Soft, AppendRound, CompressLast
<1>7. UNCHANGED vars => UNCHANGED <<jobs, pending>>  BY DEF vars
<1> QED BY <1>1, <1>2, <1>3, <1>4, <1>5, <1>6, <1>7 DEF Next, FileStep, Stopped
-------------------------------------------------------------------------------
(* The conversations. *)

(* What a conversation shows is shown after the step, unless a compression fails
   or a background result takes its place. *)
Accounted(f) ==
  \/ Shown(conv[f]) \subseteq Shown(conv'[f])
  \/ pc[f] \in {"compressing", "recompressing"} /\ conv'[f] = HeadOnly(conv[f])
  \/ pc[f] = "apply" /\ ClosedJobPending /\ conv'[f] = jobs[pending].conv

ConvsMove ==
  /\ conv' \in [Files -> Conv]
  /\ \A f \in Files : Orderly(conv'[f]) /\ Past(conv'[f], Added') /\ Accounted(f)

LEMMA SameConvs ==
  ASSUME Inv, [Next]_vars, conv' = conv
  PROVE  ConvsMove
<1> SUFFICES ASSUME NEW f \in Files
             PROVE  Orderly(conv'[f]) /\ Past(conv'[f], Added') /\ Accounted(f)
  BY DEF ConvsMove, Inv, FilesOK
<1>1. conv[f] \in Conv /\ Orderly(conv[f]) /\ Past(conv[f], Added)
  BY DEF Inv, FilesOK, ConvsSound, Sound
<1>2. Past(conv[f], Added')  BY <1>1, AddedGrows, PastStays DEF Inv
<1> QED BY <1>1, <1>2 DEF Accounted

(* A step of one file's goroutine changes that file's conversation. *)
LEMMA OneConv ==
  ASSUME Inv, [Next]_vars, NEW f \in Files, NEW d \in Conv,
         conv' = [conv EXCEPT ![f] = d], Orderly(d), Past(d, Added'),
         \/ Shown(conv[f]) \subseteq Shown(d)
         \/ pc[f] \in {"compressing", "recompressing"} /\ d = HeadOnly(conv[f])
         \/ pc[f] = "apply" /\ ClosedJobPending /\ d = jobs[pending].conv
  PROVE  ConvsMove
<1>1. conv' \in [Files -> Conv] /\ conv'[f] = d /\ \A g \in Files \ {f} : conv'[g] = conv[g]
  BY DEF Inv, FilesOK
<1>2. Orderly(conv'[f]) /\ Past(conv'[f], Added') /\ Accounted(f)
  BY <1>1 DEF Accounted
<1>3. ASSUME NEW g \in Files \ {f}
      PROVE  Orderly(conv'[g]) /\ Past(conv'[g], Added') /\ Accounted(g)
  <2>1. conv[g] \in Conv /\ Orderly(conv[g]) /\ Past(conv[g], Added)
    BY DEF Inv, FilesOK, ConvsSound, Sound
  <2>2. Past(conv[g], Added')  BY <2>1, AddedGrows, PastStays DEF Inv
  <2> QED BY <1>1, <2>1, <2>2 DEF Accounted
<1> QED BY <1>1, <1>2, <1>3 DEF ConvsMove

(* Entries of a reply no conversation knows yet, for Remind and AppendRound. *)
LEMMA AddsReply ==
  ASSUME Inv, [Next]_vars, NEW f \in Files, NEW n \in Int, NEW t \in Seq(Entry),
         \A i \in 1..Len(t) : t[i].id = <<f, n>>,
         \A i \in 1..Len(t) : t[i].kind = "round" => i = 1,
         Added[f] < n, n <= Added'[f],
         conv' = [conv EXCEPT ![f] = [conv[f] EXCEPT !.tail = @ \o t]]
  PROVE  ConvsMove
<1> DEFINE c == conv[f]
           d == [c EXCEPT !.tail = @ \o t]
           id == <<f, n>>
<1>1. c \in Conv /\ Orderly(c) /\ Past(c, Added)
  BY DEF Inv, FilesOK, ConvsSound, Sound
<1>2. Added[f] \in Int /\ Added'[f] \in Int  BY AddedGrows DEF Inv
<1>3. id \notin Ids(c)
  <2>1. id[1] = f /\ id[2] = n  OBVIOUS
  <2> HIDE DEF id, c
  <2> SUFFICES ASSUME id \in Ids(c) PROVE FALSE  OBVIOUS
  <2>2. n <= Added[f]  BY <1>1, <2>1 DEF Past
  <2> QED BY <1>2, <2>2
<1> HIDE DEF c
<1>4. d \in Conv /\ Orderly(d) /\ Ids(d) \subseteq Ids(c) \cup {id} /\ Shown(c) \subseteq Shown(d)
  BY <1>1, <1>3, Grows
<1>5. Past(c, Added')  BY <1>1, AddedGrows, PastStays DEF Inv
<1>6. Past(d, Added')  BY <1>2, <1>4, <1>5 DEF Past
<1>7. conv' = [conv EXCEPT ![f] = d]  BY DEF c
<1> HIDE DEF d
<1> QED BY <1>4, <1>6, <1>7, OneConv DEF c

LEMMA RemindMoves ==
  ASSUME Inv, NEW f \in Files, Remind(f)
  PROVE  ConvsMove
<1> DEFINE n == round[f] + 1
           reminder == [id |-> <<f, n>>, kind |-> "reminder", w |-> ReminderTokens]
           spoken(w) == [id |-> <<f, n>>, kind |-> "round", w |-> w]
<1>1. [Next]_vars  BY DEF Next, FileStep
<1>2. /\ pc[f] = "call" /\ pc' = [pc EXCEPT ![f] = "call"] /\ round[f] < MaxRounds
      /\ round' = [round EXCEPT ![f] = n]
  BY DEF Remind, Move, BudgetLeft
<1>3. round[f] \in Int /\ <<f, n>> \in RoundId /\ n \in Int
  BY <1>2, CompressionAssumption DEF Inv, FilesOK, RoundId
<1>4. Added[f] < n /\ n <= Added'[f]
  BY <1>2, <1>3 DEF Added, Adding, Inv, FilesOK
<1>5. reminder \in Entry /\ \A w \in Weights : spoken(w) \in Entry
  BY <1>3 DEF Entry
<1>6. PICK text \in {<<>>} \cup {<<spoken(w)>> : w \in Weights} :
        conv' = [conv EXCEPT ![f].tail = @ \o text \o <<reminder>>]
  BY DEF Remind
<1>7. conv[f] \in Conv /\ conv[f].tail \in Seq(Entry)
  BY ConvFacts DEF Inv, FilesOK
<1> DEFINE t == text \o <<reminder>>
           head == conv[f].tail
<1>8. /\ text = <<>> \/ \E w \in Weights : text = <<spoken(w)>>
      /\ reminder.id = <<f, n>> /\ reminder.kind = "reminder"
      /\ \A w \in Weights : spoken(w).id = <<f, n>>
  <2>1. text \in {<<>>} \cup {<<spoken(w)>> : w \in Weights}  BY <1>6
  <2>2. \A w \in Weights : spoken(w).id = <<f, n>>  OBVIOUS
  <2>3. reminder.id = <<f, n>> /\ reminder.kind = "reminder"  OBVIOUS
  <2> HIDE DEF spoken, reminder
  <2> QED BY <2>1, <2>2, <2>3
<1> HIDE DEF n, reminder, spoken, head
<1>9. text \in Seq(Entry) /\ <<reminder>> \in Seq(Entry)
      /\ Len(<<reminder>>) = 1 /\ <<reminder>>[1] = reminder
  <2>1. reminder \in Entry /\ \A w \in Weights : spoken(w) \in Entry  BY <1>5
  <2>2. \A e \in Entry : <<e>> \in Seq(Entry)  OBVIOUS
  <2>3. <<>> \in Seq(Entry)  BY EmptySeq
  <2>4. text \in Seq(Entry)  BY <1>8, <2>1, <2>2, <2>3
  <2> QED BY <2>1, <2>2, <2>4
<1>10. /\ t \in Seq(Entry)
       /\ \A i \in 1..Len(t) : t[i].id = <<f, n>> /\ (t[i].kind = "round" => i = 1)
  <2>1. /\ t \in Seq(Entry) /\ Len(t) = Len(text) + 1
        /\ \A i \in 1..(Len(text) + 1) :
             t[i] = IF i <= Len(text) THEN text[i] ELSE <<reminder>>[i - Len(text)]
    BY <1>9, ConcatProperties
  <2> HIDE DEF t
  <2>2. CASE text = <<>>
    <3>1. Len(text) = 0  BY <2>2
    <3>2. \A i \in 1..Len(t) : t[i] = reminder  BY <1>9, <2>1, <3>1
    <3> QED BY <1>8, <2>1, <3>2
  <2>3. ASSUME NEW w \in Weights, text = <<spoken(w)>>
        PROVE  \A i \in 1..Len(t) : t[i].id = <<f, n>> /\ (t[i].kind = "round" => i = 1)
    <3>1. Len(text) = 1 /\ text[1] = spoken(w)  BY <2>3
    <3>2. Len(t) = 2 /\ t[1] = spoken(w) /\ t[2] = reminder  BY <1>9, <2>1, <3>1
    <3>3. \A i \in 1..Len(t) : i = 1 \/ i = 2  BY <3>2
    <3> QED BY <1>8, <3>2, <3>3
  <2> QED BY <1>8, <2>1, <2>2, <2>3
<1>11. conv' = [conv EXCEPT ![f] = [conv[f] EXCEPT !.tail = @ \o t]]
  <2>1. (head \o text) \o <<reminder>> = head \o t
    <3>1. head \in Seq(Entry)  BY <1>7 DEF head
    <3> QED BY <1>9, <3>1, ConcatAssociative
  <2>2. conv' = [conv EXCEPT ![f] = [conv[f] EXCEPT !.tail = (head \o text) \o <<reminder>>]]
    BY <1>6 DEF Inv, FilesOK, head
  <2> QED BY <2>1, <2>2 DEF head
<1> HIDE DEF t
<1> QED BY <1>1, <1>3, <1>4, <1>10, <1>11, AddsReply

LEMMA AppendMoves ==
  ASSUME Inv, NEW f \in Files, AppendRound(f)
  PROVE  ConvsMove
<1> DEFINE n == round[f]
           t == <<reply[f]>>
<1>1. [Next]_vars  BY DEF Next, FileStep
<1>2. /\ pc[f] = "append" /\ round' = round
      /\ \E to \in {"final", "call", "done"} : pc' = [pc EXCEPT ![f] = to]
      /\ conv' = [conv EXCEPT ![f] = [conv[f] EXCEPT !.tail = Append(@, reply[f])]]
  BY DEF AppendRound, Move, After
<1>3. reply[f] \in Entry /\ reply[f].id = <<f, n>>
  BY <1>2 DEF Inv, FilesOK, Adding
<1>4. n \in Int  BY CompressionAssumption DEF Inv, FilesOK
<1>5. Added[f] < n /\ n <= Added'[f]
  BY <1>2, <1>4 DEF Added, Adding, Inv, FilesOK
<1>6. t \in Seq(Entry) /\ Len(t) = 1 /\ t[1] = reply[f]  BY <1>3
<1>7. \A i \in 1..Len(t) : i = 1  BY <1>6
<1>8. conv[f].tail \in Seq(Entry)  BY ConvFacts DEF Inv, FilesOK
<1>9. Append(conv[f].tail, reply[f]) = conv[f].tail \o t
  BY <1>3, <1>8, AppendIsConcat
<1>10. conv' = [conv EXCEPT ![f] = [conv[f] EXCEPT !.tail = @ \o t]]
  BY <1>2, <1>9
<1> HIDE DEF t, n
<1> QED BY <1>1, <1>3, <1>4, <1>5, <1>6, <1>7, <1>10, AddsReply

LEMMA CompressMoves ==
  ASSUME Inv, NEW f \in Files, CompressFirst(f) \/ CompressLast(f)
  PROVE  ConvsMove
<1>1. [Next]_vars  BY DEF Next, FileStep
<1>2. pc[f] \in {"compressing", "recompressing"}
  BY DEF CompressFirst, CompressLast, Move
<1>3. PICK d \in RunCompression(conv[f]) : conv' = [conv EXCEPT ![f] = d]
  BY DEF CompressFirst, CompressLast
<1>4. conv[f] \in Conv /\ Orderly(conv[f]) /\ Past(conv[f], Added)
  BY DEF Inv, FilesOK, ConvsSound, Sound
<1>5. d \in Conv /\ Orderly(d) /\ Ids(d) \subseteq Ids(conv[f])
      /\ (Shown(conv[f]) \subseteq Shown(d) \/ d = HeadOnly(conv[f]))
  BY <1>4, Compresses
<1>6. Past(d, Added')
  <2>1. Past(conv[f], Added')  BY <1>1, <1>4, AddedGrows, PastStays DEF Inv
  <2> QED BY <1>5, <2>1 DEF Past
<1> QED BY <1>1, <1>2, <1>3, <1>5, <1>6, OneConv

LEMMA ApplyMoves ==
  ASSUME Inv, NEW f \in Files, TryApply(f)
  PROVE  ConvsMove
<1>1. [Next]_vars  BY DEF Next, FileStep
<1>2. CASE ~ClosedJobPending
  BY <1>1, <1>2, SameConvs DEF TryApply
<1>3. CASE ClosedJobPending
  <2> DEFINE d == jobs[pending].conv
  <2>1. conv' = [conv EXCEPT ![f] = d]  BY <1>3, Applies
  <2>2. pending \in DOMAIN jobs /\ Usable(pending)
    BY <1>3, JobFacts DEF ClosedJobPending, Usable, Inv
  <2>3. d \in Conv /\ Orderly(d) /\ Past(d, Added)
    BY <2>2 DEF Inv, JobsOK, JobsSound, Sound
  <2>4. Past(d, Added')  BY <1>1, <2>3, AddedGrows, PastStays DEF Inv
  <2>5. pc[f] = "apply"  BY DEF TryApply, Move
  <2> QED BY <1>1, <1>3, <2>1, <2>3, <2>4, <2>5, OneConv
<1> QED BY <1>2, <1>3

LEMMA ConvsStep ==
  ASSUME Inv, [Next]_vars
  PROVE  ConvsMove
<1>1. ASSUME NEW f \in Files,
             \/ Respond(f) \/ LoopOver(f) \/ CancelFirst(f) \/ Soft(f) \/ Trigger(f)
             \/ CancelLast(f)
      PROVE  conv' = conv
  BY <1>1 DEF Respond, LoopOver, CancelFirst, Soft, Trigger, CancelLast
<1>2. ASSUME NEW j \in DOMAIN jobs, JobEnds(j)  PROVE conv' = conv
  BY <1>2 DEF JobEnds
<1>3. UNCHANGED vars => conv' = conv  BY DEF vars
<1> QED BY <1>1, <1>2, <1>3, SameConvs, RemindMoves, AppendMoves, CompressMoves, ApplyMoves
     DEF Next, FileStep, Stopped

LEMMA FilesStep ==
  ASSUME Inv, [Next]_vars
  PROVE  FilesOK'
<1>0. FilesOK /\ conv' \in [Files -> Conv]  BY ConvsStep DEF Inv, ConvsMove
<1>1. ASSUME NEW f \in Files, Respond(f)  PROVE FilesOK'
  <2>1. PICK w \in Weights :
          reply' = [reply EXCEPT ![f] = [id |-> <<f, round[f] + 1>>, kind |-> "round", w |-> w]]
    BY <1>1 DEF Respond
  <2>2. round[f] + 1 \in 1..MaxRounds
    BY <1>0, <1>1, CompressionAssumption DEF Respond, BudgetLeft, FilesOK
  <2> DEFINE e == [id |-> <<f, round[f] + 1>>, kind |-> "round", w |-> w]
  <2>3. e \in Entry /\ e.id = <<f, round[f] + 1>>
    BY <2>2 DEF Entry, RoundId
  <2>4. round' = [round EXCEPT ![f] = round[f] + 1] /\ pc' = [pc EXCEPT ![f] = "apply"]
    BY <1>1 DEF Respond, Move
  <2> HIDE DEF e
  <2>5. reply' = [reply EXCEPT ![f] = e]  BY <2>1 DEF e
  <2> QED BY <1>0, <2>2, <2>3, <2>4, <2>5, CompressionAssumption DEF FilesOK, Places, Adding
<1>2. ASSUME NEW f \in Files, Remind(f)  PROVE FilesOK'
  <2>1. round' = [round EXCEPT ![f] = round[f] + 1] /\ pc' = [pc EXCEPT ![f] = "call"]
        /\ reply' = reply /\ round[f] + 1 \in 0..MaxRounds
    BY <1>0, <1>2, CompressionAssumption DEF Remind, Move, BudgetLeft, FilesOK
  <2> QED BY <1>0, <2>1 DEF FilesOK, Places, Adding
<1>3. ASSUME NEW f \in Files,
             \/ LoopOver(f) \/ TryApply(f) \/ CancelFirst(f) \/ CompressFirst(f) \/ Soft(f)
             \/ Trigger(f) \/ CancelLast(f) \/ CompressLast(f)
      PROVE  FilesOK'
  <2>1. /\ round' = round /\ reply' = reply
        /\ \E to \in Places : /\ pc' = [pc EXCEPT ![f] = to]
                              /\ to \in {"call", "final", "recompressing", "done"} \/ Adding(f)
    BY <1>3 DEF LoopOver, TryApply, MeasureNext, CancelFirst, CompressFirst, Soft, Trigger,
       CancelLast, CompressLast, After, Move, Places, Adding
  <2> QED BY <1>0, <2>1 DEF FilesOK, Places, Adding
<1>4. ASSUME NEW f \in Files, AppendRound(f)  PROVE FilesOK'
  <2>1. /\ round' = round /\ reply' = [reply EXCEPT ![f] = NoReply]
        /\ \E to \in {"final", "call", "done"} : pc' = [pc EXCEPT ![f] = to]
    BY <1>4 DEF AppendRound, Move, After
  <2> QED BY <1>0, <2>1 DEF FilesOK, Places, Adding
<1>5. CASE UNCHANGED <<pc, round, reply>>
  BY <1>0, <1>5 DEF FilesOK, Adding
<1>6. ASSUME NEW j \in DOMAIN jobs, JobEnds(j)  PROVE UNCHANGED <<pc, round, reply>>
  BY <1>6 DEF JobEnds
<1>7. UNCHANGED vars => UNCHANGED <<pc, round, reply>>  BY DEF vars
<1> QED BY <1>1, <1>2, <1>3, <1>4, <1>5, <1>6, <1>7 DEF Next, FileStep, Stopped

LEMMA JobsSoundStep ==
  ASSUME Inv, [Next]_vars
  PROVE  JobsSound'
<1> SUFFICES ASSUME NEW j \in DOMAIN jobs', Usable(j)'
             PROVE  Orderly(jobs'[j].conv) /\ Past(jobs'[j].conv, Added')
  BY DEF JobsSound, Sound
<1> DEFINE d == jobs'[j].conv
<1>1. FromBefore(j)  BY JobsStep DEF JobsMove
<1>2. PICK c \in Conv : Sound(c) /\ d \in {c} \cup RunCompression(c)
  <2>1. CASE \E f \in Files : jobs'[j].conv = conv[f]
    BY <2>1 DEF Inv, FilesOK, ConvsSound
  <2>2. CASE /\ j \in DOMAIN jobs /\ Usable(j)
             /\ jobs'[j].conv \in {jobs[j].conv} \cup RunCompression(jobs[j].conv)
    BY <2>2 DEF Inv, JobsOK, JobsSound
  <2> QED BY <1>1, <2>1, <2>2 DEF FromBefore
<1> HIDE DEF d
<1>3. Orderly(c) /\ Past(c, Added')
  <2>1. Orderly(c) /\ Past(c, Added)  BY <1>2 DEF Sound
  <2> QED BY <2>1, AddedGrows, PastStays DEF Inv
<1>4. Orderly(d) /\ Ids(d) \subseteq Ids(c)
  BY <1>2, <1>3, Compresses
<1>5. Past(d, Added')  BY <1>3, <1>4 DEF Past
<1> QED BY <1>4, <1>5 DEF d

LEMMA NextInv == Inv /\ [Next]_vars => Inv'
<1> SUFFICES ASSUME Inv, [Next]_vars PROVE Inv'  OBVIOUS
<1>1. ConvsSound'  BY ConvsStep DEF ConvsMove, ConvsSound, Sound
<1> QED BY <1>1, FilesStep, JobsStep, JobsSoundStep DEF Inv, JobsMove
-------------------------------------------------------------------------------
(* Sums over a finite set of the values of a function (MapThenSumSet). *)

(* The element MapThenSumSet takes first. *)
First(s) == CHOOSE x \in s : TRUE

(* What MapThenSumSet computes, subset by subset. *)
Sums(g, f, S) ==
  g = [s \in SUBSET S |-> IF s = {} THEN 0 ELSE f[First(s)] + g[s \ {First(s)}]]

Total(f, S) == MapThenSumSet(LAMBDA x : f[x], S)

(* A finite set has fewer elements without one of them. *)
LEMMA OneLess ==
  ASSUME NEW s, IsFiniteSet(s), NEW x \in s
  PROVE  /\ IsFiniteSet(s \ {x})
         /\ Cardinality(s) \in Nat /\ Cardinality(s \ {x}) \in Nat
         /\ Cardinality(s \ {x}) = Cardinality(s) - 1
BY FS_RemoveElement, FS_CardinalityType

(* Such a function exists over every finite set of numbers, by the size of its
   subsets. *)
LEMMA SumsExist ==
  ASSUME NEW S, IsFiniteSet(S), NEW f, \A x \in S : f[x] \in Nat
  PROVE  \E g \in [SUBSET S -> Nat] : Sums(g, f, S)
<1> DEFINE N == Cardinality(S)
           Layer(n) == {s \in SUBSET S : Cardinality(s) <= n}
           Value(g, s) == IF s = {} THEN 0 ELSE f[First(s)] + g[s \ {First(s)}]
           Fits(g, n) == g \in [Layer(n) -> Nat] /\ \A s \in Layer(n) : g[s] = Value(g, s)
           T == {n \in 0..N : \E g : Fits(g, n)}
<1>1. N \in Nat /\ \A s \in SUBSET S : IsFiniteSet(s) /\ Cardinality(s) \in 0..N
  BY FS_Subset, FS_CardinalityType
<1>2. \A s \in SUBSET S : s # {} => First(s) \in s /\ f[First(s)] \in Nat
  <2>1. \A s \in SUBSET S : s # {} => First(s) \in s  BY DEF First
  <2> QED BY <2>1
<1>3. 0 \in T
  <2> DEFINE g == [s \in Layer(0) |-> 0]
  <2>1. \A s \in Layer(0) : s = {}
    BY <1>1, FS_EmptySet
  <2>2. Fits(g, 0)
    BY <2>1
  <2>3. 0 \in 0..N  BY <1>1
  <2> HIDE DEF N, Fits, g
  <2> QED BY <2>2, <2>3
<1>4. ASSUME NEW n \in T, n < N  PROVE n + 1 \in T
  <2>1. PICK g : Fits(g, n)  OBVIOUS
  <2> DEFINE h == [s \in Layer(n + 1) |-> Value(g, s)]
  <2>2. \A s \in Layer(n + 1) : s # {} =>
          s \ {First(s)} \in Layer(n) /\ s \ {First(s)} \in Layer(n + 1)
    <3> TAKE s \in Layer(n + 1)
    <3> HAVE s # {}
    <3>1. /\ First(s) \in s /\ IsFiniteSet(s) /\ s \in SUBSET S
          /\ Cardinality(s) <= n + 1
      BY <1>1, <1>2
    <3>2. Cardinality(s) \in Nat /\ Cardinality(s \ {First(s)}) = Cardinality(s) - 1
      BY <3>1, OneLess
    <3>3. s \ {First(s)} \in SUBSET S  BY <3>1
    <3>4. n \in Int /\ Cardinality(s \ {First(s)}) <= n
          /\ Cardinality(s \ {First(s)}) <= n + 1
      BY <3>1, <3>2
    <3> QED BY <3>3, <3>4
  <2>3. h \in [Layer(n + 1) -> Nat]
    <3>1. \A s \in Layer(n + 1) : Value(g, s) \in Nat
      <4> TAKE s \in Layer(n + 1)
      <4>1. CASE s = {}  BY <4>1
      <4>2. CASE s # {}
        <5>1. g[s \ {First(s)}] \in Nat /\ f[First(s)] \in Nat  BY <1>2, <2>1, <2>2, <4>2
        <5> QED BY <4>2, <5>1
      <4> QED BY <4>1, <4>2
    <3> QED BY <3>1
  <2>4. \A s \in Layer(n) : s \in Layer(n + 1) /\ h[s] = g[s]
    <3> TAKE s \in Layer(n)
    <3>1. Cardinality(s) \in Nat /\ Cardinality(s) <= n /\ s \in SUBSET S /\ n \in Int
      BY <1>1
    <3>2. s \in Layer(n + 1)  BY <3>1
    <3> QED BY <2>1, <3>2
  <2>5. \A s \in Layer(n + 1) : h[s] = Value(h, s)
    BY <2>2, <2>4
  <2>6. n + 1 \in 0..N  BY <1>1, <1>4
  <2> QED BY <2>3, <2>5, <2>6
<1>5. T = 0..N
  <2> HIDE DEF N, Fits
  <2> QED BY <1>1, <1>3, <1>4, UpTo
<1>6. PICK g : Fits(g, N)
  BY <1>1, <1>5
<1>7. Layer(N) = SUBSET S
  BY <1>1
<1>8. Sums(g, f, S)
  BY <1>6, <1>7 DEF Sums
<1> QED BY <1>6, <1>7, <1>8

(* And on the subsets they share, those over two sets agree. *)
LEMMA SumsAgree ==
  ASSUME NEW S, NEW T, IsFiniteSet(S), T \subseteq S, NEW f,
         NEW g, Sums(g, f, S), NEW h, Sums(h, f, T)
  PROVE  \A s \in SUBSET T : g[s] = h[s]
<1> DEFINE N == Cardinality(S)
           D == {n \in 0..N : \A s \in SUBSET T : Cardinality(s) <= n => g[s] = h[s]}
<1>1. N \in Nat /\ \A s \in SUBSET S : IsFiniteSet(s) /\ Cardinality(s) \in 0..N
  BY FS_Subset, FS_CardinalityType
<1>2. \A s \in SUBSET T : s # {} => First(s) \in s
  BY DEF First
<1>3. \A s \in SUBSET T :
        /\ g[s] = IF s = {} THEN 0 ELSE f[First(s)] + g[s \ {First(s)}]
        /\ h[s] = IF s = {} THEN 0 ELSE f[First(s)] + h[s \ {First(s)}]
  BY DEF Sums
<1>4. 0 \in D
  <2>1. \A s \in SUBSET T : Cardinality(s) <= 0 => s = {}
    BY <1>1, FS_EmptySet
  <2> QED BY <1>1, <1>3, <2>1
<1>5. ASSUME NEW n \in D, n < N  PROVE n + 1 \in D
  <2>1. ASSUME NEW s \in SUBSET T, Cardinality(s) <= n + 1, s # {}
        PROVE  g[s] = h[s]
    <3>1. First(s) \in s /\ IsFiniteSet(s)  BY <1>1, <1>2, <2>1
    <3>2. Cardinality(s) \in Nat /\ Cardinality(s \ {First(s)}) = Cardinality(s) - 1
      BY <3>1, OneLess
    <3>3. Cardinality(s \ {First(s)}) <= n  BY <2>1, <3>2
    <3>4. g[s \ {First(s)}] = h[s \ {First(s)}]  BY <3>3
    <3> QED BY <1>3, <2>1, <3>4
  <2>2. n + 1 \in 0..N  BY <1>1, <1>5
  <2> QED BY <1>3, <2>1, <2>2
<1>6. D = 0..N
  <2> HIDE DEF N
  <2> QED BY <1>1, <1>4, <1>5, UpTo
<1> QED BY <1>1, <1>6

(* The sum of nothing is 0, and First(S) can be taken out of the others. *)
LEMMA TotalIs ==
  ASSUME NEW S, IsFiniteSet(S), NEW f, \A x \in S : f[x] \in Nat
  PROVE  /\ Total(f, S) \in Nat
         /\ S = {} => Total(f, S) = 0
         /\ S # {} => Total(f, S) = f[First(S)] + Total(f, S \ {First(S)})
<1> DEFINE it(T) == CHOOSE g : Sums(g, f, T)
<1>1. \A T : Total(f, T) = it(T)[T]
  BY DEF Total, MapThenSumSet, MapThenFoldSet, Sums, First
<1>2. PICK g \in [SUBSET S -> Nat] : Sums(g, f, S)
  BY SumsExist
<1>3. ASSUME NEW T \in SUBSET S  PROVE Total(f, T) = g[T]
  <2>1. IsFiniteSet(T)  BY FS_Subset
  <2>2. \E h : Sums(h, f, T)  BY <2>1, SumsExist
  <2>3. Sums(it(T), f, T)  BY <2>2
  <2> HIDE DEF it
  <2>4. g[T] = it(T)[T]  BY <1>2, <2>3, SumsAgree
  <2> QED BY <1>1, <2>4
<1>4. Total(f, S) = g[S]  BY <1>3
<1>5. g[S] = IF S = {} THEN 0 ELSE f[First(S)] + g[S \ {First(S)}]
  BY <1>2 DEF Sums
<1>6. Total(f, S \ {First(S)}) = g[S \ {First(S)}]  BY <1>3
<1> QED BY <1>2, <1>4, <1>5, <1>6

(* Any element can be taken out. *)
LEMMA TotalWithout ==
  ASSUME NEW S, IsFiniteSet(S), NEW f, \A x \in S : f[x] \in Nat, NEW a \in S
  PROVE  Total(f, S) = f[a] + Total(f, S \ {a})
<1> DEFINE N == Cardinality(S)
           D == {n \in 0..N : \A s \in SUBSET S : Cardinality(s) <= n =>
                               \A x \in s : Total(f, s) = f[x] + Total(f, s \ {x})}
<1>1. N \in Nat /\ \A s \in SUBSET S : IsFiniteSet(s) /\ Cardinality(s) \in 0..N
  BY FS_Subset, FS_CardinalityType
<1>2. \A s \in SUBSET S :
        /\ Total(f, s) \in Nat
        /\ s # {} => First(s) \in s /\ Total(f, s) = f[First(s)] + Total(f, s \ {First(s)})
  BY <1>1, TotalIs DEF First
<1>3. 0 \in D
  <2>1. \A s \in SUBSET S : Cardinality(s) <= 0 => s = {}
    BY <1>1, FS_EmptySet
  <2> QED BY <1>1, <2>1
<1>4. ASSUME NEW n \in D, n < N  PROVE n + 1 \in D
  <2>1. ASSUME NEW s \in SUBSET S, Cardinality(s) <= n + 1, NEW x \in s
        PROVE  Total(f, s) = f[x] + Total(f, s \ {x})
    <3> DEFINE p == First(s)
    <3>1. p \in s /\ Total(f, s) = f[p] + Total(f, s \ {p})  BY <1>2
    <3> HIDE DEF p
    <3>2. CASE p = x  BY <3>1, <3>2
    <3>3. CASE p # x
      <4>1. Cardinality(s) \in Nat /\ Cardinality(s \ {p}) = Cardinality(s) - 1
            /\ Cardinality(s \ {x}) = Cardinality(s) - 1
        BY <1>1, <3>1, OneLess
      <4>2. Cardinality(s \ {p}) <= n /\ Cardinality(s \ {x}) <= n  BY <2>1, <4>1
      <4>3. x \in s \ {p} /\ p \in s \ {x}  BY <3>1, <3>3
      <4>4. Total(f, s \ {p}) = f[x] + Total(f, (s \ {p}) \ {x})  BY <4>2, <4>3
      <4>5. Total(f, s \ {x}) = f[p] + Total(f, (s \ {x}) \ {p})  BY <4>2, <4>3
      <4>6. (s \ {p}) \ {x} = (s \ {x}) \ {p}  OBVIOUS
      <4>7. f[p] \in Nat /\ f[x] \in Nat /\ Total(f, (s \ {x}) \ {p}) \in Nat
        BY <1>2, <3>1
      <4> QED BY <3>1, <4>4, <4>5, <4>6, <4>7
    <3> QED BY <3>2, <3>3
  <2>2. n + 1 \in 0..N  BY <1>1, <1>4
  <2> QED BY <2>1, <2>2
<1>5. D = 0..N
  <2> HIDE DEF N
  <2> QED BY <1>1, <1>3, <1>4, UpTo
<1> QED BY <1>1, <1>5

(* Sums of the same values under other names are equal. *)
LEMMA TotalRenamed ==
  ASSUME NEW S, IsFiniteSet(S), NEW f, \A x \in S : f[x] \in Nat, NEW h,
         NEW b, \A x \in S : h[b[x]] = f[x],
         \A x, y \in S : b[x] = b[y] => x = y
  PROVE  Total(f, S) = Total(h, {b[x] : x \in S})
<1> DEFINE N == Cardinality(S)
           B(s) == {b[x] : x \in s}
           D == {n \in 0..N : \A s \in SUBSET S :
                               Cardinality(s) <= n => Total(f, s) = Total(h, B(s))}
<1>1. N \in Nat /\ \A s \in SUBSET S : IsFiniteSet(s) /\ Cardinality(s) \in 0..N
  BY FS_Subset, FS_CardinalityType
<1>2. ASSUME NEW s \in SUBSET S
      PROVE  IsFiniteSet(B(s)) /\ \A y \in B(s) : h[y] \in Nat
  <2> DEFINE c == [x \in s |-> b[x]]
  <2>1. c \in Surjection(s, B(s))  BY DEF Surjection
  <2>2. IsFiniteSet(B(s))  BY <1>1, <2>1, FS_Surjection
  <2>3. \A y \in B(s) : h[y] \in Nat  OBVIOUS
  <2> QED BY <2>2, <2>3
<1>3. 0 \in D
  <2>1. \A s \in SUBSET S : Cardinality(s) <= 0 => s = {} /\ B(s) = {}
    BY <1>1, FS_EmptySet
  <2>2. \A s \in SUBSET S : s = {} => Total(f, s) = 0  BY <1>1, TotalIs
  <2>3. \A s \in SUBSET S : B(s) = {} => Total(h, B(s)) = 0
    BY <1>2, TotalIs
  <2> QED BY <1>1, <2>1, <2>2, <2>3
<1>4. ASSUME NEW n \in D, n < N  PROVE n + 1 \in D
  <2>1. ASSUME NEW s \in SUBSET S, Cardinality(s) <= n + 1
        PROVE  Total(f, s) = Total(h, B(s))
    <3>1. CASE s = {}
      <4>1. Cardinality(s) <= n  BY <3>1, FS_EmptySet
      <4> QED BY <4>1
    <3>2. CASE s # {}
      <4>1. PICK x \in s : TRUE  BY <3>2
      <4>2. Cardinality(s) \in Nat /\ Cardinality(s \ {x}) = Cardinality(s) - 1
        BY <1>1, OneLess
      <4>3. Total(f, s \ {x}) = Total(h, B(s \ {x}))  BY <2>1, <4>2
      <4>4. B(s \ {x}) = B(s) \ {b[x]}  OBVIOUS
      <4>5. Total(f, s) = f[x] + Total(f, s \ {x})  BY <1>1, TotalWithout
      <4>6. b[x] \in B(s)  OBVIOUS
      <4>7. IsFiniteSet(B(s)) /\ \A y \in B(s) : h[y] \in Nat  BY <1>2
      <4> HIDE DEF B
      <4>8. Total(h, B(s)) = h[b[x]] + Total(h, B(s) \ {b[x]})
        BY <4>6, <4>7, TotalWithout
      <4> QED BY <4>3, <4>4, <4>5, <4>8
    <3> QED BY <3>1, <3>2
  <2>2. n + 1 \in 0..N  BY <1>1, <1>4
  <2> QED BY <2>1, <2>2
<1>5. D = 0..N
  <2> HIDE DEF N, B
  <2> QED BY <1>1, <1>3, <1>4, UpTo
<1> QED BY <1>1, <1>5

(* A sum of zeros. *)
LEMMA TotalOfZeros ==
  ASSUME NEW S, IsFiniteSet(S), NEW f, \A x \in S : f[x] = 0
  PROVE  Total(f, S) = 0
<1> DEFINE N == Cardinality(S)
           D == {n \in 0..N : \A s \in SUBSET S : Cardinality(s) <= n => Total(f, s) = 0}
<1>1. N \in Nat /\ \A s \in SUBSET S : IsFiniteSet(s) /\ Cardinality(s) \in 0..N
  BY FS_Subset, FS_CardinalityType
<1>2. 0 \in D
  <2>1. \A s \in SUBSET S : Cardinality(s) <= 0 => s = {}
    BY <1>1, FS_EmptySet
  <2>2. \A s \in SUBSET S : s = {} => Total(f, s) = 0  BY <1>1, TotalIs
  <2> QED BY <1>1, <2>1, <2>2
<1>3. ASSUME NEW n \in D, n < N  PROVE n + 1 \in D
  <2>1. ASSUME NEW s \in SUBSET S, Cardinality(s) <= n + 1, s # {}
        PROVE  Total(f, s) = 0
    <3>1. First(s) \in s /\ IsFiniteSet(s)  BY <1>1, <2>1 DEF First
    <3>2. Cardinality(s) \in Nat /\ Cardinality(s \ {First(s)}) = Cardinality(s) - 1
      BY <3>1, OneLess
    <3>3. Total(f, s \ {First(s)}) = 0  BY <2>1, <3>2
    <3>4. Total(f, s) = f[First(s)] + Total(f, s \ {First(s)})
      BY <2>1, <3>1, TotalIs
    <3> QED BY <3>1, <3>3, <3>4
  <2>2. \A s \in SUBSET S : s = {} => Total(f, s) = 0  BY <1>1, TotalIs
  <2>3. n + 1 \in 0..N  BY <1>1, <1>3
  <2> QED BY <2>1, <2>2, <2>3
<1>4. D = 0..N
  <2> HIDE DEF N
  <2> QED BY <1>1, <1>2, <1>3, UpTo
<1> QED BY <1>1, <1>4
-------------------------------------------------------------------------------
(* Positions in a list of lists that is flattened. *)

(* o[i] is how long the first i lists are together. *)
Joins(o, seqs, flat) ==
  /\ o \in [0..Len(seqs) -> Nat]
  /\ o[0] = 0
  /\ \A i \in 1..Len(seqs) : o[i] = o[i - 1] + Len(seqs[i])
  /\ Len(flat) = o[Len(seqs)]
  /\ \A i \in 1..Len(seqs) : \A k \in 1..Len(seqs[i]) : flat[o[i - 1] + k] = seqs[i][k]

(* The prefixes FlattenSeq joins. *)
Joining(u, seqs, n) ==
  u = [i \in 1..n |-> IF i = 1 THEN seqs[i] ELSE u[i - 1] \o seqs[i]]

(* The prefixes exist, and FlattenSeq's value is the last of them. *)
LEMMA JoiningExists ==
  ASSUME NEW S, NEW seqs \in Seq(Seq(S))
  PROVE  \E u : Joining(u, seqs, Len(seqs))
<1> DEFINE N == Len(seqs)
           T == {n \in 0..N : \E u : Joining(u, seqs, n)}
<1>1. N \in Nat  BY LenProperties
<1>2. 0 \in T
  <2> DEFINE u == [i \in 1..0 |-> <<>>]
  <2>1. Joining(u, seqs, 0)  BY DEF Joining
  <2> HIDE DEF u
  <2> QED BY <1>1, <2>1
<1>3. ASSUME NEW n \in T, n < N  PROVE n + 1 \in T
  <2>1. PICK u : Joining(u, seqs, n)  OBVIOUS
  <2> DEFINE v == [i \in 1..(n + 1) |-> IF i = 1 THEN seqs[i] ELSE u[i - 1] \o seqs[i]]
  <2>2. n \in Nat /\ n + 1 \in 0..N  BY <1>1, <1>3
  <2>3. \A i \in 1..n : v[i] = u[i]
    <3> TAKE i \in 1..n
    <3>1. i \in 1..(n + 1)  BY <2>2
    <3>2. v[i] = IF i = 1 THEN seqs[i] ELSE u[i - 1] \o seqs[i]  BY <3>1
    <3>3. u[i] = IF i = 1 THEN seqs[i] ELSE u[i - 1] \o seqs[i]  BY <2>1 DEF Joining
    <3> QED BY <3>2, <3>3
  <2>4. \A i \in 1..(n + 1) : i # 1 => v[i - 1] = u[i - 1]
    <3> TAKE i \in 1..(n + 1)
    <3> HAVE i # 1
    <3>1. i - 1 \in 1..n  BY <2>2
    <3> HIDE DEF v
    <3> QED BY <2>3, <3>1
  <2>5. v = [i \in 1..(n + 1) |-> IF i = 1 THEN seqs[i] ELSE v[i - 1] \o seqs[i]]
    BY <2>4
  <2> HIDE DEF v
  <2>6. Joining(v, seqs, n + 1)  BY <2>5 DEF Joining
  <2> QED BY <2>2, <2>6
<1>4. T = 0..N
  <2> HIDE DEF N
  <2> QED BY <1>1, <1>2, <1>3, UpTo
<1>5. N \in T  BY <1>1, <1>4
<1> QED BY <1>5

(* Every element of every list is in the flattened list, at its offset. *)
LEMMA FlattenJoins ==
  ASSUME NEW S, NEW seqs \in Seq(Seq(S))
  PROVE  FlattenSeq(seqs) \in Seq(S) /\ \E o : Joins(o, seqs, FlattenSeq(seqs))
<1> DEFINE N == Len(seqs)
           flat == FlattenSeq(seqs)
<1>1. N \in Nat /\ \A i \in 1..N : seqs[i] \in Seq(S) /\ Len(seqs[i]) \in Nat
  BY LenProperties, ElementOfSeq
<1>2. CASE N = 0
  <2> DEFINE o == [i \in 0..0 |-> 0]
  <2>1. flat = seqs /\ seqs = <<>>  BY <1>2, EmptySeq DEF FlattenSeq
  <2>2. flat \in Seq(S) /\ Len(flat) = 0  BY <2>1, EmptySeq
  <2>3. Joins(o, seqs, flat)  BY <1>2, <2>2 DEF Joins
  <2> QED BY <2>2, <2>3
<1>3. CASE N # 0
  <2> DEFINE u == CHOOSE v : Joining(v, seqs, N)
             o == [i \in 0..N |-> IF i = 0 THEN 0 ELSE Len(u[i])]
  <2>1. Joining(u, seqs, N)  BY JoiningExists
  <2>2. flat = u[N]  BY <1>3 DEF FlattenSeq, Joining
  <2> HIDE DEF u
  <2>3. \A i \in 1..N : u[i] = IF i = 1 THEN seqs[i] ELSE u[i - 1] \o seqs[i]
    BY <2>1 DEF Joining
  <2> DEFINE Right(i) == /\ u[i] \in Seq(S)
                         /\ o[i] = o[i - 1] + Len(seqs[i])
                         /\ \A j \in 1..i : \A k \in 1..Len(seqs[j]) :
                              /\ o[j - 1] + k \in 1..Len(u[i])
                              /\ u[i][o[j - 1] + k] = seqs[j][k]
             T == {i \in 0..N : i = 0 \/ Right(i)}
  <2>4. 0 \in T  BY <1>1
  <2>5. ASSUME NEW i \in T, i < N  PROVE i + 1 \in T
    <3>1. i + 1 \in 1..N /\ (i + 1) - 1 = i /\ i \in Nat  BY <1>1, <2>5
    <3>2. seqs[i + 1] \in Seq(S) /\ Len(seqs[i + 1]) \in Nat  BY <1>1, <3>1
    <3>0. i \in 0..N /\ (i = 0 \/ Right(i))
      <4> HIDE DEF Right, N
      <4> QED OBVIOUS
    <3>5. i + 1 \in 0..N /\ Right(i + 1) => i + 1 \in T
      <4> HIDE DEF Right, N
      <4> QED OBVIOUS
    <3>6. i + 1 \in 0..N  BY <3>1
    <3> HIDE DEF T
    <3>3. CASE i = 0
      <4>1. u[1] = seqs[1]  BY <2>3, <3>1, <3>3
      <4>2. o[0] = 0 /\ o[1] = Len(u[1])  BY <1>1, <3>1, <3>3
      <4> HIDE DEF o
      <4>3. o[1] = o[0] + Len(seqs[1])  BY <3>2, <3>3, <4>1, <4>2
      <4>4. \A k \in 1..Len(seqs[1]) : o[0] + k \in 1..Len(u[1]) /\ u[1][o[0] + k] = seqs[1][k]
        BY <3>2, <3>3, <4>1, <4>2
      <4>5. \A j \in 1..1 : j = 1 /\ j - 1 = 0  OBVIOUS
      <4>6. Right(1)  BY <3>2, <3>3, <4>1, <4>3, <4>4, <4>5
      <4> HIDE DEF Right
      <4> QED BY <3>3, <3>5, <3>6, <4>6
    <3>4. CASE i # 0
      <4>0. Right(i)
        <5> HIDE DEF Right
        <5> QED BY <3>0, <3>4
      <4>1. Right(i) /\ i \in 1..N
        <5> HIDE DEF Right
        <5> QED BY <1>1, <3>0, <3>4, <4>0
      <4>2. u[i] \in Seq(S) /\ Len(u[i]) \in Nat  BY <4>1, LenProperties
      <4>3. u[i + 1] = u[i] \o seqs[i + 1]
        <5>1. i + 1 # 1  BY <3>1, <3>4
        <5>2. u[i + 1] = u[(i + 1) - 1] \o seqs[i + 1]  BY <2>3, <3>1, <5>1
        <5> QED BY <3>1, <5>2
      <4>4. /\ u[i + 1] \in Seq(S) /\ Len(u[i + 1]) = Len(u[i]) + Len(seqs[i + 1])
            /\ \A m \in 1..(Len(u[i]) + Len(seqs[i + 1])) :
                 u[i + 1][m] = IF m <= Len(u[i]) THEN u[i][m] ELSE seqs[i + 1][m - Len(u[i])]
        <5> DEFINE a == u[i]
                   b == seqs[i + 1]
        <5>1. a \in Seq(S) /\ b \in Seq(S) /\ u[i + 1] = a \o b  BY <3>2, <4>2, <4>3
        <5> HIDE DEF a, b
        <5>2. /\ u[i + 1] \in Seq(S) /\ Len(u[i + 1]) = Len(a) + Len(b)
              /\ \A m \in 1..(Len(a) + Len(b)) :
                   u[i + 1][m] = IF m <= Len(a) THEN a[m] ELSE b[m - Len(a)]
          BY <5>1, ConcatProperties
        <5> QED BY <5>2 DEF a, b
      <4>5. o[i] = Len(u[i]) /\ o[i + 1] = Len(u[i + 1])  BY <3>1, <4>1
      <4>6. \A j \in 1..i : \A k \in 1..Len(seqs[j]) :
              /\ o[j - 1] + k \in 1..Len(u[i])
              /\ u[i][o[j - 1] + k] = seqs[j][k]
        BY <4>1
      <4> HIDE DEF o
      <4>7. o[i + 1] = o[(i + 1) - 1] + Len(seqs[i + 1])  BY <3>1, <4>4, <4>5
      <4>8. ASSUME NEW j \in 1..(i + 1), NEW k \in 1..Len(seqs[j])
            PROVE  /\ o[j - 1] + k \in 1..Len(u[i + 1])
                   /\ u[i + 1][o[j - 1] + k] = seqs[j][k]
        <5>1. CASE j \in 1..i
          <6> DEFINE m == o[j - 1] + k
          <6>1. m \in 1..Len(u[i]) /\ u[i][m] = seqs[j][k]  BY <4>6, <5>1
          <6> HIDE DEF m
          <6>2. m \in 1..(Len(u[i]) + Len(seqs[i + 1])) /\ m <= Len(u[i])
            <7> DEFINE a == Len(seqs[i + 1])
                       b == Len(u[i])
            <7>1. a \in Nat /\ b \in Nat /\ m \in 1..b
              BY <3>2, <4>2, <6>1
            <7> HIDE DEF a, b
            <7>2. m \in 1..(b + a) /\ m <= b  BY <7>1
            <7> QED BY <7>2 DEF a, b
          <6>3. u[i + 1][m] = u[i][m]  BY <4>4, <6>2
          <6> QED BY <4>4, <6>1, <6>2, <6>3 DEF m
        <5>2. CASE j = i + 1
          <6> DEFINE m == Len(u[i]) + k
          <6>1. k \in 1..Len(seqs[i + 1])  BY <5>2
          <6>2. m \in 1..(Len(u[i]) + Len(seqs[i + 1])) /\ ~(m <= Len(u[i])) /\ m - Len(u[i]) = k
            <7> DEFINE a == Len(seqs[i + 1])
                       b == Len(u[i])
            <7>1. a \in Nat /\ b \in Nat /\ k \in 1..a  BY <3>2, <4>2, <6>1
            <7> HIDE DEF a, b
            <7>2. b + k \in 1..(b + a) /\ ~(b + k <= b) /\ (b + k) - b = k  BY <7>1
            <7> QED BY <7>2 DEF a, b
          <6>3. o[j - 1] + k = m  BY <3>1, <4>5, <5>2
          <6> HIDE DEF m
          <6>4. u[i + 1][m] = seqs[i + 1][k]  BY <4>4, <6>2
          <6> QED BY <4>4, <5>2, <6>2, <6>3, <6>4
        <5> QED BY <3>1, <5>1, <5>2
      <4>9. Right(i + 1)  BY <4>4, <4>7, <4>8
      <4> HIDE DEF Right
      <4> QED BY <3>5, <3>6, <4>9
    <3> QED BY <3>3, <3>4
  <2>6. T = 0..N
    <3> HIDE DEF N, Right
    <3> QED BY <1>1, <2>4, <2>5, UpTo
  <2>7. \A i \in 1..N : Right(i)
    <3> TAKE i \in 1..N
    <3> HIDE DEF N, Right
    <3>0. i \in 0..N /\ i # 0  BY <1>1
    <3>1. i \in T /\ i # 0
      <4> HIDE DEF T
      <4> QED BY <2>6, <3>0
    <3> QED BY <3>1
  <2>8. Right(N)
    <3>1. N \in 1..N  BY <1>1, <1>3
    <3> HIDE DEF Right
    <3> QED BY <2>7, <3>1
  <2>9. o \in [0..N -> Nat]
    <3>1. \A i \in 1..N : Len(u[i]) \in Nat  BY <2>7, LenProperties
    <3> QED BY <1>1, <3>1
  <2>10. o[0] = 0 /\ o[N] = Len(flat)  BY <1>1, <1>3, <2>2
  <2>11. flat \in Seq(S)  BY <2>2, <2>8
  <2>12. \A i \in 1..N : o[i] = o[i - 1] + Len(seqs[i])  BY <2>7
  <2>13. \A j \in 1..N : \A k \in 1..Len(seqs[j]) : flat[o[j - 1] + k] = seqs[j][k]
    BY <2>2, <2>8
  <2> HIDE DEF o, flat, Right
  <2>14. Joins(o, seqs, flat)  BY <2>9, <2>10, <2>12, <2>13 DEF Joins
  <2>15. \E p : Joins(p, seqs, flat)
    <3> HIDE DEF Joins
    <3> QED BY <2>14
  <2> QED BY <2>11, <2>15 DEF flat
<1> QED BY <1>2, <1>3
-------------------------------------------------------------------------------
(* The messages of a conversation. *)

CallId  == RoundId \X Nat
Message == [role : {"system", "user", "assistant", "tool"}, ids : Seq(CallId), w : Nat]

CallsOf(id) == [k \in 1..CallsPerReply |-> <<id, k>>]

(* What an entry of a conversation stands for is one text message, or calls and
   their results. *)
IsText(b, e) ==
  /\ Len(b) = 1 /\ b[1].ids = <<>> /\ b[1].w = e.w
  /\ b[1].role = IF e.kind = "round" THEN "assistant" ELSE "user"

IsExchange(b, e) ==
  /\ e.kind = "round"
  /\ Len(b) = 1 + CallsPerReply
  /\ b[1] = [role |-> "assistant", ids |-> CallsOf(e.id), w |-> e.w]
  /\ \A k \in 1..CallsPerReply :
       b[1 + k] = [role |-> "tool", ids |-> <<CallsOf(e.id)[k]>>, w |-> 0]

(* A reply's calls are as many as CallsPerReply, each with its own id. *)
LEMMA CallsFacts ==
  ASSUME NEW id \in RoundId
  PROVE  /\ CallsOf(id) \in Seq(CallId) /\ Len(CallsOf(id)) = CallsPerReply
         /\ CallsPerReply \in Nat \ {0}
         /\ \A k \in 1..CallsPerReply : CallsOf(id)[k] = <<id, k>> /\ <<id, k>> \in CallId
<1>1. CallsPerReply \in Nat \ {0}  BY EncodingAssumption
<1>2. \A k \in 1..CallsPerReply : <<id, k>> \in CallId  BY <1>1 DEF CallId
<1>3. CallsOf(id) \in [1..CallsPerReply -> CallId]  BY <1>2 DEF CallsOf
<1>4. CallsOf(id) \in Seq(CallId) /\ Len(CallsOf(id)) = CallsPerReply
  BY <1>1, <1>3
<1> QED BY <1>1, <1>2, <1>4 DEF CallsOf

(* An entry is one of the two. *)
LEMMA BlockFacts ==
  ASSUME NEW t \in Seq(Entry), NEW i \in 1..Len(t)
  PROVE  /\ MessagesOf(t, i) \in Seq(Message)
         /\ IsText(MessagesOf(t, i), t[i]) \/ IsExchange(MessagesOf(t, i), t[i])
<1> DEFINE b == MessagesOf(t, i)
           e == t[i]
<1>1. /\ e.id \in RoundId /\ e.kind \in {"round", "reminder"} /\ e.w \in Nat
  <2>1. e \in Entry  BY ElementOfSeq
  <2>2. e.w \in Weights \cup {ReminderTokens}  BY <2>1 DEF Entry
  <2>3. e.w \in Nat  BY <2>2, CompressionAssumption
  <2> QED BY <2>1, <2>3 DEF Entry
<1>2. \A m \in Message : <<m>> \in Seq(Message) /\ Len(<<m>>) = 1 /\ <<m>>[1] = m
  OBVIOUS
<1>3. <<>> \in Seq(CallId)  BY EmptySeq
<1>4. CASE e.kind = "reminder"
  <2> DEFINE m == [role |-> "user", ids |-> <<>>, w |-> e.w]
  <2>1. b = <<m>>  BY <1>4 DEF MessagesOf, NewTextMessage
  <2>2. m \in Message  BY <1>1, <1>3 DEF Message
  <2>3. m.role = "user" /\ m.ids = <<>> /\ m.w = e.w  OBVIOUS
  <2> HIDE DEF m, b, e
  <2>4. IsText(b, e)  BY <1>2, <1>4, <2>1, <2>2, <2>3 DEF IsText
  <2> QED BY <1>2, <2>1, <2>2, <2>4 DEF b, e
<1>5. CASE e.kind = "round" /\ TextOnly(t, i)
  <2> DEFINE m == [role |-> "assistant", ids |-> <<>>, w |-> e.w]
  <2>1. b = <<m>>  BY <1>5 DEF MessagesOf, NewTextMessage
  <2>2. m \in Message  BY <1>1, <1>3 DEF Message
  <2>3. m.role = "assistant" /\ m.ids = <<>> /\ m.w = e.w  OBVIOUS
  <2> HIDE DEF m, b, e
  <2>4. IsText(b, e)  BY <1>2, <1>5, <2>1, <2>2, <2>3 DEF IsText
  <2> QED BY <1>2, <2>1, <2>2, <2>4 DEF b, e
<1>6. CASE e.kind = "round" /\ ~TextOnly(t, i)
  <2> DEFINE C == CallsOf(e.id)
             m == [role |-> "assistant", ids |-> C, w |-> e.w]
             r == [k \in 1..CallsPerReply |-> [role |-> "tool", ids |-> <<C[k]>>, w |-> 0]]
  <2>1. /\ C \in Seq(CallId) /\ Len(C) = CallsPerReply /\ CallsPerReply \in Nat \ {0}
        /\ \A k \in 1..CallsPerReply : C[k] \in CallId
    BY <1>1, CallsFacts
  <2>2. b = <<m>> \o r
    <3>1. b = Exchange(e.id, e.w)  BY <1>6 DEF MessagesOf
    <3>2. DOMAIN C = 1..CallsPerReply  BY DEF CallsOf
    <3> QED BY <3>1, <3>2 DEF Exchange, NewToolCallMessage, NewToolResultMessage, CallsOf
  <2> HIDE DEF C
  <2>3. m \in Message  BY <1>1, <2>1 DEF Message
  <2>4. \A k \in 1..CallsPerReply : r[k] \in Message
    <3> TAKE k \in 1..CallsPerReply
    <3>1. <<C[k]>> \in Seq(CallId)  BY <2>1
    <3> QED BY <3>1 DEF Message
  <2>5. r \in [1..CallsPerReply -> Message]  BY <2>4
  <2>6. \A k \in 1..CallsPerReply : r[k] = [role |-> "tool", ids |-> <<C[k]>>, w |-> 0]
    OBVIOUS
  <2>7. m = [role |-> "assistant", ids |-> C, w |-> e.w]  OBVIOUS
  <2> HIDE DEF m, r, b, e
  <2>8. r \in Seq(Message) /\ Len(r) = CallsPerReply  BY <2>1, <2>5
  <2>9. <<m>> \in Seq(Message) /\ Len(<<m>>) = 1 /\ <<m>>[1] = m  BY <1>2, <2>3
  <2>10. /\ b \in Seq(Message) /\ Len(b) = 1 + CallsPerReply
         /\ \A k \in 1..(1 + CallsPerReply) :
              b[k] = IF k <= 1 THEN <<m>>[k] ELSE r[k - 1]
    <3> DEFINE a == <<m>>
    <3>1. a \in Seq(Message) /\ Len(a) = 1 /\ b = a \o r  BY <2>2, <2>9
    <3> HIDE DEF a
    <3>2. /\ b \in Seq(Message) /\ Len(b) = Len(a) + Len(r)
          /\ \A k \in 1..(Len(a) + Len(r)) : b[k] = IF k <= Len(a) THEN a[k] ELSE r[k - Len(a)]
      BY <2>8, <3>1, ConcatProperties
    <3> QED BY <2>8, <3>1, <3>2 DEF a
  <2>11. b[1] = m  BY <2>1, <2>9, <2>10
  <2>12. \A k \in 1..CallsPerReply : b[1 + k] = r[k]
    <3> TAKE k \in 1..CallsPerReply
    <3>1. 1 + k \in 1..(1 + CallsPerReply) /\ ~(1 + k <= 1) /\ (1 + k) - 1 = k  BY <2>1
    <3> QED BY <2>10, <3>1
  <2>13. IsExchange(b, e)
    BY <1>6, <2>6, <2>7, <2>10, <2>11, <2>12 DEF IsExchange, C
  <2> QED BY <2>10, <2>13 DEF b, e
<1> QED BY <1>1, <1>4, <1>5, <1>6

(* Where the messages of each entry are: those of entry i end at o[i]. *)
Layout(t, o, ms) ==
  /\ o \in [0..Len(t) -> Nat]
  /\ o[0] = 2
  /\ \A i \in 1..Len(t) : o[i] = o[i - 1] + Len(MessagesOf(t, i))
  /\ ms \in Seq(Message) /\ Len(ms) = o[Len(t)]
  /\ ms[1] = Frozen[1] /\ ms[2] = Frozen[2]
  /\ \A i \in 1..Len(t) : \A k \in 1..Len(MessagesOf(t, i)) :
       ms[o[i - 1] + k] = MessagesOf(t, i)[k]

(* The two frozen messages have no calls. *)
LEMMA FrozenFacts ==
  /\ Frozen \in Seq(Message) /\ Len(Frozen) = 2
  /\ Frozen[1] = [role |-> "system", ids |-> <<>>, w |-> 0]
  /\ Frozen[2] = [role |-> "user", ids |-> <<>>, w |-> 0]
<1> DEFINE a == [role |-> "system", ids |-> <<>>, w |-> 0]
           b == [role |-> "user", ids |-> <<>>, w |-> 0]
<1>1. <<>> \in Seq(CallId)  BY EmptySeq
<1>2. a \in Message /\ b \in Message  BY <1>1 DEF Message
<1>3. Frozen = <<a, b>>  BY DEF Frozen, NewTextMessage
<1> HIDE DEF a, b
<1>4. <<a, b>> \in Seq(Message) /\ Len(<<a, b>>) = 2 /\ <<a, b>>[1] = a /\ <<a, b>>[2] = b
  BY <1>2
<1> QED BY <1>3, <1>4 DEF a, b

(* The messages of every conversation are laid out so. *)
LEMMA LayoutExists ==
  ASSUME NEW t \in Seq(Entry)
  PROVE  \E o : Layout(t, o, Messages(t))
<1> DEFINE n == Len(t)
           blocks == [i \in 1..n |-> MessagesOf(t, i)]
           flat == FlattenSeq(blocks)
           ms == Messages(t)
<1>1. n \in Nat /\ DOMAIN t = 1..n  BY LenProperties
<1>2. blocks \in Seq(Seq(Message)) /\ Len(blocks) = n
  <2>1. blocks \in [1..n -> Seq(Message)]  BY BlockFacts
  <2> HIDE DEF blocks
  <2> QED BY <1>1, <2>1
<1>3. \A i \in 1..n : blocks[i] = MessagesOf(t, i)  OBVIOUS
<1>4. ms = Frozen \o flat  BY <1>1 DEF Messages
<1> HIDE DEF blocks
<1>5. flat \in Seq(Message)  BY <1>2, FlattenJoins
<1>6. PICK p : Joins(p, blocks, flat)  BY <1>2, FlattenJoins
<1> HIDE DEF flat, ms, n
<1>7. /\ p \in [0..n -> Nat] /\ p[0] = 0 /\ Len(flat) = p[n]
      /\ \A i \in 1..n : p[i] = p[i - 1] + Len(MessagesOf(t, i))
      /\ \A i \in 1..n : \A k \in 1..Len(MessagesOf(t, i)) :
           flat[p[i - 1] + k] = MessagesOf(t, i)[k]
  BY <1>2, <1>3, <1>6 DEF Joins
<1>8. /\ ms \in Seq(Message) /\ Len(ms) = 2 + Len(flat) /\ Len(flat) \in Nat
      /\ \A k \in 1..(2 + Len(flat)) : ms[k] = IF k <= 2 THEN Frozen[k] ELSE flat[k - 2]
  <2>1. Frozen \in Seq(Message) /\ Len(Frozen) = 2  BY FrozenFacts
  <2>2. /\ ms \in Seq(Message) /\ Len(ms) = Len(Frozen) + Len(flat)
        /\ \A k \in 1..(Len(Frozen) + Len(flat)) :
             ms[k] = IF k <= Len(Frozen) THEN Frozen[k] ELSE flat[k - Len(Frozen)]
    BY <1>4, <1>5, <2>1, ConcatProperties
  <2>3. Len(flat) \in Nat  BY <1>5, LenProperties
  <2> QED BY <2>1, <2>2, <2>3
<1> DEFINE o == [i \in 0..n |-> p[i] + 2]
<1>9. o \in [0..n -> Nat] /\ o[0] = 2 /\ Len(ms) = o[n]
  <2>1. 0 \in 0..n /\ n \in 0..n /\ p[n] \in Nat /\ \A i \in 0..n : p[i] + 2 \in Nat
    BY <1>1, <1>7
  <2>2. o[0] = p[0] + 2 /\ o[n] = p[n] + 2  BY <2>1
  <2>3. o \in [0..n -> Nat]  BY <2>1
  <2> HIDE DEF o
  <2> QED BY <1>7, <1>8, <2>1, <2>2, <2>3
<1>10. \A i \in 1..n : o[i] = o[i - 1] + Len(MessagesOf(t, i))
  <2> TAKE i \in 1..n
  <2>1. i \in 0..n /\ i - 1 \in 0..n  BY <1>1
  <2>2. Len(MessagesOf(t, i)) \in Nat  BY BlockFacts, LenProperties DEF n
  <2>3. p[i] \in Nat /\ p[i - 1] \in Nat /\ p[i] = p[i - 1] + Len(MessagesOf(t, i))
    BY <1>7, <2>1
  <2> QED BY <2>1, <2>2, <2>3
<1>11. ASSUME NEW i \in 1..n, NEW k \in 1..Len(MessagesOf(t, i))
       PROVE  ms[o[i - 1] + k] = MessagesOf(t, i)[k]
  <2>1. Len(MessagesOf(t, i)) \in Nat  BY BlockFacts, LenProperties DEF n
  <2> DEFINE m == o[i - 1] + k
  <2>2. i - 1 \in 0..n /\ i \in 0..n /\ k \in Nat  BY <1>1, <2>1
  <2>3. p[i - 1] \in Nat /\ m = p[i - 1] + 2 + k  BY <1>7, <2>2
  <2> DEFINE x == p[i - 1] + k
  <2>4. x \in 1..Len(flat)
    <3> DEFINE J == {j \in 0..n : j < i \/ p[i] <= p[j]}
    <3>1. p[i] <= p[n]
      <4>1. 0 \in J  BY <1>1
      <4>2. ASSUME NEW j \in J, j < n  PROVE j + 1 \in J
        <5>1. j + 1 \in 1..n /\ (j + 1) - 1 = j /\ j \in Int  BY <1>1, <4>2
        <5>2. p[j + 1] = p[j] + Len(MessagesOf(t, j + 1))  BY <1>7, <5>1
        <5>3. Len(MessagesOf(t, j + 1)) \in Nat  BY <5>1, BlockFacts, LenProperties DEF n
        <5>4. p[j] \in Nat /\ p[i] \in Nat /\ p[j + 1] \in Nat  BY <1>7, <2>2, <5>1
        <5>5. j + 1 < i \/ j + 1 = i \/ ~(j < i)  BY <5>1
        <5>6. j + 1 \in 0..n  BY <5>1
        <5> QED BY <5>2, <5>3, <5>4, <5>5, <5>6
      <4>3. J = 0..n
        <5> HIDE DEF n
        <5> QED BY <1>1, <4>1, <4>2, UpTo
      <4>4. n \in J /\ ~(n < i)  BY <1>1, <4>3
      <4> QED BY <4>4
    <3>2. p[i] = p[i - 1] + Len(MessagesOf(t, i)) /\ p[i] \in Nat /\ p[n] \in Nat
      BY <1>1, <1>7, <2>2
    <3> QED BY <1>7, <2>1, <2>3, <3>1, <3>2
  <2>5. m = x + 2 /\ x \in Nat  BY <2>2, <2>3
  <2> HIDE DEF m, x
  <2>6. m \in 1..(2 + Len(flat)) /\ ~(m <= 2) /\ m - 2 = x  BY <1>8, <2>4, <2>5
  <2>7. ms[m] = flat[x]  BY <1>8, <2>6
  <2>8. flat[x] = MessagesOf(t, i)[k]  BY <1>7 DEF x
  <2> QED BY <2>7, <2>8 DEF m
<1>12. ms[1] = Frozen[1] /\ ms[2] = Frozen[2]  BY <1>8
<1> HIDE DEF o
<1>13. Layout(t, o, ms)
  BY <1>8, <1>9, <1>10, <1>11, <1>12 DEF Layout, n
<1> HIDE DEF Layout
<1> QED BY <1>13 DEF ms

(* Growing offsets cut the positions into the segments between them. *)
LEMMA Increasing ==
  ASSUME NEW n \in Nat, NEW o \in [0..n -> Nat], \A i \in 1..n : o[i - 1] < o[i]
  PROVE  /\ \A i, j \in 0..n : i < j => o[i] < o[j]
         /\ \A m \in Nat : o[0] < m /\ m <= o[n] =>
              \E i \in 1..n : o[i - 1] < m /\ m <= o[i]
<1>1. ASSUME NEW i \in 0..n  PROVE \A j \in 0..n : i < j => o[i] < o[j]
  <2> DEFINE J == {j \in 0..n : i < j => o[i] < o[j]}
  <2>1. 0 \in J  OBVIOUS
  <2>2. ASSUME NEW j \in J, j < n  PROVE j + 1 \in J
    <3>1. j + 1 \in 1..n /\ (j + 1) - 1 = j /\ j + 1 \in 0..n /\ j \in 0..n  BY <2>2
    <3>2. o[j] < o[j + 1] /\ o[j] \in Nat /\ o[j + 1] \in Nat /\ o[i] \in Nat  BY <3>1
    <3>3. i < j => o[i] < o[j]  OBVIOUS
    <3>4. i < j + 1 => i < j \/ i = j  BY <3>1
    <3> QED BY <3>1, <3>2, <3>3, <3>4
  <2>3. J = 0..n
    <3> HIDE DEF J
    <3>1. J \in SUBSET (0..n)  BY DEF J
    <3> QED BY <2>1, <2>2, <3>1, UpTo
  <2> QED BY <2>3
<1>2. ASSUME NEW m \in Nat, o[0] < m, m <= o[n]
      PROVE  \E i \in 1..n : o[i - 1] < m /\ m <= o[i]
  <2> SUFFICES ASSUME \A i \in 1..n : ~(o[i - 1] < m /\ m <= o[i])  PROVE FALSE
    OBVIOUS
  <2> DEFINE J == {j \in 0..n : o[j] < m}
  <2>1. 0 \in J  BY <1>2
  <2>2. ASSUME NEW j \in J, j < n  PROVE j + 1 \in J
    <3>1. j + 1 \in 1..n /\ (j + 1) - 1 = j /\ j + 1 \in 0..n  BY <2>2
    <3>2. o[j + 1] \in Nat /\ ~(m <= o[j + 1])  BY <3>1
    <3> QED BY <3>1, <3>2
  <2>3. J = 0..n
    <3> HIDE DEF J
    <3>1. J \in SUBSET (0..n)  BY DEF J
    <3> QED BY <2>1, <2>2, <3>1, UpTo
  <2>4. n \in J /\ o[n] \in Nat  BY <2>3
  <2> QED BY <1>2, <2>4
<1> QED BY <1>1, <1>2

(* The two kinds of entry, where they are in the messages. *)
TextAt(t, o, ms, i) ==
  /\ o[i] = o[i - 1] + 1
  /\ ms[o[i]].ids = <<>> /\ ms[o[i]].w = t[i].w
  /\ ms[o[i]].role = IF t[i].kind = "round" THEN "assistant" ELSE "user"

ExchangeAt(t, o, ms, i) ==
  /\ t[i].kind = "round"
  /\ o[i] = o[i - 1] + 1 + CallsPerReply
  /\ ms[o[i - 1] + 1] = [role |-> "assistant", ids |-> CallsOf(t[i].id), w |-> t[i].w]
  /\ \A k \in 1..CallsPerReply :
       ms[o[i - 1] + 1 + k] = [role |-> "tool", ids |-> <<CallsOf(t[i].id)[k]>>, w |-> 0]

(* Every message after the first two belongs to one entry, and the entries'
   messages follow one another. *)
LEMMA LayoutFacts ==
  ASSUME NEW t \in Seq(Entry), NEW o, NEW ms, Layout(t, o, ms)
  PROVE  /\ Len(t) \in Nat /\ CallsPerReply \in Nat \ {0}
         /\ \A i \in 0..Len(t) : o[i] \in Nat /\ o[i] >= 2 /\ o[i] <= Len(ms)
         /\ \A i \in 1..Len(t) : /\ i \in 0..Len(t) /\ i - 1 \in 0..Len(t)
                                 /\ o[i - 1] < o[i]
                                 /\ TextAt(t, o, ms, i) \/ ExchangeAt(t, o, ms, i)
         /\ \A i, j \in 0..Len(t) : i < j => o[i] < o[j]
         /\ \A m \in 3..Len(ms) : \E i \in 1..Len(t) : o[i - 1] < m /\ m <= o[i]
         /\ ms \in Seq(Message) /\ Len(ms) \in Nat /\ Len(ms) >= 2 /\ DOMAIN ms = 1..Len(ms)
<1> DEFINE n == Len(t)
<1>1. /\ n \in Nat /\ CallsPerReply \in Nat \ {0}
      /\ ms \in Seq(Message) /\ Len(ms) \in Nat /\ DOMAIN ms = 1..Len(ms)
  BY LenProperties, EncodingAssumption DEF Layout
<1>2. /\ o \in [0..n -> Nat] /\ o[0] = 2 /\ Len(ms) = o[n]
      /\ \A i \in 1..n : o[i] = o[i - 1] + Len(MessagesOf(t, i))
      /\ \A i \in 1..n : \A k \in 1..Len(MessagesOf(t, i)) :
           ms[o[i - 1] + k] = MessagesOf(t, i)[k]
  BY DEF Layout
<1> HIDE DEF n
<1>3. ASSUME NEW i \in 1..n
      PROVE  /\ i \in 0..n /\ i - 1 \in 0..n
             /\ o[i - 1] < o[i]
             /\ TextAt(t, o, ms, i) \/ ExchangeAt(t, o, ms, i)
  <2> DEFINE b == MessagesOf(t, i)
             e == t[i]
             p == o[i - 1]
  <2>1. i \in 0..n /\ i - 1 \in 0..n  BY <1>1
  <2>2. p \in Nat /\ o[i] = p + Len(b) /\ \A k \in 1..Len(b) : ms[p + k] = b[k]
    BY <1>2, <2>1
  <2>3. IsText(b, e) \/ IsExchange(b, e)  BY BlockFacts DEF n
  <2>4. CASE IsText(b, e)
    <3> HIDE DEF b, e, p
    <3>1. Len(b) = 1 /\ 1 \in 1..Len(b)  BY <2>4 DEF IsText
    <3>2. o[i] = p + 1 /\ ms[p + 1] = b[1]  BY <2>2, <3>1
    <3>3. TextAt(t, o, ms, i)  BY <2>4, <3>2 DEF IsText, TextAt, p, e
    <3> QED BY <2>1, <2>2, <3>2, <3>3 DEF p
  <2>5. CASE IsExchange(b, e)
    <3> HIDE DEF b, e, p
    <3>1. Len(b) = 1 + CallsPerReply /\ 1 \in 1..Len(b)  BY <1>1, <2>5 DEF IsExchange
    <3>2. o[i] = p + 1 + CallsPerReply /\ ms[p + 1] = b[1]  BY <1>1, <2>2, <3>1
    <3>3. \A k \in 1..CallsPerReply : ms[p + 1 + k] = b[1 + k]
      <4> TAKE k \in 1..CallsPerReply
      <4>1. 1 + k \in 1..Len(b) /\ p + (1 + k) = p + 1 + k  BY <1>1, <2>2, <3>1
      <4> QED BY <2>2, <4>1
    <3>4. ExchangeAt(t, o, ms, i)
      BY <2>5, <3>2, <3>3 DEF IsExchange, ExchangeAt, p, e
    <3>5. p < o[i]  BY <1>1, <2>2, <3>2
    <3> QED BY <2>1, <3>4, <3>5 DEF p
  <2> QED BY <2>3, <2>4, <2>5
<1>4. \A i \in 1..n : o[i - 1] < o[i]  BY <1>3
<1>5. \A i, j \in 0..n : i < j => o[i] < o[j]  BY <1>1, <1>2, <1>4, Increasing
<1>6. \A m \in Nat : o[0] < m /\ m <= o[n] => \E i \in 1..n : o[i - 1] < m /\ m <= o[i]
  BY <1>1, <1>2, <1>4, Increasing
<1>7. \A i \in 0..n : o[i] \in Nat /\ o[i] >= 2 /\ o[i] <= Len(ms)
  <2> TAKE i \in 0..n
  <2>1. 0 \in 0..n /\ n \in 0..n /\ o[i] \in Nat /\ o[0] \in Nat /\ o[n] \in Nat
    BY <1>1, <1>2
  <2>2. i = 0 \/ o[0] < o[i]  BY <1>1, <1>5, <2>1
  <2>3. i = n \/ o[i] < o[n]  BY <1>1, <1>5, <2>1
  <2> QED BY <1>2, <2>1, <2>2, <2>3
<1>8. \A m \in 3..Len(ms) : \E i \in 1..n : o[i - 1] < m /\ m <= o[i]
  BY <1>1, <1>2, <1>6
<1>9. Len(ms) >= 2
  <2>1. 0 \in 0..n  BY <1>1
  <2> QED BY <1>1, <1>2, <1>7, <2>1
<1> QED BY <1>1, <1>3, <1>5, <1>7, <1>8, <1>9 DEF n

-------------------------------------------------------------------------------
(* What OpenAI is sent. *)

(* Every call is answered right after its message, and every result answers one. *)
LEMMA OpenAITakes ==
  ASSUME NEW t \in Seq(Entry), NEW o, NEW ms, Layout(t, o, ms),
         \A i \in 1..Len(t) : t[i].id \in RoundId
  PROVE  OpenAIAccepts(BuildOpenAIParams(ms))
<1> DEFINE sent == BuildOpenAIParams(ms)
           n == Len(t)
<1>1. /\ DOMAIN sent = 1..Len(ms)
      /\ \A m \in 1..Len(ms) : sent[m] = [role |-> ms[m].role, ids |-> ms[m].ids]
      /\ Len(ms) \in Nat
  BY LayoutFacts DEF BuildOpenAIParams
<1> HIDE DEF sent
<1>2. CallsPerReply \in Nat \ {0}  BY LayoutFacts
<1>3. ASSUME NEW m \in DOMAIN sent
      PROVE  /\ sent[m].role = "assistant"
                  => \A k \in DOMAIN sent[m].ids :
                       m + k \in DOMAIN sent
                       /\ sent[m + k] = [role |-> "tool", ids |-> <<sent[m].ids[k]>>]
             /\ sent[m].role = "tool"
                  => \E j \in 1..(m - 1) : sent[j].role = "assistant"
                                           /\ sent[m].ids[1] \in Range(sent[j].ids)
  <2>1. m \in 1..Len(ms) /\ sent[m].role = ms[m].role /\ sent[m].ids = ms[m].ids
    BY <1>1
  <2>2. CASE m <= 2
    <3>1. ms[m].role \in {"system", "user"}
      <4>1. m = 1 \/ m = 2  BY <1>1, <2>1, <2>2
      <4> QED BY <4>1, FrozenFacts DEF Layout
    <3> QED BY <2>1, <3>1
  <2>3. CASE m > 2
    <3>0. m \in 3..Len(ms)  BY <1>1, <2>1, <2>3
    <3>1. PICK i \in 1..n : o[i - 1] < m /\ m <= o[i]  BY <3>0, LayoutFacts
    <3> DEFINE p == o[i - 1]
    <3>2. /\ p \in Nat /\ o[i] \in Nat /\ o[i] <= Len(ms) /\ p >= 2
          /\ TextAt(t, o, ms, i) \/ ExchangeAt(t, o, ms, i)
      <4>1. i \in 0..n /\ i - 1 \in 0..n /\ (TextAt(t, o, ms, i) \/ ExchangeAt(t, o, ms, i))
        BY LayoutFacts
      <4> QED BY <4>1, LayoutFacts
    <3> HIDE DEF p
    <3>3. CASE TextAt(t, o, ms, i)
      <4>1. m = o[i]  BY <1>1, <2>1, <3>1, <3>2, <3>3 DEF TextAt, p
      <4>2. sent[m].ids = <<>> /\ sent[m].role # "tool"  BY <2>1, <3>3, <4>1 DEF TextAt
      <4> QED BY <4>2
    <3>4. CASE ExchangeAt(t, o, ms, i)
      <4> DEFINE C == CallsOf(t[i].id)
      <4>1. /\ o[i] = p + 1 + CallsPerReply
            /\ ms[p + 1] = [role |-> "assistant", ids |-> C, w |-> t[i].w]
            /\ \A k \in 1..CallsPerReply :
                 ms[p + 1 + k] = [role |-> "tool", ids |-> <<C[k]>>, w |-> 0]
        BY <3>4 DEF ExchangeAt, p
      <4>2. C \in Seq(CallId) /\ Len(C) = CallsPerReply /\ DOMAIN C = 1..CallsPerReply
        BY CallsFacts, LenProperties
      <4> HIDE DEF C
      <4>3. /\ p + 1 \in 1..Len(ms) /\ sent[p + 1].role = "assistant" /\ sent[p + 1].ids = C
            /\ \A k \in 1..CallsPerReply :
                 /\ p + 1 + k \in 1..Len(ms)
                 /\ sent[p + 1 + k] = [role |-> "tool", ids |-> <<C[k]>>]
        <5>1. p + 1 \in 1..Len(ms) /\ \A k \in 1..CallsPerReply : p + 1 + k \in 1..Len(ms)
          <6> DEFINE l == Len(ms)
                     r == o[i]
                     c == CallsPerReply
          <6>1. /\ l \in Nat /\ r \in Nat /\ r <= l /\ c \in Nat /\ p \in Nat /\ p >= 2
                /\ r = p + 1 + c
            BY <1>1, <1>2, <3>2, <4>1
          <6> HIDE DEF l, r, c
          <6>2. p + 1 \in 1..l /\ \A k \in 1..c : p + 1 + k \in 1..l  BY <6>1
          <6> QED BY <6>2 DEF l, c
        <5>2. sent[p + 1] = [role |-> "assistant", ids |-> C]  BY <1>1, <4>1, <5>1
        <5>3. \A k \in 1..CallsPerReply :
                sent[p + 1 + k] = [role |-> "tool", ids |-> <<C[k]>>]
          <6> TAKE k \in 1..CallsPerReply
          <6> DEFINE x == p + 1 + k
          <6>1. x \in 1..Len(ms) /\ ms[x] = [role |-> "tool", ids |-> <<C[k]>>, w |-> 0]
            BY <4>1, <5>1
          <6> HIDE DEF x
          <6>2. sent[x] = [role |-> ms[x].role, ids |-> ms[x].ids]  BY <1>1, <6>1
          <6> QED BY <6>1, <6>2 DEF x
        <5> QED BY <5>1, <5>2, <5>3
      <4>4. CASE m = p + 1
        BY <1>1, <4>2, <4>3, <4>4
      <4>5. CASE m # p + 1
        <5>1. m - (p + 1) \in 1..CallsPerReply /\ p + 1 + (m - (p + 1)) = m
          BY <1>1, <1>2, <2>1, <3>1, <3>2, <4>1, <4>5 DEF p
        <5>2. PICK k \in 1..CallsPerReply : m = p + 1 + k  BY <5>1
        <5>3. sent[m] = [role |-> "tool", ids |-> <<C[k]>>]  BY <4>3, <5>2
        <5>4. p + 1 \in 1..(m - 1)  BY <1>2, <3>2, <5>2
        <5>5. C[k] \in Range(C)  BY <4>2 DEF Range
        <5>6. sent[m].ids[1] = C[k] /\ sent[m].role = "tool"  BY <5>3
        <5> QED BY <4>3, <5>4, <5>5, <5>6
      <4> QED BY <4>4, <4>5
    <3> QED BY <3>2, <3>3, <3>4
  <2>4. m <= 2 \/ m > 2  BY <1>1, <2>1
  <2> QED BY <2>2, <2>3, <2>4
<1> HIDE DEF n
<1> QED BY <1>3 DEF OpenAIAccepts, sent
-------------------------------------------------------------------------------
(* What Anthropic is sent. *)

Turn == [role : {"user", "assistant"}, ids : Seq(CallId)]
Sending == [turns : Seq(Turn), pendingToolResults : Seq(CallId)]

(* What FoldLeft computes, on sets of positions. *)
Folding(g, ms, n) ==
  g = [s \in SUBSET (1..n) |-> IF s = {} THEN NothingSent
                               ELSE AddMessage(g[s \ {Max(s)}], ms[Max(s)])]

(* A largest element is Max. *)
LEMMA MaxIs ==
  ASSUME NEW S \in SUBSET Int, NEW a \in S, \A x \in S : a >= x
  PROVE  Max(S) = a
<1>1. \E x \in S : \A y \in S : x >= y  OBVIOUS
<1>2. Max(S) \in S /\ \A y \in S : Max(S) >= y  BY <1>1 DEF Max
<1>3. Max(S) >= a /\ a >= Max(S) /\ a \in Int /\ Max(S) \in Int  BY <1>2
<1> QED BY <1>3

(* The function exists, adding one message at a time. *)
LEMMA FoldingExists ==
  ASSUME NEW ms, NEW N \in Nat
  PROVE  \E g : Folding(g, ms, N)
<1> DEFINE T == {n \in 0..N : \E g : Folding(g, ms, n)}
<1>1. 0 \in T
  <2> DEFINE g == [s \in SUBSET (1..0) |-> NothingSent]
  <2>1. \A s \in SUBSET (1..0) : s = {}  OBVIOUS
  <2>2. Folding(g, ms, 0)  BY <2>1 DEF Folding
  <2> HIDE DEF g
  <2> QED BY <2>2
<1>2. ASSUME NEW n \in T, n < N  PROVE n + 1 \in T
  <2>1. PICK g : Folding(g, ms, n)  OBVIOUS
  <2>2. n \in Nat /\ n + 1 \in 0..N  BY <1>2
  <2> HIDE DEF T
  <2> DEFINE S == SUBSET (1..(n + 1))
             h == [s \in S |-> IF n + 1 \in s THEN AddMessage(g[s \ {n + 1}], ms[n + 1])
                               ELSE g[s]]
             Value(s) == IF s = {} THEN NothingSent ELSE AddMessage(h[s \ {Max(s)}], ms[Max(s)])
  <2>3. \A s \in S : n + 1 \notin s => s \in SUBSET (1..n)  BY <2>2
  <2>4. \A s \in SUBSET (1..n) : s \in S /\ h[s] = g[s]
    <3> TAKE s \in SUBSET (1..n)
    <3>1. s \in S /\ n + 1 \notin s  BY <2>2
    <3> QED BY <3>1
  <2>5. ASSUME NEW s \in S  PROVE h[s] = Value(s)
    <3>1. CASE n + 1 \in s
      <4>1. Max(s) = n + 1
        <5>1. s \in SUBSET Int /\ \A x \in s : n + 1 >= x  BY <2>2
        <5> QED BY <3>1, <5>1, MaxIs
      <4>2. s \ {n + 1} \in SUBSET (1..n)  BY <2>2
      <4>3. h[s \ {n + 1}] = g[s \ {n + 1}]  BY <2>4, <4>2
      <4>4. h[s] = AddMessage(g[s \ {n + 1}], ms[n + 1])  BY <3>1
      <4>5. s # {}  BY <3>1
      <4> HIDE DEF h
      <4> QED BY <4>1, <4>3, <4>4, <4>5
    <3>2. CASE n + 1 \notin s
      <4>1. s \in SUBSET (1..n) /\ s \ {Max(s)} \in SUBSET (1..n)  BY <2>3, <3>2
      <4>2. h[s] = g[s] /\ h[s \ {Max(s)}] = g[s \ {Max(s)}]  BY <2>4, <4>1
      <4>3. g[s] = IF s = {} THEN NothingSent ELSE AddMessage(g[s \ {Max(s)}], ms[Max(s)])
        BY <2>1, <4>1 DEF Folding
      <4> HIDE DEF h
      <4> QED BY <4>2, <4>3
    <3> QED BY <3>1, <3>2
  <2>6. h = [s \in S |-> Value(s)]
    <3> DEFINE body(s) == IF n + 1 \in s THEN AddMessage(g[s \ {n + 1}], ms[n + 1]) ELSE g[s]
    <3>1. h = [s \in S |-> body(s)]  OBVIOUS
    <3>2. \A s \in S : body(s) = Value(s)
      <4> TAKE s \in S
      <4>1. h[s] = body(s)  BY <3>1
      <4> HIDE DEF body, Value, h
      <4> QED BY <2>5, <4>1
    <3> HIDE DEF body, Value
    <3> QED BY <3>1, <3>2
  <2>7. Folding(h, ms, n + 1)
    <3> HIDE DEF h
    <3> QED BY <2>6 DEF Folding
  <2>8. \E v : Folding(v, ms, n + 1)
    <3> HIDE DEF h
    <3> QED BY <2>7
  <2> QED BY <2>2, <2>8 DEF T
<1>3. T = 0..N
  <2> HIDE DEF T
  <2>1. T \in SUBSET (0..N)  BY DEF T
  <2> QED BY <1>1, <1>2, <2>1, UpTo
<1>4. N \in T  BY <1>3
<1> QED BY <1>4

(* The state after each message: the turns so far, and the results still held. *)
Steps(u, ms) ==
  /\ u[0] = NothingSent
  /\ \A m \in 1..Len(ms) : u[m] = AddMessage(u[m - 1], ms[m])
  /\ BuildAnthropicParams(ms) = FlushToolResults(u[Len(ms)]).turns

(* BuildAnthropicParams goes through such states. *)
LEMMA StepsExist ==
  ASSUME NEW ms \in Seq(Message)
  PROVE  \E u : Steps(u, ms)
<1> DEFINE N == Len(ms)
           it == CHOOSE g : Folding(g, ms, N)
           u == [m \in 0..N |-> it[1..m]]
<1>1. N \in Nat /\ DOMAIN ms = 1..N  BY LenProperties
<1>2. Folding(it, ms, N)  BY <1>1, FoldingExists
<1>3. FoldLeft(AddMessage, NothingSent, ms) = it[1..N]
  BY <1>1 DEF FoldLeft, MapThenFoldSet, Folding
<1> HIDE DEF it, N
<1>4. \A m \in 0..N : u[m] = it[1..m]  OBVIOUS
<1> HIDE DEF u
<1>5. u[0] = NothingSent
  <2>1. 0 \in 0..N /\ 1..0 = {} /\ 1..0 \in SUBSET (1..N)  BY <1>1
  <2>2. it[1..0] = NothingSent  BY <1>2, <2>1 DEF Folding
  <2> QED BY <1>4, <2>1, <2>2
<1>6. ASSUME NEW m \in 1..N  PROVE u[m] = AddMessage(u[m - 1], ms[m])
  <2>1. m \in 0..N /\ m - 1 \in 0..N /\ 1..m \in SUBSET (1..N) /\ 1..m # {}  BY <1>1
  <2>2. Max(1..m) = m
    <3>1. 1..m \in SUBSET Int /\ m \in 1..m /\ \A x \in 1..m : m >= x  BY <1>1
    <3> QED BY <3>1, MaxIs
  <2>3. (1..m) \ {m} = 1..(m - 1)  BY <1>1
  <2>4. it[1..m] = AddMessage(it[(1..m) \ {Max(1..m)}], ms[Max(1..m)])
    BY <1>2, <2>1 DEF Folding
  <2> QED BY <1>4, <2>1, <2>2, <2>3, <2>4
<1>7. BuildAnthropicParams(ms) = FlushToolResults(u[N]).turns
  <2>1. N \in 0..N  BY <1>1
  <2>2. u[N] = it[1..N]  BY <1>4, <2>1
  <2> QED BY <1>3, <2>2 DEF BuildAnthropicParams
<1>8. Steps(u, ms)  BY <1>5, <1>6, <1>7 DEF Steps, N
<1> QED BY <1>8

(* Accepted turns are accepted with one more turn without calls, and with an
   assistant turn and its answers. *)
LEMMA AcceptsText ==
  ASSUME NEW turns \in Seq(Turn), AnthropicAccepts(turns), NEW role \in {"user", "assistant"}
  PROVE  LET more == Append(turns, [role |-> role, ids |-> <<>>])
         IN  more \in Seq(Turn) /\ AnthropicAccepts(more)
<1> DEFINE last == [role |-> role, ids |-> <<>>]
           more == Append(turns, last)
           n == Len(turns)
<1>1. last \in Turn
  <2>1. <<>> \in Seq(CallId)  BY EmptySeq
  <2> QED BY <2>1 DEF Turn
<1>2. last.ids = <<>>  OBVIOUS
<1> HIDE DEF last
<1>3. /\ n \in Nat /\ more \in Seq(Turn) /\ Len(more) = n + 1
      /\ \A i \in 1..n : more[i] = turns[i]
      /\ more[n + 1] = last
  BY <1>1, AppendProperties, LenProperties
<1>4. DOMAIN more = 1..(n + 1) /\ DOMAIN turns = 1..n  BY <1>3, LenProperties
<1> HIDE DEF more, n
<1>5. ASSUME NEW i \in 1..(n + 1)
      PROVE  /\ more[i].role = "assistant" /\ more[i].ids # <<>>
                  => i < n + 1 /\ Answered(more[i], more[i + 1])
             /\ more[i].role = "user" /\ more[i].ids # <<>>
                  => i > 1 /\ more[i - 1].role = "assistant" /\ Answered(more[i - 1], more[i])
  <2>1. CASE i = n + 1  BY <1>2, <1>3, <2>1
  <2>2. CASE i # n + 1
    <3>1. i \in 1..n /\ i \in DOMAIN turns /\ more[i] = turns[i]  BY <1>3, <1>4, <2>2
    <3>2. /\ turns[i].role = "assistant" /\ turns[i].ids # <<>>
                  => i < n /\ Answered(turns[i], turns[i + 1])
          /\ turns[i].role = "user" /\ turns[i].ids # <<>>
                  => i > 1 /\ turns[i - 1].role = "assistant"
                     /\ Answered(turns[i - 1], turns[i])
      BY <3>1 DEF AnthropicAccepts, n
    <3>3. i < n => i + 1 \in 1..n /\ more[i + 1] = turns[i + 1]  BY <1>3, <3>1
    <3>4. i > 1 => i - 1 \in 1..n /\ more[i - 1] = turns[i - 1]  BY <1>3, <3>1
    <3>5. i < n => i < n + 1  BY <1>3, <3>1
    <3> QED BY <3>1, <3>2, <3>3, <3>4, <3>5
  <2> QED BY <2>1, <2>2
<1>6. AnthropicAccepts(more)  BY <1>3, <1>4, <1>5 DEF AnthropicAccepts
<1> QED BY <1>3, <1>6 DEF more, last

LEMMA AcceptsPair ==
  ASSUME NEW turns \in Seq(Turn), AnthropicAccepts(turns), NEW ids \in Seq(CallId)
  PROVE  LET asked == Append(turns, [role |-> "assistant", ids |-> ids])
             more == Append(asked, [role |-> "user", ids |-> ids])
         IN  asked \in Seq(Turn) /\ more \in Seq(Turn) /\ AnthropicAccepts(more)
<1> DEFINE a == [role |-> "assistant", ids |-> ids]
           b == [role |-> "user", ids |-> ids]
           asked == Append(turns, a)
           more == Append(asked, b)
           n == Len(turns)
<1>1. a \in Turn /\ b \in Turn  BY DEF Turn
<1>2. a.role = "assistant" /\ b.role = "user" /\ Answered(a, b)  BY DEF Answered
<1> HIDE DEF a, b
<1>3. /\ n \in Nat /\ asked \in Seq(Turn) /\ Len(asked) = n + 1
      /\ \A i \in 1..n : asked[i] = turns[i]
      /\ asked[n + 1] = a
  BY <1>1, AppendProperties, LenProperties
<1> HIDE DEF asked, n
<1>4. /\ more \in Seq(Turn) /\ Len(more) = n + 2
      /\ \A i \in 1..n : more[i] = turns[i]
      /\ more[n + 1] = a /\ more[n + 2] = b
  <2>1. /\ more \in Seq(Turn) /\ Len(more) = Len(asked) + 1
        /\ \A i \in 1..Len(asked) : more[i] = asked[i]
        /\ more[Len(asked) + 1] = b
    BY <1>1, <1>3, AppendProperties
  <2>2. (n + 1) + 1 = n + 2 /\ n + 1 \in 1..(n + 1) /\ \A i \in 1..n : i \in 1..(n + 1)
    BY <1>3
  <2> HIDE DEF more
  <2> QED BY <1>3, <2>1, <2>2
<1>5. DOMAIN more = 1..(n + 2) /\ DOMAIN turns = 1..n  BY <1>4, LenProperties DEF n
<1> HIDE DEF more
<1>6. ASSUME NEW i \in 1..(n + 2)
      PROVE  /\ more[i].role = "assistant" /\ more[i].ids # <<>>
                  => i < n + 2 /\ Answered(more[i], more[i + 1])
             /\ more[i].role = "user" /\ more[i].ids # <<>>
                  => i > 1 /\ more[i - 1].role = "assistant" /\ Answered(more[i - 1], more[i])
  <2>1. CASE i = n + 2
    <3>1. i > 1 /\ i - 1 = n + 1  BY <1>3, <2>1
    <3> QED BY <1>2, <1>4, <2>1, <3>1
  <2>2. CASE i = n + 1
    <3>1. i < n + 2 /\ i + 1 = n + 2  BY <1>3, <2>2
    <3> QED BY <1>2, <1>4, <2>2, <3>1
  <2>3. CASE i # n + 1 /\ i # n + 2
    <3>1. i \in 1..n /\ i \in DOMAIN turns /\ more[i] = turns[i]  BY <1>3, <1>4, <1>5, <2>3
    <3>2. /\ turns[i].role = "assistant" /\ turns[i].ids # <<>>
                  => i < n /\ Answered(turns[i], turns[i + 1])
          /\ turns[i].role = "user" /\ turns[i].ids # <<>>
                  => i > 1 /\ turns[i - 1].role = "assistant"
                     /\ Answered(turns[i - 1], turns[i])
      BY <3>1 DEF AnthropicAccepts, n
    <3>3. i < n => i + 1 \in 1..n /\ more[i + 1] = turns[i + 1]  BY <1>3, <1>4, <3>1
    <3>4. i > 1 => i - 1 \in 1..n /\ more[i - 1] = turns[i - 1]  BY <1>3, <1>4, <3>1
    <3>5. i < n => i < n + 2  BY <1>3, <3>1
    <3> QED BY <3>1, <3>2, <3>3, <3>4, <3>5
  <2> QED BY <2>1, <2>2, <2>3
<1>7. AnthropicAccepts(more)  BY <1>4, <1>5, <1>6 DEF AnthropicAccepts
<1> QED BY <1>3, <1>4, <1>7 DEF asked, more, a, b
-------------------------------------------------------------------------------
(* A flush leaves nothing held. *)
LEMMA Flushes ==
  ASSUME NEW s \in Sending
  PROVE  /\ FlushToolResults(s) \in Sending
         /\ FlushToolResults(s).turns \in Seq(Turn)
         /\ FlushToolResults(s).pendingToolResults = <<>>
<1>1. s.turns \in Seq(Turn) /\ s.pendingToolResults \in Seq(CallId)  BY DEF Sending
<1>2. <<>> \in Seq(CallId)  BY EmptySeq
<1>3. CASE s.pendingToolResults = <<>>  BY <1>1, <1>3 DEF FlushToolResults
<1>4. CASE s.pendingToolResults # <<>>
  <2> DEFINE a == [role |-> "user", ids |-> s.pendingToolResults]
             more == Append(s.turns, a)
  <2>1. FlushToolResults(s) = [turns |-> more, pendingToolResults |-> <<>>]
    BY <1>4 DEF FlushToolResults
  <2>2. a \in Turn  BY <1>1 DEF Turn
  <2> HIDE DEF a
  <2>3. more \in Seq(Turn)  BY <1>1, <2>2, AppendProperties
  <2> HIDE DEF more
  <2> QED BY <1>2, <2>1, <2>3 DEF Sending
<1> QED BY <1>3, <1>4

(* A message that is no tool result flushes those held. *)
LEMMA AddsTurn ==
  ASSUME NEW s \in Sending, NEW m \in Message, m.role \in {"user", "assistant"}
  PROVE  AddMessage(s, m) =
           [turns |-> Append(FlushToolResults(s).turns, [role |-> m.role, ids |-> m.ids]),
            pendingToolResults |-> <<>>]
<1> DEFINE g == FlushToolResults(s)
           a == [role |-> m.role, ids |-> m.ids]
<1>1. AddMessage(s, m) = [g EXCEPT !.turns = Append(@, a)]
  <2>1. m.role # "tool" /\ m.role # "system"  OBVIOUS
  <2> QED BY <2>1 DEF AddMessage
<1>2. g \in Sending /\ g.pendingToolResults = <<>>  BY Flushes
<1> HIDE DEF g, a
<1>3. g = [turns |-> g.turns, pendingToolResults |-> <<>>]  BY <1>2 DEF Sending
<1>4. [g EXCEPT !.turns = Append(@, a)]
        = [turns |-> Append(g.turns, a), pendingToolResults |-> <<>>]
  <2> DEFINE more == Append(g.turns, a)
  <2> HIDE DEF more
  <2>1. [g EXCEPT !.turns = more] = [turns |-> more, pendingToolResults |-> <<>>]
    BY <1>2 DEF Sending
  <2> QED BY <2>1 DEF more
<1> QED BY <1>1, <1>4 DEF g, a

(* A tool result is held. *)
LEMMA HoldsResult ==
  ASSUME NEW s \in Sending, NEW m \in Message, m.role = "tool"
  PROVE  AddMessage(s, m) = [turns |-> s.turns,
                             pendingToolResults |-> s.pendingToolResults \o m.ids]
<1>1. AddMessage(s, m) = [s EXCEPT !.pendingToolResults = @ \o m.ids]
  BY DEF AddMessage
<1> QED BY <1>1 DEF Sending

(* Flushing now, what is sent is accepted. *)
Settled(s) == s \in Sending /\ AnthropicAccepts(FlushToolResults(s).turns)

(* A text message after accepted turns. *)
LEMMA SettlesText ==
  ASSUME NEW s, Settled(s), NEW m \in Message, m.role \in {"user", "assistant"}, m.ids = <<>>
  PROVE  Settled(AddMessage(s, m))
<1> DEFINE F == FlushToolResults(s).turns
           more == Append(F, [role |-> m.role, ids |-> <<>>])
           r == [turns |-> more, pendingToolResults |-> <<>>]
<1>1. F \in Seq(Turn) /\ AnthropicAccepts(F)  BY Flushes DEF Settled
<1>2. AddMessage(s, m) = r  BY AddsTurn DEF Settled
<1> HIDE DEF F
<1>3. more \in Seq(Turn) /\ AnthropicAccepts(more)  BY <1>1, AcceptsText
<1>4. <<>> \in Seq(CallId)  BY EmptySeq
<1> HIDE DEF more
<1>5. r \in Sending /\ FlushToolResults(r) = r /\ r.turns = more
  BY <1>3, <1>4 DEF Sending, FlushToolResults
<1> QED BY <1>2, <1>3, <1>5 DEF Settled

(* The calls of a reply, then their results, held one after the other. *)
LEMMA SettlesExchange ==
  ASSUME NEW id \in RoundId, NEW u, NEW p \in Nat, NEW ms, NEW w \in Nat,
         Settled(u[p]),
         \A k \in 1..(1 + CallsPerReply) : u[p + k] = AddMessage(u[p + k - 1], ms[p + k]),
         ms[p + 1] = [role |-> "assistant", ids |-> CallsOf(id), w |-> w],
         \A k \in 1..CallsPerReply :
           ms[p + 1 + k] = [role |-> "tool", ids |-> <<CallsOf(id)[k]>>, w |-> 0]
  PROVE  Settled(u[p + 1 + CallsPerReply])
<1> DEFINE C == CallsOf(id)
           N == CallsPerReply
           F == FlushToolResults(u[p]).turns
           asked == Append(F, [role |-> "assistant", ids |-> C])
           Held(k) == [x \in 1..k |-> C[x]]
           State(k) == [turns |-> asked, pendingToolResults |-> Held(k)]
           T == {k \in 0..N : u[p + 1 + k] = State(k)}
<1>1. N \in Nat \ {0} /\ C \in Seq(CallId) /\ Len(C) = N /\ \A k \in 1..N : C[k] \in CallId
  BY CallsFacts
<1>2. F \in Seq(Turn) /\ AnthropicAccepts(F) /\ u[p] \in Sending  BY Flushes DEF Settled
<1>3. \A k \in 1..N : ms[p + 1 + k] = [role |-> "tool", ids |-> <<C[k]>>, w |-> 0]
  OBVIOUS
<1>4. ms[p + 1] = [role |-> "assistant", ids |-> C, w |-> w]  OBVIOUS
<1>5. u[p + 1] = AddMessage(u[p], ms[p + 1])
  <2>1. 1 \in 1..(1 + CallsPerReply) /\ p + 1 - 1 = p  BY <1>1
  <2> QED BY <2>1
<1>6. \A k \in 1..N : u[p + 1 + k] = AddMessage(u[p + k], ms[p + 1 + k])
  <2> TAKE k \in 1..N
  <2>1. 1 + k \in 1..(1 + CallsPerReply) /\ p + (1 + k) = p + 1 + k /\ p + (1 + k) - 1 = p + k
    BY <1>1
  <2> QED BY <2>1
<1> HIDE DEF C, F, N
<1>7. \A k \in 0..N : Held(k) \in Seq(CallId) /\ Len(Held(k)) = k /\ State(k) \in Sending
  <2> TAKE k \in 0..N
  <2>1. k \in Nat /\ Held(k) \in [1..k -> CallId]  BY <1>1
  <2>2. Held(k) \in Seq(CallId) /\ Len(Held(k)) = k
    <3> HIDE DEF Held
    <3> QED BY <2>1
  <2>3. asked \in Seq(Turn)
    <3> DEFINE a == [role |-> "assistant", ids |-> C]
    <3>1. a \in Turn  BY <1>1 DEF Turn
    <3> HIDE DEF a
    <3>2. Append(F, a) \in Seq(Turn)  BY <1>2, <3>1, AppendProperties
    <3> QED BY <3>2 DEF a
  <2> HIDE DEF Held, asked
  <2> QED BY <2>2, <2>3 DEF Sending
<1> HIDE DEF asked
<1>8. 0 \in T
  <2>1. ms[p + 1] \in Message /\ ms[p + 1].role = "assistant" /\ ms[p + 1].ids = C
    BY <1>1, <1>4 DEF Message
  <2>2. u[p + 1] = [turns |-> asked, pendingToolResults |-> <<>>]
    <3> DEFINE m == ms[p + 1]
    <3>1. AddMessage(u[p], m) =
            [turns |-> Append(FlushToolResults(u[p]).turns, [role |-> m.role, ids |-> m.ids]),
             pendingToolResults |-> <<>>]
      BY <1>2, <2>1, AddsTurn
    <3> QED BY <1>5, <2>1, <3>1 DEF asked, F
  <2>3. 0 \in 0..N /\ p + 1 + 0 = p + 1  BY <1>1
  <2>4. Held(0) = <<>>
    <3>1. Held(0) \in Seq(CallId) /\ Len(Held(0)) = 0  BY <1>7, <2>3
    <3> HIDE DEF Held
    <3> QED BY <3>1, EmptySeq
  <2> HIDE DEF Held
  <2> QED BY <2>2, <2>3, <2>4
<1>9. ASSUME NEW k \in T, k < N  PROVE k + 1 \in T
  <2>1. k \in 0..N /\ u[p + 1 + k] = State(k)  OBVIOUS
  <2>2. k + 1 \in 1..N /\ k + 1 \in 0..N /\ p + (k + 1) = p + 1 + k  BY <1>1, <1>9, <2>1
  <2> DEFINE m == ms[p + 1 + (k + 1)]
             c == <<C[k + 1]>>
  <2>3. m = [role |-> "tool", ids |-> c, w |-> 0]  BY <1>3, <2>2
  <2>4. c \in Seq(CallId) /\ Len(c) = 1 /\ c[1] = C[k + 1]  BY <1>1, <2>2
  <2>5. u[p + 1 + (k + 1)] = AddMessage(State(k), m)
    <3> HIDE DEF m
    <3>1. u[p + 1 + (k + 1)] = AddMessage(u[p + (k + 1)], m)  BY <1>6, <2>2 DEF m
    <3> QED BY <2>1, <2>2, <3>1
  <2> HIDE DEF m, c
  <2>6. m \in Message /\ m.role = "tool" /\ m.ids = c  BY <2>3, <2>4 DEF Message
  <2>7. State(k) \in Sending /\ Held(k) \in Seq(CallId) /\ Len(Held(k)) = k  BY <1>7, <2>1
  <2>8. AddMessage(State(k), m) = [turns |-> asked, pendingToolResults |-> Held(k) \o c]
    <3>1. State(k).turns = asked /\ State(k).pendingToolResults = Held(k)  OBVIOUS
    <3> HIDE DEF State, Held
    <3> QED BY <2>6, <2>7, <3>1, HoldsResult
  <2>9. Held(k) \o c = Held(k + 1)
    <3> DEFINE a == Held(k)
               d == Held(k + 1)
    <3>1. k \in Nat /\ a \in Seq(CallId) /\ Len(a) = k /\ d \in Seq(CallId) /\ Len(d) = k + 1
      <4> HIDE DEF Held, State, T
      <4>1. k \in 0..N /\ k \in Nat  BY <1>1, <2>1
      <4>2. Held(k) \in Seq(CallId) /\ Len(Held(k)) = k  BY <1>7, <4>1
      <4>3. Held(k + 1) \in Seq(CallId) /\ Len(Held(k + 1)) = k + 1  BY <1>7, <2>2
      <4> QED BY <4>1, <4>2, <4>3
    <3>2. (\A x \in 1..k : a[x] = C[x]) /\ \A x \in 1..(k + 1) : d[x] = C[x]  OBVIOUS
    <3> HIDE DEF a, d, Held
    <3>3. /\ a \o c \in Seq(CallId) /\ Len(a \o c) = k + 1
          /\ \A x \in 1..(k + 1) : (a \o c)[x] = IF x <= k THEN a[x] ELSE c[x - k]
      <4>1. /\ a \o c \in Seq(CallId) /\ Len(a \o c) = Len(a) + Len(c)
            /\ \A x \in 1..(Len(a) + Len(c)) :
                 (a \o c)[x] = IF x <= Len(a) THEN a[x] ELSE c[x - Len(a)]
        <5>1. a \in Seq(CallId) /\ c \in Seq(CallId)  BY <2>4, <3>1
        <5> QED BY <5>1, ConcatProperties
      <4> QED BY <2>4, <3>1, <4>1
    <3>4. \A x \in 1..(k + 1) : (a \o c)[x] = d[x]
      <4> TAKE x \in 1..(k + 1)
      <4>1. CASE x <= k
        <5>1. x \in 1..k  BY <3>1, <4>1
        <5> QED BY <3>2, <3>3, <4>1, <5>1
      <4>2. CASE ~(x <= k)
        <5>1. x = k + 1 /\ x - k = 1  BY <3>1, <4>2
        <5> QED BY <2>4, <3>2, <3>3, <4>2, <5>1
      <4> QED BY <4>1, <4>2
    <3>5. a \o c = d  BY <3>1, <3>3, <3>4, SeqEqual
    <3> QED BY <3>5 DEF a, d
  <2> HIDE DEF Held
  <2> QED BY <2>2, <2>5, <2>8, <2>9
<1>10. T = 0..N
  <2> HIDE DEF T
  <2>1. T \in SUBSET (0..N)  BY DEF T
  <2> QED BY <1>1, <1>8, <1>9, <2>1, UpTo
<1>11. u[p + 1 + N] = State(N)
  <2>1. N \in T
    <3> HIDE DEF T
    <3> QED BY <1>1, <1>10
  <2> QED BY <2>1
<1>12. Held(N) = C
  <2>1. Held(N) \in Seq(CallId) /\ Len(Held(N)) = N  BY <1>1, <1>7
  <2>2. \A x \in 1..N : Held(N)[x] = C[x]  OBVIOUS
  <2> HIDE DEF Held
  <2> QED BY <1>1, <2>1, <2>2, SeqEqual
<1> DEFINE r == [turns |-> asked, pendingToolResults |-> C]
<1>13. u[p + 1 + N] = r /\ r \in Sending
  <2>1. State(N) \in Sending  BY <1>1, <1>7
  <2> HIDE DEF Held
  <2> QED BY <1>11, <1>12, <2>1
<1>14. C # <<>>  BY <1>1
<1>15. FlushToolResults(r).turns = Append(asked, [role |-> "user", ids |-> C])
  BY <1>14 DEF FlushToolResults
<1>16. AnthropicAccepts(FlushToolResults(r).turns)
  <2>1. AnthropicAccepts(Append(Append(F, [role |-> "assistant", ids |-> C]),
                                [role |-> "user", ids |-> C]))
    BY <1>1, <1>2, AcceptsPair
  <2> QED BY <1>15, <2>1 DEF asked
<1> HIDE DEF r
<1> QED BY <1>13, <1>16 DEF Settled, N

(* From entry to entry the turns stay accepted, up to the last. *)
LEMMA AnthropicTakes ==
  ASSUME NEW t \in Seq(Entry), NEW o, NEW ms, Layout(t, o, ms),
         \A i \in 1..Len(t) : t[i].id \in RoundId /\ t[i].w \in Nat
  PROVE  AnthropicAccepts(BuildAnthropicParams(ms))
<1> DEFINE n == Len(t)
           l == Len(ms)
<1>1. /\ n \in Nat /\ CallsPerReply \in Nat \ {0} /\ l \in Nat /\ l >= 2 /\ ms \in Seq(Message)
      /\ \A i \in 0..n : o[i] \in Nat /\ o[i] >= 2 /\ o[i] <= l
      /\ \A i \in 1..n : /\ i \in 0..n /\ i - 1 \in 0..n
                         /\ o[i - 1] < o[i]
                         /\ TextAt(t, o, ms, i) \/ ExchangeAt(t, o, ms, i)
  BY LayoutFacts
<1>2. PICK u : Steps(u, ms)  BY <1>1, StepsExist
<1>3. /\ u[0] = NothingSent /\ \A m \in 1..l : u[m] = AddMessage(u[m - 1], ms[m])
      /\ BuildAnthropicParams(ms) = FlushToolResults(u[l]).turns
  BY <1>2 DEF Steps
<1>4. o[0] = 2 /\ l = o[n] /\ ms[1] = Frozen[1] /\ ms[2] = Frozen[2]  BY DEF Layout
<1>5. \A m \in 1..l : ms[m] \in Message  BY <1>1, ElementOfSeq
<1> HIDE DEF n, l
<1>6. Settled(NothingSent) /\ FlushToolResults(NothingSent) = NothingSent
  <2> DEFINE r == [turns |-> <<>>, pendingToolResults |-> <<>>]
  <2>1. r \in Sending /\ FlushToolResults(r) = r /\ r.turns = <<>>
    <3>1. <<>> \in Seq(Turn) /\ <<>> \in Seq(CallId)  BY EmptySeq
    <3> QED BY <3>1 DEF Sending, FlushToolResults
  <2>2. AnthropicAccepts(<<>>)  BY DEF AnthropicAccepts
  <2> HIDE DEF r
  <2>3. Settled(r) /\ FlushToolResults(r) = r  BY <2>1, <2>2 DEF Settled
  <2> QED BY <2>3 DEF r, NothingSent
<1>7. Settled(u[2])
  <2>1. 1 \in 1..l /\ 2 \in 1..l /\ 1 - 1 = 0 /\ 2 - 1 = 1  BY <1>1
  <2>2. ms[1].role = "system" /\ ms[2].role = "user" /\ ms[2].ids = <<>>
    BY <1>4, FrozenFacts
  <2>3. u[1] = NothingSent
    <3>1. u[1] = AddMessage(NothingSent, ms[1])  BY <1>3, <2>1
    <3>2. AddMessage(NothingSent, ms[1]) = FlushToolResults(NothingSent)
      BY <2>2 DEF AddMessage
    <3> QED BY <1>6, <3>1, <3>2
  <2>4. u[2] = AddMessage(u[1], ms[2])  BY <1>3, <2>1
  <2>5. ms[2] \in Message  BY <1>5, <2>1
  <2> QED BY <1>6, <2>2, <2>3, <2>4, <2>5, SettlesText
<1> DEFINE T == {i \in 0..n : Settled(u[o[i]])}
<1>8. 0 \in T  BY <1>1, <1>4, <1>7
<1>9. ASSUME NEW j \in T, j < n  PROVE j + 1 \in T
  <2> DEFINE i == j + 1
             p == o[j]
             e == t[i]
  <2>1. i \in 1..n /\ i - 1 = j /\ i \in 0..n  BY <1>1, <1>9
  <2>2. Settled(u[p])  OBVIOUS
  <2>4. /\ p \in Nat /\ o[i] \in Nat /\ o[i] <= l
        /\ TextAt(t, o, ms, i) \/ ExchangeAt(t, o, ms, i)
    BY <1>1, <2>1
  <2>5. e.id \in RoundId /\ e.w \in Nat  BY <2>1 DEF n
  <2> HIDE DEF i, e
  <2>6. CASE TextAt(t, o, ms, i)
    <3>1. o[i] = p + 1 /\ ms[o[i]].ids = <<>> /\ ms[o[i]].role \in {"user", "assistant"}
      BY <2>1, <2>6 DEF TextAt
    <3>2. o[i] \in 1..l /\ o[i] - 1 = p
      <4> DEFINE q == o[i]
      <4>1. q \in Nat /\ q <= l /\ l \in Nat /\ p \in Nat /\ q = p + 1
        BY <1>1, <2>4, <3>1
      <4> HIDE DEF q, p
      <4>2. q \in 1..l /\ q - 1 = p  BY <4>1
      <4> QED BY <4>2 DEF q
    <3>3. ms[o[i]] \in Message  BY <1>5, <3>2
    <3>4. u[o[i]] = AddMessage(u[p], ms[o[i]])  BY <1>3, <3>2
    <3>5. Settled(u[o[i]])  BY <2>2, <3>1, <3>3, <3>4, SettlesText
    <3> QED BY <2>1, <3>5 DEF i
  <2>7. CASE ExchangeAt(t, o, ms, i)
    <3>1. /\ o[i] = p + 1 + CallsPerReply
          /\ ms[p + 1] = [role |-> "assistant", ids |-> CallsOf(e.id), w |-> e.w]
          /\ \A k \in 1..CallsPerReply :
               ms[p + 1 + k] = [role |-> "tool", ids |-> <<CallsOf(e.id)[k]>>, w |-> 0]
      BY <2>1, <2>7 DEF ExchangeAt, e
    <3> HIDE DEF p
    <3>2. ASSUME NEW k \in 1..(1 + CallsPerReply)
          PROVE  u[p + k] = AddMessage(u[p + k - 1], ms[p + k])
      <4> DEFINE q == o[i]
                 c == CallsPerReply
      <4>1. q \in Nat /\ q <= l /\ l \in Nat /\ p \in Nat /\ c \in Nat /\ q = p + 1 + c
            /\ k \in 1..(1 + c)
        BY <1>1, <2>4, <3>1
      <4> HIDE DEF q, c
      <4> DEFINE x == p + k
      <4>2. x \in 1..l /\ x - 1 = p + k - 1  BY <4>1
      <4> HIDE DEF x
      <4>3. u[x] = AddMessage(u[p + k - 1], ms[x])  BY <1>3, <4>2
      <4> QED BY <4>3 DEF x
    <3>3. Settled(u[p]) /\ p \in Nat  BY <2>2, <2>4 DEF p
    <3>4. Settled(u[p + 1 + CallsPerReply])  BY <2>5, <3>1, <3>2, <3>3, SettlesExchange
    <3> QED BY <2>1, <3>1, <3>4 DEF i
  <2> QED BY <2>4, <2>6, <2>7
<1>10. T = 0..n
  <2> HIDE DEF T
  <2>1. T \in SUBSET (0..n)  BY DEF T
  <2> QED BY <1>1, <1>8, <1>9, <2>1, UpTo
<1>11. Settled(u[o[n]])
  <2>1. n \in T
    <3> HIDE DEF T
    <3> QED BY <1>1, <1>10
  <2> QED BY <2>1
<1> QED BY <1>3, <1>4, <1>11 DEF Settled
-------------------------------------------------------------------------------
(* The rounds partitionMessages sees. *)

Span(o, i) == [first |-> o[i - 1] + 1, last |-> o[i]]

(* Where an entry's messages are, by role: a round starts with its assistant
   message, the others of it are results, and no entry starts with a result. *)
LEMMA RolesOf ==
  ASSUME NEW t \in Seq(Entry), NEW o, NEW ms, Layout(t, o, ms), NEW i \in 1..Len(t)
  PROVE  /\ ms[o[i - 1] + 1].role = IF t[i].kind = "round" THEN "assistant" ELSE "user"
         /\ ms[o[i - 1] + 1].w = t[i].w
         /\ \A m \in (o[i - 1] + 2)..o[i] : ms[m].role = "tool" /\ ms[m].w = 0
<1> DEFINE p == o[i - 1]
<1>1. /\ p \in Nat /\ o[i] \in Nat /\ CallsPerReply \in Nat \ {0}
      /\ TextAt(t, o, ms, i) \/ ExchangeAt(t, o, ms, i)
  BY LayoutFacts
<1> HIDE DEF p
<1>2. CASE TextAt(t, o, ms, i)
  <2>1. o[i] = p + 1  BY <1>2 DEF TextAt, p
  <2>2. (p + 2)..o[i] = {}  BY <1>1, <2>1
  <2> QED BY <1>2, <2>1, <2>2 DEF TextAt, p
<1>3. CASE ExchangeAt(t, o, ms, i)
  <2>1. /\ t[i].kind = "round" /\ o[i] = p + 1 + CallsPerReply
        /\ ms[p + 1] = [role |-> "assistant", ids |-> CallsOf(t[i].id), w |-> t[i].w]
        /\ \A k \in 1..CallsPerReply :
             ms[p + 1 + k] = [role |-> "tool", ids |-> <<CallsOf(t[i].id)[k]>>, w |-> 0]
    BY <1>3 DEF ExchangeAt, p
  <2>2. ASSUME NEW m \in (p + 2)..o[i]  PROVE ms[m].role = "tool" /\ ms[m].w = 0
    <3> DEFINE k == m - (p + 1)
               c == CallsPerReply
    <3>1. c \in Nat /\ m \in (p + 2)..(p + 1 + c)  BY <1>1, <2>1
    <3> HIDE DEF c
    <3>2. k \in 1..c /\ p + 1 + k = m  BY <1>1, <3>1
    <3> HIDE DEF k
    <3>3. ms[m] = [role |-> "tool", ids |-> <<CallsOf(t[i].id)[k]>>, w |-> 0]
      BY <2>1, <3>2 DEF c
    <3> QED BY <3>3
  <2> QED BY <2>1, <2>2 DEF p
<1> QED BY <1>1, <1>2, <1>3

(* groupIntoRounds finds the rounds of the conversation, reminders apart. *)
LEMMA RoundsSeen ==
  ASSUME NEW t \in Seq(Entry), NEW o, NEW ms, Layout(t, o, ms)
  PROVE  GroupIntoRounds(ms) = {Span(o, i) : i \in RoundsOf(t)}
<1> DEFINE n == Len(t)
           l == Len(ms)
<1>1. /\ n \in Nat /\ l \in Nat /\ DOMAIN t = 1..n
      /\ \A i \in 0..n : o[i] \in Nat /\ o[i] >= 2 /\ o[i] <= l
      /\ \A i \in 1..n : i \in 0..n /\ i - 1 \in 0..n /\ o[i - 1] < o[i]
      /\ \A m \in 3..l : \E i \in 1..n : o[i - 1] < m /\ m <= o[i]
      /\ l = o[n]
  <2>1. DOMAIN t = 1..n  BY LenProperties
  <2>2. l = o[n]  BY DEF Layout
  <2> QED BY <2>1, <2>2, LayoutFacts
<1>2. \A i \in 1..n :
        /\ ms[o[i - 1] + 1].role = IF t[i].kind = "round" THEN "assistant" ELSE "user"
        /\ \A m \in (o[i - 1] + 2)..o[i] : ms[m].role = "tool"
  BY RolesOf
<1>3. RoundsOf(t) = {i \in 1..n : t[i].kind = "round"}  BY <1>1 DEF RoundsOf
<1> HIDE DEF n, l
<1>4. ASSUME NEW m \in Assistants(ms)
      PROVE  \E i \in RoundsOf(t) : m = o[i - 1] + 1
  <2>1. m \in 3..l /\ ms[m].role = "assistant"  BY DEF Assistants, l
  <2>2. PICK i \in 1..n : o[i - 1] < m /\ m <= o[i]  BY <1>1, <2>1
  <2> DEFINE p == o[i - 1]
             q == o[i]
  <2>3. p \in Nat /\ q \in Nat /\ p < m /\ m <= q /\ m \in Nat  BY <1>1, <2>1, <2>2
  <2>4. /\ ms[p + 1].role = IF t[i].kind = "round" THEN "assistant" ELSE "user"
        /\ \A x \in (p + 2)..q : ms[x].role = "tool"
    BY <1>2
  <2> HIDE DEF p, q
  <2>5. m = p + 1 \/ m \in (p + 2)..q  BY <2>3
  <2>6. m = p + 1  BY <2>1, <2>4, <2>5
  <2>7. t[i].kind = "round"  BY <2>1, <2>4, <2>6
  <2> QED BY <1>3, <2>6, <2>7 DEF p
<1>5. ASSUME NEW i \in RoundsOf(t)
      PROVE  o[i - 1] + 1 \in Assistants(ms) /\ RoundEnd(ms, o[i - 1] + 1) = o[i]
  <2> DEFINE p == o[i - 1]
             q == o[i]
             J == {j \in (p + 1)..l : \A k \in (p + 1 + 1)..j : ms[k].role = "tool"}
  <2>1. i \in 1..n /\ t[i].kind = "round"  BY <1>3
  <2>2. p \in Nat /\ q \in Nat /\ p >= 2 /\ p < q /\ q <= l  BY <1>1, <2>1
  <2>3. ms[p + 1].role = "assistant" /\ \A x \in (p + 2)..q : ms[x].role = "tool"
    BY <1>2, <2>1
  <2>4. i # n => i + 1 \in 1..n /\ (i + 1) - 1 = i  BY <1>1, <2>1
  <2>5. i # n => ms[q + 1].role # "tool"  BY <1>2, <2>4
  <2>6. i = n => q = l  BY <1>1
  <2> HIDE DEF p, q
  <2>7. p + 1 \in Assistants(ms)
    <3>1. p + 1 \in 3..l  BY <1>1, <2>2
    <3> QED BY <2>3, <3>1 DEF Assistants, l
  <2>8. q \in J
    <3>1. q \in (p + 1)..l /\ \A k \in (p + 1 + 1)..q : k \in (p + 2)..q  BY <1>1, <2>2
    <3> QED BY <2>3, <3>1
  <2>9. \A j \in J : q >= j
    <3> SUFFICES ASSUME NEW j \in J, ~(q >= j)  PROVE FALSE  OBVIOUS
    <3>1. j \in Nat /\ j > q /\ j <= l  BY <1>1, <2>2
    <3>2. i # n  BY <1>1, <2>2, <2>6, <3>1
    <3>3. q + 1 \in (p + 1 + 1)..j  BY <2>2, <3>1
    <3> QED BY <2>5, <3>2, <3>3
  <2>10. J \in SUBSET Int  BY <2>2
  <2>11. RoundEnd(ms, p + 1) = Max(J)  BY DEF RoundEnd, l
  <2> HIDE DEF J
  <2>12. Max(J) = q  BY <2>8, <2>9, <2>10, MaxIs
  <2> QED BY <2>7, <2>11, <2>12 DEF p, q
<1>6. \A i \in RoundsOf(t) :
        Span(o, i) = [first |-> o[i - 1] + 1, last |-> RoundEnd(ms, o[i - 1] + 1)]
  BY <1>5 DEF Span
<1>7. ASSUME NEW r \in GroupIntoRounds(ms)  PROVE \E i \in RoundsOf(t) : r = Span(o, i)
  <2>1. PICK m \in Assistants(ms) : r = [first |-> m, last |-> RoundEnd(ms, m)]
    BY DEF GroupIntoRounds
  <2>2. PICK i \in RoundsOf(t) : m = o[i - 1] + 1  BY <1>4
  <2> QED BY <1>6, <2>1, <2>2
<1>8. ASSUME NEW i \in RoundsOf(t)  PROVE Span(o, i) \in GroupIntoRounds(ms)
  <2> DEFINE m == o[i - 1] + 1
  <2>1. m \in Assistants(ms)  BY <1>5
  <2>2. Span(o, i) = [first |-> m, last |-> RoundEnd(ms, m)]  BY <1>6
  <2> HIDE DEF m
  <2> QED BY <2>1, <2>2 DEF GroupIntoRounds
<1> QED BY <1>7, <1>8

(* The sums of the code are sums of these values. *)
LEMMA Weighs ==
  ASSUME NEW s, NEW S, IsFiniteSet(S), NEW f, \A x \in S : f[x] = s[x].w /\ f[x] \in Nat
  PROVE  MapThenSumSet(LAMBDA x : s[x].w, S) = Total(f, S)
<1> DEFINE Body(g) == [e \in SUBSET S |-> IF e = {} THEN 0
                                          ELSE s[First(e)].w + g[e \ {First(e)}]]
           it == CHOOSE g : g = Body(g)
           jt == CHOOSE g : Sums(g, f, S)
<1>1. MapThenSumSet(LAMBDA x : s[x].w, S) = it[S]
  BY DEF MapThenSumSet, MapThenFoldSet, First
<1>2. Total(f, S) = jt[S]
  BY DEF Total, MapThenSumSet, MapThenFoldSet, Sums, First
<1>3. \A e \in SUBSET S : e # {} => f[First(e)] = s[First(e)].w  BY DEF First
<1>4. ASSUME NEW g  PROVE g = Body(g) <=> Sums(g, f, S)
  <2>1. Body(g) = [e \in SUBSET S |-> IF e = {} THEN 0 ELSE f[First(e)] + g[e \ {First(e)}]]
    BY <1>3
  <2> QED BY <2>1 DEF Sums
<1>5. \E g : Sums(g, f, S)  BY SumsExist
<1>6. Sums(jt, f, S)  BY <1>5
<1>7. Sums(it, f, S)
  <2> HIDE DEF Body
  <2>1. \E g : g = Body(g)  BY <1>4, <1>5
  <2>2. it = Body(it)  BY <2>1
  <2> HIDE DEF it
  <2> QED BY <1>4, <2>2
<1> HIDE DEF it, jt
<1>8. it[S] = jt[S]  BY <1>6, <1>7, SumsAgree
<1> QED BY <1>1, <1>2, <1>8

(* The same for the rounds of the messages. *)
LEMMA WeighsRounds ==
  ASSUME NEW ms, NEW S, IsFiniteSet(S),
         NEW f, \A x \in S : f[x] = RoundTokens(ms, x) /\ f[x] \in Nat
  PROVE  MapThenSumSet(LAMBDA q : RoundTokens(ms, q), S) = Total(f, S)
<1> DEFINE Body(g) == [e \in SUBSET S |-> IF e = {} THEN 0
                                          ELSE RoundTokens(ms, First(e)) + g[e \ {First(e)}]]
           it == CHOOSE g : g = Body(g)
           jt == CHOOSE g : Sums(g, f, S)
<1>1. MapThenSumSet(LAMBDA q : RoundTokens(ms, q), S) = it[S]
  BY DEF MapThenSumSet, MapThenFoldSet, First
<1>2. Total(f, S) = jt[S]
  BY DEF Total, MapThenSumSet, MapThenFoldSet, Sums, First
<1>3. \A e \in SUBSET S : e # {} => f[First(e)] = RoundTokens(ms, First(e))  BY DEF First
<1>4. ASSUME NEW g  PROVE g = Body(g) <=> Sums(g, f, S)
  <2>1. Body(g) = [e \in SUBSET S |-> IF e = {} THEN 0 ELSE f[First(e)] + g[e \ {First(e)}]]
    BY <1>3
  <2> QED BY <2>1 DEF Sums
<1>5. \E g : Sums(g, f, S)  BY SumsExist
<1>6. Sums(jt, f, S)  BY <1>5
<1>7. Sums(it, f, S)
  <2> HIDE DEF Body
  <2>1. \E g : g = Body(g)  BY <1>4, <1>5
  <2>2. it = Body(it)  BY <2>1
  <2> HIDE DEF it
  <2> QED BY <1>4, <2>2
<1> HIDE DEF it, jt
<1>8. it[S] = jt[S]  BY <1>6, <1>7, SumsAgree
<1> QED BY <1>1, <1>2, <1>8

(* A round weighs what its entry does: the results weigh nothing. *)
LEMMA RoundWeighs ==
  ASSUME NEW t \in Seq(Entry), NEW o, NEW ms, Layout(t, o, ms), NEW i \in 1..Len(t)
  PROVE  RoundTokens(ms, Span(o, i)) = t[i].w
<1> DEFINE p == o[i - 1] + 1
           q == o[i]
           S == p..q
           f == [m \in 1..Len(ms) |-> ms[m].w]
<1>1. /\ p \in 1..Len(ms) /\ q \in p..Len(ms) /\ Len(ms) \in Nat
      /\ \A m \in 1..Len(ms) : ms[m] \in Message
  <2>1. /\ i - 1 \in 0..Len(t) /\ i \in 0..Len(t) /\ o[i - 1] < o[i] /\ Len(ms) \in Nat
        /\ ms \in Seq(Message)
    BY LayoutFacts
  <2>2. o[i - 1] \in Nat /\ o[i] \in Nat /\ o[i] <= Len(ms)  BY <2>1, LayoutFacts
  <2>3. \A m \in 1..Len(ms) : ms[m] \in Message  BY <2>1, ElementOfSeq
  <2> QED BY <2>1, <2>2, <2>3
<1>2. ms[p].w = t[i].w /\ \A m \in (p + 1)..q : ms[m].w = 0
  <2>1. ms[p].w = t[i].w /\ \A m \in (o[i - 1] + 2)..q : ms[m].w = 0  BY RolesOf
  <2>2. p + 1 = o[i - 1] + 2
    <3>1. i - 1 \in 0..Len(t) /\ o[i - 1] \in Nat  BY LayoutFacts
    <3> QED BY <3>1
  <2> HIDE DEF p
  <2> QED BY <2>1, <2>2
<1>3. RoundTokens(ms, Span(o, i)) = MapThenSumSet(LAMBDA x : ms[x].w, S)
  BY DEF RoundTokens, Span
<1> HIDE DEF p, q
<1>4. IsFiniteSet(S) /\ S \in SUBSET (1..Len(ms)) /\ p \in S
  BY <1>1, FS_Interval
<1>5. \A x \in S : f[x] = ms[x].w /\ f[x] \in Nat  BY <1>1, <1>4 DEF Message
<1>6. \A x \in S \ {p} : x \in (p + 1)..q  BY <1>1
<1> HIDE DEF S
<1>7. \A x \in S \ {p} : f[x] = 0  BY <1>2, <1>5, <1>6
<1>8. f[p] = t[i].w /\ f[p] \in Nat  BY <1>2, <1>4, <1>5
<1> HIDE DEF f
<1>9. MapThenSumSet(LAMBDA x : ms[x].w, S) = Total(f, S)  BY <1>4, <1>5, Weighs
<1>10. Total(f, S) = f[p] + Total(f, S \ {p})  BY <1>4, <1>5, TotalWithout
<1>11. Total(f, S \ {p}) = 0
  <2>1. IsFiniteSet(S \ {p})  BY <1>4, FS_Subset
  <2> QED BY <1>7, <2>1, TotalOfZeros
<1> QED BY <1>3, <1>8, <1>9, <1>10, <1>11

(* The active zone of the messages is that of the entries. *)
LEMMA SameActiveZone ==
  ASSUME NEW t \in Seq(Entry), NEW o, NEW ms, Layout(t, o, ms), NEW i \in RoundsOf(t)
  PROVE  Span(o, i) \in ComputeActiveZone(ms) <=> i \in ActiveRounds(t)
<1> DEFINE n == Len(t)
           S == {j \in RoundsOf(t) : j >= i}
           b == [j \in RoundsOf(t) |-> Span(o, j)]
           G == GroupIntoRounds(ms)
           f == [j \in RoundsOf(t) |-> t[j].w]
           h == [q \in G |-> RoundTokens(ms, q)]
           Q == {q \in G : q.first >= Span(o, i).first}
<1>1. /\ n \in Nat /\ RoundsOf(t) \subseteq 1..n /\ i \in 1..n
      /\ \A j \in 1..n : t[j].w \in Nat
      /\ \A j \in 0..n : o[j] \in Nat
      /\ \A j \in 1..n : j \in 0..n /\ j - 1 \in 0..n
      /\ \A j, k \in 0..n : j < k => o[j] < o[k]
  <2>1. DOMAIN t = 1..n  BY LenProperties
  <2>2. RoundsOf(t) \subseteq 1..n  BY <2>1 DEF RoundsOf
  <2>3. ASSUME NEW j \in 1..n  PROVE t[j].w \in Nat
    <3>1. t[j] \in Entry  BY ElementOfSeq
    <3>2. t[j].w \in Weights \cup {ReminderTokens}  BY <3>1 DEF Entry
    <3> QED BY <3>2, CompressionAssumption
  <2> QED BY <2>2, <2>3, LayoutFacts
<1>2. G = {Span(o, j) : j \in RoundsOf(t)}  BY RoundsSeen
<1>3. \A j \in RoundsOf(t) : RoundTokens(ms, Span(o, j)) = t[j].w  BY <1>1, RoundWeighs
<1> HIDE DEF n, G
<1>4. IsFiniteSet(S)
  <2>1. IsFiniteSet(1..n)
    <3>1. 1 \in Int /\ n \in Int  BY <1>1
    <3> QED BY <3>1, FS_Interval
  <2>2. S \subseteq 1..n  BY <1>1
  <2> HIDE DEF S
  <2> QED BY <2>1, <2>2, FS_Subset
<1>5. \A j \in S : f[j] = t[j].w /\ f[j] \in Nat /\ h[b[j]] = f[j]
  <2> TAKE j \in S
  <2>1. j \in RoundsOf(t) /\ j \in 1..n  BY <1>1
  <2>2. f[j] = t[j].w /\ f[j] \in Nat /\ b[j] = Span(o, j)  BY <1>1, <2>1
  <2>3. Span(o, j) \in G  BY <1>2, <2>1
  <2>4. h[Span(o, j)] = RoundTokens(ms, Span(o, j))  BY <2>3
  <2> QED BY <1>3, <2>1, <2>2, <2>4
<1>6. \A j, k \in S : b[j] = b[k] => j = k
  <2> TAKE j, k \in S
  <2>1. j \in RoundsOf(t) /\ k \in RoundsOf(t) /\ j \in 0..n /\ k \in 0..n /\ j \in Int /\ k \in Int
    BY <1>1
  <2>2. b[j].last = o[j] /\ b[k].last = o[k]  BY <2>1 DEF Span
  <2>3. o[j] = o[k] => ~(j < k) /\ ~(k < j)
    <3>1. o[j] \in Nat /\ o[k] \in Nat  BY <1>1, <2>1
    <3> QED BY <1>1, <2>1, <3>1
  <2> HIDE DEF b
  <2> QED BY <2>1, <2>2, <2>3
<1>7. Q = {b[j] : j \in S}
  <2>1. ASSUME NEW j \in RoundsOf(t)
        PROVE  Span(o, j).first >= Span(o, i).first <=> j >= i
    <3>1. /\ j \in Int /\ i \in Int /\ j - 1 \in 0..n /\ i - 1 \in 0..n
          /\ o[j - 1] \in Nat /\ o[i - 1] \in Nat
      BY <1>1
    <3>2. j - 1 < i - 1 => o[j - 1] < o[i - 1]  BY <1>1, <3>1
    <3>3. i - 1 < j - 1 => o[i - 1] < o[j - 1]  BY <1>1, <3>1
    <3>4. Span(o, j).first = o[j - 1] + 1 /\ Span(o, i).first = o[i - 1] + 1  BY DEF Span
    <3>5. j = i \/ j - 1 < i - 1 \/ i - 1 < j - 1  BY <3>1
    <3> QED BY <3>1, <3>2, <3>3, <3>4, <3>5
  <2>2. \A j \in S : b[j] = Span(o, j) /\ j \in RoundsOf(t)  OBVIOUS
  <2>3. \A q \in Q : \E j \in S : q = b[j]
    <3> TAKE q \in Q
    <3>1. PICK j \in RoundsOf(t) : q = Span(o, j)  BY <1>2
    <3>2. j >= i  BY <2>1, <3>1
    <3> QED BY <3>1, <3>2
  <2>4. \A j \in S : b[j] \in Q
    <3> TAKE j \in S
    <3>1. j \in RoundsOf(t) /\ j >= i /\ b[j] = Span(o, j)  OBVIOUS
    <3>2. Span(o, j) \in G /\ Span(o, j).first >= Span(o, i).first  BY <1>2, <2>1, <3>1
    <3> HIDE DEF b
    <3> QED BY <3>1, <3>2
  <2> HIDE DEF Q, S, b
  <2> QED BY <2>3, <2>4
<1>8. Span(o, i) \in G  BY <1>2
<1>9. Span(o, i) \in ComputeActiveZone(ms)
        <=> MapThenSumSet(LAMBDA q : RoundTokens(ms, q), Q) <= WarnLimit
  BY <1>8 DEF ComputeActiveZone, G
<1>10. i \in ActiveRounds(t) <=> MapThenSumSet(LAMBDA j : t[j].w, S) <= WarnLimit
  BY DEF ActiveRounds
<1>11. IsFiniteSet(Q) /\ \A q \in Q : h[q] = RoundTokens(ms, q) /\ h[q] \in Nat
  <2>1. IsFiniteSet(Q)
    <3> DEFINE c == [j \in S |-> b[j]]
    <3>1. c \in Surjection(S, Q)  BY <1>7 DEF Surjection
    <3> HIDE DEF c, Q, S
    <3> QED BY <1>4, <3>1, FS_Surjection
  <2>2. \A q \in Q : h[q] = RoundTokens(ms, q)  OBVIOUS
  <2> HIDE DEF Q, h, b, f, S
  <2>3. \A q \in Q : h[q] \in Nat  BY <1>5, <1>7
  <2> QED BY <2>1, <2>2, <2>3
<1> HIDE DEF Q, h, b, f, S
<1>12. MapThenSumSet(LAMBDA q : RoundTokens(ms, q), Q) = Total(h, Q)
  BY <1>11, WeighsRounds
<1>13. MapThenSumSet(LAMBDA j : t[j].w, S) = Total(f, S)
  BY <1>4, <1>5, Weighs
<1>14. Total(f, S) = Total(h, {b[j] : j \in S})
  BY <1>4, <1>5, <1>6, TotalRenamed
<1> QED BY <1>7, <1>9, <1>10, <1>12, <1>13, <1>14

(* The cut is at the end of the messages of the last entry compressed. *)
LEMMA CutsBetweenRounds ==
  ASSUME NEW t \in Seq(Entry), NEW o, NEW ms, Layout(t, o, ms)
  PROVE  PartitionMessages(ms) = o[CompressEnd(t)]
<1> DEFINE n == Len(t)
           old == RoundsOf(t) \ ActiveRounds(t)
           gone == GroupIntoRounds(ms) \ ComputeActiveZone(ms)
           lasts == {r.last : r \in gone}
<1>1. /\ n \in Nat /\ old \subseteq 1..n
      /\ \A j \in 0..n : o[j] \in Nat
      /\ \A j, k \in 0..n : j < k => o[j] < o[k]
      /\ Len(ms) = o[n]
  <2>1. DOMAIN t = 1..n  BY LenProperties
  <2>2. Len(ms) = o[n]  BY DEF Layout
  <2> QED BY <2>1, <2>2, LayoutFacts DEF RoundsOf
<1>2. gone = {Span(o, i) : i \in old}
  <2> DEFINE Z == ComputeActiveZone(ms)
             A == ActiveRounds(t)
             R == RoundsOf(t)
  <2>1. GroupIntoRounds(ms) = {Span(o, i) : i \in R}  BY RoundsSeen
  <2>2. \A i \in R : Span(o, i) \in Z <=> i \in A  BY SameActiveZone
  <2> DEFINE G == GroupIntoRounds(ms)
  <2>3. gone = G \ Z /\ old = R \ A  OBVIOUS
  <2> HIDE DEF Z, A, R, G, gone, old
  <2>4. \A r \in gone : \E i \in old : r = Span(o, i)
    <3> TAKE r \in gone
    <3>1. PICK i \in R : r = Span(o, i)  BY <2>1, <2>3 DEF G
    <3> QED BY <2>2, <2>3, <3>1
  <2>5. \A i \in old : Span(o, i) \in gone  BY <2>1, <2>2, <2>3 DEF G
  <2> QED BY <2>4, <2>5
<1>3. \A i \in old : Span(o, i).last = o[i]  BY DEF Span
<1> HIDE DEF n, old, gone
<1>4. PartitionMessages(ms) = IF gone = {} THEN Len(ms) ELSE Max(lasts)
  BY DEF PartitionMessages, gone
<1>5. CompressEnd(t) = IF old = {} THEN n ELSE Max(old)
  BY DEF CompressEnd, old, n
<1>6. CASE old = {}
  BY <1>1, <1>2, <1>4, <1>5, <1>6
<1>7. CASE old # {}
  <2>1. Max(old) \in old /\ \A i \in old : Max(old) >= i
    BY <1>1, <1>7, LastPosition
  <2> DEFINE e == Max(old)
  <2>2. e \in old /\ e \in 1..n /\ \A i \in old : e >= i  BY <1>1, <2>1
  <2> HIDE DEF e
  <2>3. \A i \in old : o[e] >= o[i] /\ o[i] \in Int
    <3> TAKE i \in old
    <3>1. i \in 0..n /\ e \in 0..n /\ i \in Int /\ e \in Int /\ o[i] \in Nat /\ o[e] \in Nat
      BY <1>1, <2>2
    <3>2. i = e \/ i < e  BY <2>2, <3>1
    <3> QED BY <1>1, <3>1, <3>2
  <2>4. lasts = {o[i] : i \in old}  BY <1>2, <1>3
  <2> HIDE DEF lasts
  <2>5. lasts \in SUBSET Int /\ o[e] \in lasts /\ \A x \in lasts : o[e] >= x
    BY <2>2, <2>3, <2>4
  <2>6. Max(lasts) = o[e]  BY <2>5, MaxIs
  <2>7. gone # {}  BY <1>2, <1>7
  <2> QED BY <1>4, <1>5, <1>7, <2>6, <2>7 DEF e
<1> QED BY <1>6, <1>7

(* What a compression leaves are entries still. *)
LEMMA KeepsTail ==
  ASSUME NEW t \in Seq(Entry)
  PROVE  SubSeq(t, CompressEnd(t) + 1, Len(t)) \in Seq(Entry)
<1> DEFINE e == CompressEnd(t)
           n == Len(t)
<1>1. n \in Nat /\ e \in 0..n  BY CompressEndInside
<1>2. \A i \in 1..n : t[i] \in Entry  BY ElementOfSeq
<1> HIDE DEF e, n
<1>3. e + 1 \in Int /\ n \in Int /\ \A i \in (e + 1)..n : t[i] \in Entry  BY <1>1, <1>2
<1>4. SubSeq(t, e + 1, n) \in Seq(Entry)  BY <1>3, SubSeqProperties
<1> QED BY <1>4 DEF e, n

(* What the cut leaves is the conversation without the entries compressed. *)
LEMMA CutLeaves ==
  ASSUME NEW t \in Seq(Entry)
  PROVE  LET ms == Messages(t)
         IN  Frozen \o SubSeq(ms, PartitionMessages(ms) + 1, Len(ms))
               = Messages(SubSeq(t, CompressEnd(t) + 1, Len(t)))
<1> DEFINE n == Len(t)
           e == CompressEnd(t)
           n2 == n - e
           ms == Messages(t)
           l == Len(ms)
           t2 == SubSeq(t, e + 1, n)
           ms2 == Messages(t2)
<1>1. n \in Nat /\ e \in 0..n  BY CompressEndInside
<1>2. PICK o : Layout(t, o, ms)  BY LayoutExists
<1> DEFINE c == o[e]
<1>3. PartitionMessages(ms) = c  BY <1>2, CutsBetweenRounds
<1>4. /\ t2 \in Seq(Entry) /\ Len(t2) = n2 /\ n2 \in Nat
      /\ \A i \in 1..n2 : t2[i] = t[e + i] /\ e + i \in 1..n
  <2>1. e + 1 \in 1..(n + 1) /\ n \in e..n  BY <1>1
  <2> HIDE DEF e, n
  <2>2. /\ SubSeq(t, e + 1, n) \in Seq(Entry)
        /\ Len(SubSeq(t, e + 1, n)) = IF e + 1 <= n THEN n - (e + 1) + 1 ELSE 0
        /\ \A i \in 1..(n - (e + 1) + 1) : SubSeq(t, e + 1, n)[i] = t[e + 1 + i - 1]
    BY <2>1, SubSeqProperties DEF n
  <2>3. IF e + 1 <= n THEN n - (e + 1) + 1 = n - e ELSE 0 = n - e  BY <1>1
  <2>4. n - (e + 1) + 1 = n - e /\ n - e \in Nat  BY <1>1
  <2>5. \A i \in 1..(n - e) : e + 1 + i - 1 = e + i /\ e + i \in 1..n  BY <1>1
  <2> QED BY <2>2, <2>3, <2>4, <2>5
<1> HIDE DEF n, e, n2, t2, ms, ms2, l, c
<1>5. PICK o2 : Layout(t2, o2, ms2)  BY <1>4, LayoutExists DEF ms2
<1>6. /\ ms \in Seq(Message) /\ l \in Nat
      /\ \A i \in 0..n : o[i] \in Nat /\ o[i] >= 2 /\ o[i] <= l
      /\ \A i \in 1..n : o[i] = o[i - 1] + Len(MessagesOf(t, i))
      /\ \A i \in 1..n : \A k \in 1..Len(MessagesOf(t, i)) :
           ms[o[i - 1] + k] = MessagesOf(t, i)[k]
      /\ l = o[n]
  BY <1>2, LayoutFacts DEF Layout, n, l
<1>7. /\ ms2 \in Seq(Message) /\ o2 \in [0..n2 -> Nat] /\ o2[0] = 2 /\ Len(ms2) = o2[n2]
      /\ \A i \in 1..n2 : o2[i] = o2[i - 1] + Len(MessagesOf(t2, i))
      /\ ms2[1] = Frozen[1] /\ ms2[2] = Frozen[2]
      /\ \A i \in 1..n2 : \A k \in 1..Len(MessagesOf(t2, i)) :
           ms2[o2[i - 1] + k] = MessagesOf(t2, i)[k]
  BY <1>4, <1>5 DEF Layout
<1>8. \A m \in 3..Len(ms2) : \E i \in 1..n2 : o2[i - 1] < m /\ m <= o2[i]
  BY <1>4, <1>5, LayoutFacts
<1>9. \A i \in 1..n2 : MessagesOf(t2, i) = MessagesOf(t, e + i)
  <2> TAKE i \in 1..n2
  <2>1. t2[i] = t[e + i] /\ e + i \in 1..n  BY <1>4
  <2>2. i < n2 <=> e + i < n  BY <1>1, <1>4 DEF n2
  <2>3. i < n2 => t2[i + 1] = t[(e + i) + 1]
    <3>1. i < n2 => i + 1 \in 1..n2 /\ e + (i + 1) = (e + i) + 1  BY <1>1, <1>4
    <3> QED BY <1>4, <3>1
  <2>4. TextOnly(t2, i) <=> TextOnly(t, e + i)
    BY <1>4, <2>1, <2>2, <2>3 DEF TextOnly, n
  <2> QED BY <2>1, <2>4 DEF MessagesOf
<1>10. \A i \in 0..n2 : o2[i] + c = o[e + i] + 2
  <2> DEFINE T == {i \in 0..n2 : o2[i] + c = o[e + i] + 2}
  <2>1. 0 \in T
    <3>1. e + 0 = e /\ c \in Nat  BY <1>1, <1>6 DEF c
    <3>2. 2 + c = o[e] + 2  BY <3>1 DEF c
    <3> QED BY <1>4, <1>7, <3>1, <3>2
  <2>2. ASSUME NEW j \in T, j < n2  PROVE j + 1 \in T
    <3>1. j + 1 \in 1..n2 /\ (j + 1) - 1 = j /\ j \in 0..n2 /\ j + 1 \in 0..n2  BY <1>4, <2>2
    <3>2. /\ e + (j + 1) \in 1..n /\ (e + (j + 1)) - 1 = e + j
          /\ e + j \in 0..n /\ e + (j + 1) \in 0..n
      BY <1>1, <1>4, <3>1
    <3> DEFINE b == Len(MessagesOf(t, e + (j + 1)))
    <3>3. o2[j + 1] = o2[j] + b
      <4>1. MessagesOf(t2, j + 1) = MessagesOf(t, e + (j + 1))  BY <1>9, <3>1
      <4>2. o2[j + 1] = o2[(j + 1) - 1] + Len(MessagesOf(t2, j + 1))  BY <1>7, <3>1
      <4> QED BY <3>1, <4>1, <4>2
    <3>4. o[e + (j + 1)] = o[e + j] + b  BY <1>6, <3>2
    <3>5. b \in Nat  BY <3>2, BlockFacts, LenProperties DEF n
    <3>6. o2[j] + c = o[e + j] + 2  OBVIOUS
    <3>7. o2[j] \in Nat /\ o[e + j] \in Nat /\ c \in Nat  BY <1>1, <1>6, <1>7, <3>1, <3>2 DEF c
    <3> HIDE DEF b
    <3>8. o2[j + 1] + c = o[e + (j + 1)] + 2
      <4> DEFINE x == o2[j]
                 y == o[e + j]
      <4>1. x \in Nat /\ y \in Nat /\ c \in Nat /\ b \in Nat /\ x + c = y + 2
        BY <3>5, <3>6, <3>7
      <4> HIDE DEF x, y
      <4>2. (x + b) + c = (y + b) + 2  BY <4>1
      <4> QED BY <3>3, <3>4, <4>2 DEF x, y
    <3> QED BY <3>1, <3>8
  <2>3. T = 0..n2
    <3> HIDE DEF T
    <3>1. T \in SUBSET (0..n2)  BY DEF T
    <3> QED BY <1>4, <2>1, <2>2, <3>1, UpTo
  <2> QED BY <2>3
<1> DEFINE rest == SubSeq(ms, c + 1, l)
           left == Frozen \o rest
<1>11. c \in Nat /\ c >= 2 /\ c <= l  BY <1>1, <1>6 DEF c
<1>12. /\ rest \in Seq(Message) /\ Len(rest) = l - c /\ l - c \in Nat
       /\ \A k \in 1..(l - c) : rest[k] = ms[c + k]
  <2>1. c + 1 \in 1..(l + 1) /\ l \in c..l  BY <1>6, <1>11
  <2>2. /\ SubSeq(ms, c + 1, l) \in Seq(Message)
        /\ Len(SubSeq(ms, c + 1, l)) = IF c + 1 <= l THEN l - (c + 1) + 1 ELSE 0
        /\ \A i \in 1..(l - (c + 1) + 1) : SubSeq(ms, c + 1, l)[i] = ms[c + 1 + i - 1]
    BY <1>6, <2>1, SubSeqProperties DEF l
  <2>3. IF c + 1 <= l THEN l - (c + 1) + 1 = l - c ELSE 0 = l - c  BY <1>6, <1>11
  <2>4. l - (c + 1) + 1 = l - c /\ l - c \in Nat  BY <1>6, <1>11
  <2>5. \A i \in 1..(l - c) : c + 1 + i - 1 = c + i  BY <1>6, <1>11
  <2> QED BY <2>2, <2>3, <2>4, <2>5
<1> HIDE DEF rest
<1>13. /\ left \in Seq(Message) /\ Len(left) = 2 + (l - c)
       /\ \A m \in 1..(2 + (l - c)) : left[m] = IF m <= 2 THEN Frozen[m] ELSE rest[m - 2]
  <2>1. /\ left \in Seq(Message) /\ Len(left) = Len(Frozen) + Len(rest)
        /\ \A m \in 1..(Len(Frozen) + Len(rest)) :
             left[m] = IF m <= Len(Frozen) THEN Frozen[m] ELSE rest[m - Len(Frozen)]
    BY <1>12, FrozenFacts, ConcatProperties
  <2> QED BY <1>12, <2>1, FrozenFacts
<1> HIDE DEF left
<1>14. Len(left) = Len(ms2)
  <2>1. n2 \in 0..n2 /\ e + n2 = n  BY <1>1, <1>4 DEF n2
  <2>2. o2[n2] + c = o[n] + 2  BY <1>10, <2>1
  <2>3. o2[n2] \in Nat  BY <1>7, <2>1
  <2> QED BY <1>6, <1>7, <1>11, <1>13, <2>2, <2>3
<1>15. ASSUME NEW m \in 1..Len(left)  PROVE left[m] = ms2[m]
  <2>1. m \in 1..(2 + (l - c))  BY <1>13
  <2>2. CASE m <= 2
    <3>1. m = 1 \/ m = 2  BY <1>12, <2>1, <2>2
    <3>2. left[m] = Frozen[m]  BY <1>13, <2>1, <2>2
    <3> QED BY <1>7, <3>1, <3>2
  <2>3. CASE ~(m <= 2)
    <3>1. m \in 3..Len(ms2) /\ m \in Nat  BY <1>14, <1>12, <2>1, <2>3
    <3>2. PICK i \in 1..n2 : o2[i - 1] < m /\ m <= o2[i]  BY <1>8, <3>1
    <3> DEFINE p == o2[i - 1]
               k == m - p
               q == o[(e + i) - 1]
               b == MessagesOf(t, e + i)
    <3>3. /\ i - 1 \in 0..n2 /\ i \in 0..n2 /\ e + i \in 1..n /\ (e + i) - 1 \in 0..n
          /\ e + (i - 1) = (e + i) - 1
      BY <1>1, <1>4
    <3>4. p \in Nat /\ o2[i] \in Nat /\ q \in Nat  BY <1>6, <1>7, <3>3
    <3>5. b = MessagesOf(t2, i) /\ Len(b) \in Nat
      BY <1>9, <3>3, BlockFacts, LenProperties DEF n
    <3>6. o2[i] = p + Len(b)  BY <1>7, <3>5
    <3>7. p + c = q + 2
      <4>1. o2[i - 1] + c = o[e + (i - 1)] + 2  BY <1>10, <3>3
      <4> QED BY <3>3, <4>1
    <3>8. \A x \in 1..Len(b) : ms2[p + x] = b[x] /\ ms[q + x] = b[x]  BY <1>6, <1>7, <3>3, <3>5
    <3>9. p < m /\ m <= o2[i]  BY <3>2
    <3> HIDE DEF p, q, b
    <3>10. k \in 1..Len(b) /\ p + k = m /\ q + k = c + (m - 2)
      BY <1>11, <3>1, <3>4, <3>5, <3>6, <3>7, <3>9
    <3> HIDE DEF k
    <3>11. ms2[m] = b[k] /\ ms[c + (m - 2)] = b[k]  BY <3>8, <3>10
    <3>12. left[m] = rest[m - 2]  BY <1>13, <2>1, <2>3
    <3>13. m - 2 \in 1..(l - c)  BY <1>12, <2>1, <2>3
    <3> QED BY <1>12, <3>11, <3>12, <3>13
  <2> QED BY <2>2, <2>3
<1>16. left = ms2  BY <1>7, <1>13, <1>14, <1>15, SeqEqual
<1> QED BY <1>3, <1>16 DEF left, rest, ms2, t2, n, e, ms, l

(* Both providers accept the messages of any conversation. *)
LEMMA Accepted ==
  ASSUME NEW t \in Seq(Entry)
  PROVE  /\ AnthropicAccepts(BuildAnthropicParams(Messages(t)))
         /\ OpenAIAccepts(BuildOpenAIParams(Messages(t)))
<1>1. PICK o : Layout(t, o, Messages(t))  BY LayoutExists
<1>2. ASSUME NEW i \in 1..Len(t)  PROVE t[i].id \in RoundId /\ t[i].w \in Nat
  <2>1. t[i] \in Entry  BY ElementOfSeq
  <2>2. t[i].w \in Weights \cup {ReminderTokens} /\ t[i].id \in RoundId  BY <2>1 DEF Entry
  <2> QED BY <2>2, CompressionAssumption
<1> QED BY <1>1, <1>2, AnthropicTakes, OpenAITakes
-------------------------------------------------------------------------------
(* Every reachable state of the conversations satisfies the invariant. *)
THEOREM MemoryInvariant == Spec => []Inv
<1> QED BY InitInv, NextInv, PTL DEF Spec

(* TypeOK: a compression rebuilds a conversation from positions it has, and the
   pendingJob slot holds a job that was started or none. *)
THEOREM TypeCorrect == Spec => []TypeOK
<1>1. Inv => TypeOK
  BY DEF Inv, FilesOK, JobsOK, TypeOK, Places, Job
<1> QED BY <1>1, MemoryInvariant, PTL

(* JobUsedInTime: however many files share the pendingJob slot, the result of a
   background compression replaces one conversation at most, and none once the
   job was cancelled or replaced. *)
THEOREM JobsCorrect == Spec => JobUsedInTime
<1>1. Inv /\ [Next]_vars =>
        [/\ \A j \in DOMAIN jobs' : jobs'[j].uses <= 1
         /\ \A j \in DOMAIN jobs : jobs[j].retired => jobs'[j].uses = jobs[j].uses]_vars
  <2> SUFFICES ASSUME Inv, [Next]_vars
               PROVE  /\ \A j \in DOMAIN jobs' : jobs'[j].uses <= 1
                      /\ \A j \in DOMAIN jobs : jobs[j].retired => jobs'[j].uses = jobs[j].uses
    OBVIOUS
  <2>1. JobsMove  BY JobsStep
  <2>2. \A j \in DOMAIN jobs : jobs[j].retired => j # pending \/ pending = None
    BY DEF Inv, JobsOK
  <2> QED BY <2>1, <2>2 DEF JobsMove, JobsOK, UsedInTime
<1> QED BY <1>1, MemoryInvariant, PTL DEF Spec, JobUsedInTime

(* RoundsAccounted: no round is summarised and shown as well, or shown twice,
   and a round goes away only where the code drops it. *)
THEOREM RoundsCorrect == Spec => RoundsAccounted
<1>1. Inv /\ [Next]_vars =>
        [\A f \in Files :
           /\ NoRoundTwice(conv'[f])
           /\ ~(Shown(conv[f]) \subseteq Shown(conv'[f]))
                => \/ pc[f] \in {"compressing", "recompressing"} /\ conv'[f] = HeadOnly(conv[f])
                   \/ pc[f] = "apply" /\ ClosedJobPending /\ conv'[f] = jobs[pending].conv]_vars
  <2> SUFFICES ASSUME Inv, [Next]_vars, NEW f \in Files
               PROVE  NoRoundTwice(conv'[f]) /\ Accounted(f)
    BY DEF Accounted
  <2>1. conv'[f] \in Conv /\ Orderly(conv'[f]) /\ Accounted(f)
    BY ConvsStep DEF ConvsMove
  <2> DEFINE c == conv'[f]
  <2>2. ASSUME NEW i \in RoundsOf(c.tail), NEW j \in RoundsOf(c.tail),
               c.tail[i].id = c.tail[j].id
        PROVE  i = j
    <3> HIDE DEF c
    <3>1. i \in DOMAIN c.tail /\ j \in DOMAIN c.tail
          /\ c.tail[i].kind = "round" /\ c.tail[j].kind = "round"
      BY DEF RoundsOf
    <3>2. i \in Int /\ j \in Int  BY <2>1, <3>1, ConvFacts DEF c
    <3>3. ~(i < j) /\ ~(j < i)  BY <2>1, <2>2, <3>1 DEF Orderly, c
    <3> QED BY <3>2, <3>3
  <2> QED BY <2>1, <2>2 DEF NoRoundTwice, Orderly
<1> QED BY <1>1, MemoryInvariant, PTL DEF Spec, RoundsAccounted

(* TurnsPaired: whatever a conversation went through, the request built from it
   is one the providers accept, each call answered at once and nothing else
   answered; and so is the request after one more compression, which cuts
   between an entry and the next. *)
THEOREM TurnsCorrect == Spec => []TurnsPaired
<1>1. TypeOK => TurnsPaired
  <2> SUFFICES ASSUME TypeOK, NEW f \in Files
               PROVE  LET t    == conv[f].tail
                          ms   == Messages(t)
                          left == Frozen \o SubSeq(ms, PartitionMessages(ms) + 1, Len(ms))
                      IN  /\ left = Messages(SubSeq(t, CompressEnd(t) + 1, Len(t)))
                          /\ \A sent \in {ms, left} :
                               /\ AnthropicAccepts(BuildAnthropicParams(sent))
                               /\ OpenAIAccepts(BuildOpenAIParams(sent))
    BY DEF TurnsPaired
  <2> DEFINE t == conv[f].tail
             ms == Messages(t)
             left == Frozen \o SubSeq(ms, PartitionMessages(ms) + 1, Len(ms))
             t2 == SubSeq(t, CompressEnd(t) + 1, Len(t))
  <2>1. t \in Seq(Entry)  BY ConvFacts DEF TypeOK
  <2> HIDE DEF t
  <2>2. left = Messages(t2)  BY <2>1, CutLeaves
  <2>3. t2 \in Seq(Entry)  BY <2>1, KeepsTail
  <2> HIDE DEF t2, left, ms
  <2>4. AnthropicAccepts(BuildAnthropicParams(ms)) /\ OpenAIAccepts(BuildOpenAIParams(ms))
    BY <2>1, Accepted DEF ms
  <2>5. AnthropicAccepts(BuildAnthropicParams(left)) /\ OpenAIAccepts(BuildOpenAIParams(left))
    BY <2>2, <2>3, Accepted
  <2> QED BY <2>2, <2>4, <2>5 DEF t, ms, left, t2
<1> QED BY <1>1, TypeCorrect, PTL
==============================================================================
