---------------------------- MODULE AccessProofs ----------------------------
(***************************************************************************)
(* Proofs about the limiter of the proxies (RateLimit), for any keys,      *)
(* limits and window, and about the browser in front of them (Access).     *)
(*                                                                         *)
(* The limiter's bound rests on where a request stands in its bucket.  The *)
(* seats of one bucket are its requests, each taken once (SeatsAreSingle), *)
(* and the first of them fixes the bucket's end, so that it has aged out   *)
(* when the next bucket begins, and all of them have aged out when the     *)
(* next but one does (SeatsInOrder).  The requests of the last Window are  *)
(* therefore those of the present bucket and all but the first of the one  *)
(* before.                                                                 *)
(*                                                                         *)
(* What a page offers rests on where a role can come from: the stored user *)
(* follows the session that is known (RolesFollow).  That a text is stored *)
(* once rests on the form's flag: one submission is awaited at a time, no  *)
(* text has two in flight (SentOnce), and a text that can still be sent or *)
(* run has no row yet (RowsFollow).                                        *)
(***************************************************************************)
EXTENDS Access, FiniteSetTheorems, SequenceTheorems, TLAPS

(* The limiter *)


Placed(p) ==
    LET b == bucket[p.key]
    IN  /\ p.no \in 1..b.no
        /\ p.seat \in 1..Limit[p.key]
        /\ p.at <= now
        /\ p.no = b.no => p.seat <= b.count
        /\ p.no = b.no /\ p.seat = 1 => p.at + Window = b.resetAt
        /\ p.no < b.no => p.at + Window <= b.resetAt
        /\ p.no < b.no /\ p.seat = 1 => p.at + Window + Window <= b.resetAt
        /\ p.no + 1 < b.no => p.at + Window + Window <= b.resetAt

SeatsInOrder == \A p \in passed : Placed(p)

SeatsAreSingle ==
    \A p, q \in passed :
        p.key = q.key /\ p.no = q.no /\ p.seat = q.seat => p = q

BucketsAreFilled ==
    \A k \in Keys :
        /\ bucket[k].count <= Limit[k]
        /\ bucket[k].resetAt <= now + Window
        /\ bucket[k].no # 0 => bucket[k].count # 0

LimiterSound == LimitTypeOK /\ BucketsAreFilled /\ SeatsInOrder /\ SeatsAreSingle

-----------------------------------------------------------------------------
LEMMA InitIsSound == LimitInit => LimiterSound
BY LimitAssumption, WindowAssumption
   DEF LimitInit, LimiterSound, LimitTypeOK, Bucket, Passage, BucketsAreFilled,
       SeatsInOrder, SeatsAreSingle

\* A request is let through as the first of a new bucket or as the next of
\* the present one.
LEMMA NextBucketIsSound ==
  ASSUME LimiterSound, NEW k \in Keys, Ended(k), Take(k, NextBucket(k))
  PROVE  LimiterSound'
<1> DEFINE new == Seated(k, NextBucket(k))
<1>1. /\ now \in Nat /\ now' = now
      /\ bucket \in [Keys -> Bucket] /\ bucket[k] \in Bucket
      /\ Limit[k] \in Nat \ {0} /\ Window \in Nat \ {0}
  BY LimitAssumption, WindowAssumption DEF LimiterSound, LimitTypeOK, Take
<1>2. /\ bucket[k].no \in Nat /\ bucket[k].count \in Nat /\ bucket[k].resetAt \in Nat
      /\ NextBucket(k) = [count |-> 1, resetAt |-> now + Window, no |-> bucket[k].no + 1]
      /\ NextBucket(k) \in Bucket
  BY <1>1 DEF Bucket, NextBucket
<1>3. /\ bucket' = [bucket EXCEPT ![k] = NextBucket(k)]
      /\ passed' = passed \cup {new}
      /\ new = [key |-> k, no |-> bucket[k].no + 1, seat |-> 1, at |-> now]
      /\ new \in Passage
  BY <1>1, <1>2 DEF Take, Seated, Passage
<1>4. LimitTypeOK'
  BY <1>1, <1>2, <1>3 DEF LimiterSound, LimitTypeOK
<1>5. BucketsAreFilled'
  BY <1>1, <1>2, <1>3 DEF LimiterSound, BucketsAreFilled
<1>6. SeatsInOrder'
  <2> SUFFICES ASSUME NEW p \in passed'
               PROVE  Placed(p)'
    BY DEF SeatsInOrder
  <2>1. CASE p = new
    BY <2>1, <1>1, <1>2, <1>3 DEF Placed
  <2>2. CASE p \in passed /\ p.key # k
    <3>1. bucket'[p.key] = bucket[p.key] /\ Placed(p)
      BY <2>2, <1>1, <1>3 DEF LimiterSound, SeatsInOrder, LimitTypeOK, Passage
    <3> QED BY <3>1, <1>1 DEF Placed
  <2>3. CASE p \in passed /\ p.key = k
    <3>1. /\ p.no \in Nat /\ p.seat \in Nat /\ p.at \in Nat
          /\ Placed(p)
          /\ bucket'[k] = NextBucket(k)
      BY <2>3, <1>1, <1>3 DEF LimiterSound, SeatsInOrder, LimitTypeOK, Passage
    <3>2. bucket[k].resetAt <= now
      BY <3>1, <1>2, <2>3 DEF Ended, Placed
    <3>3. /\ p.no \in 1..bucket[k].no
          /\ p.seat \in 1..Limit[k]
          /\ p.at <= now
          /\ p.no = bucket[k].no /\ p.seat = 1 => p.at + Window = bucket[k].resetAt
          /\ p.no < bucket[k].no => p.at + Window <= bucket[k].resetAt
      BY <3>1, <2>3 DEF Placed
    <3>4. /\ p.no \in 1..(bucket[k].no + 1)
          /\ p.no # bucket[k].no + 1
          /\ p.at + Window <= now + Window
          /\ p.seat = 1 => p.at + Window + Window <= now + Window
          /\ p.no + 1 < bucket[k].no + 1 => p.at + Window + Window <= now + Window
      BY <3>1, <3>2, <3>3, <1>1, <1>2
    <3> QED BY <3>1, <3>3, <3>4, <2>3, <1>1, <1>2 DEF Placed
  <2> QED BY <2>1, <2>2, <2>3, <1>3
<1>7. SeatsAreSingle'
  <2>1. \A p \in passed : p.key = k => p.no # new.no
    BY <1>1, <1>2, <1>3 DEF LimiterSound, SeatsInOrder, Placed, LimitTypeOK, Passage
  <2> QED BY <2>1, <1>3 DEF LimiterSound, SeatsAreSingle
<1> QED BY <1>4, <1>5, <1>6, <1>7 DEF LimiterSound

LEMMA CountedIsSound ==
  ASSUME LimiterSound, NEW k \in Keys, ~Ended(k), HasRoom(k), Take(k, Counted(k))
  PROVE  LimiterSound'
<1> DEFINE new == Seated(k, Counted(k))
<1>1. /\ now \in Nat /\ now' = now
      /\ bucket \in [Keys -> Bucket] /\ bucket[k] \in Bucket
      /\ Limit[k] \in Nat \ {0} /\ Window \in Nat \ {0}
  BY LimitAssumption, WindowAssumption DEF LimiterSound, LimitTypeOK, Take
<1>2. /\ bucket[k].no \in Nat \ {0} /\ bucket[k].count \in Nat /\ bucket[k].resetAt \in Nat
      /\ Counted(k).no = bucket[k].no
      /\ Counted(k).count = bucket[k].count + 1
      /\ Counted(k).resetAt = bucket[k].resetAt
      /\ Counted(k) \in Bucket
      /\ bucket[k].count < Limit[k] /\ bucket[k].count # 0
  BY <1>1 DEF Bucket, Counted, Ended, HasRoom, LimiterSound, BucketsAreFilled
<1>3. /\ bucket' = [bucket EXCEPT ![k] = Counted(k)]
      /\ passed' = passed \cup {new}
      /\ new = [key |-> k, no |-> bucket[k].no, seat |-> bucket[k].count + 1, at |-> now]
      /\ new \in Passage
  BY <1>1, <1>2 DEF Take, Seated, Passage
<1>4. LimitTypeOK'
  BY <1>1, <1>2, <1>3 DEF LimiterSound, LimitTypeOK
<1>5. BucketsAreFilled'
  BY <1>1, <1>2, <1>3 DEF LimiterSound, BucketsAreFilled
<1>6. SeatsInOrder'
  <2> SUFFICES ASSUME NEW p \in passed'
               PROVE  Placed(p)'
    BY DEF SeatsInOrder
  <2>1. CASE p \in passed /\ p.key # k
    <3>1. bucket'[p.key] = bucket[p.key] /\ Placed(p)
      BY <2>1, <1>1, <1>3 DEF LimiterSound, SeatsInOrder, LimitTypeOK, Passage
    <3> QED BY <3>1, <1>1 DEF Placed
  <2>2. CASE p \in passed /\ p.key = k
    <3>1. /\ p.no \in Nat /\ p.seat \in Nat /\ p.at \in Nat
          /\ Placed(p)
          /\ bucket'[k] = Counted(k)
      BY <2>2, <1>1, <1>3 DEF LimiterSound, SeatsInOrder, LimitTypeOK, Passage
    <3> QED BY <3>1, <2>2, <1>1, <1>2 DEF Placed
  <2>3. CASE p = new
    BY <2>3, <1>1, <1>2, <1>3 DEF Placed
  <2> QED BY <2>1, <2>2, <2>3, <1>3
<1>7. SeatsAreSingle'
  <2>1. \A p \in passed : p.key = k /\ p.no = new.no => p.seat # new.seat
    BY <1>1, <1>2, <1>3 DEF LimiterSound, SeatsInOrder, Placed, LimitTypeOK, Passage
  <2> QED BY <2>1, <1>3 DEF LimiterSound, SeatsAreSingle
<1> QED BY <1>4, <1>5, <1>6, <1>7 DEF LimiterSound

LEMMA StepIsSound == LimiterSound /\ [LimitNext]_limitVars => LimiterSound'
<1> SUFFICES ASSUME LimiterSound, [LimitNext]_limitVars
             PROVE  LimiterSound'
  OBVIOUS
<1>1. CASE Tick
  <2>1. now \in Nat /\ now' = now + 1 /\ bucket' = bucket /\ passed' = passed
    BY <1>1 DEF Tick, LimiterSound, LimitTypeOK
  <2>2. LimitTypeOK' /\ SeatsAreSingle'
    BY <2>1 DEF LimiterSound, LimitTypeOK, SeatsAreSingle
  <2>3. BucketsAreFilled'
    BY <2>1, LimitAssumption, WindowAssumption
       DEF LimiterSound, LimitTypeOK, BucketsAreFilled, Bucket
  <2>4. SeatsInOrder'
    <3> SUFFICES ASSUME NEW p \in passed
                 PROVE  Placed(p)'
      BY <2>1 DEF SeatsInOrder
    <3>1. p.at \in Nat /\ Placed(p)
      BY DEF LimiterSound, SeatsInOrder, LimitTypeOK, Passage
    <3> QED BY <3>1, <2>1 DEF Placed
  <2> QED BY <2>2, <2>3, <2>4 DEF LimiterSound
<1>2. ASSUME NEW k \in Keys, Pass(k)
      PROVE  LimiterSound'
  BY <1>2, NextBucketIsSound, CountedIsSound DEF Pass
<1>3. CASE UNCHANGED limitVars
  BY <1>3 DEF limitVars, LimiterSound, LimitTypeOK, BucketsAreFilled, SeatsInOrder,
              SeatsAreSingle, Placed
<1> QED BY <1>1, <1>2, <1>3 DEF LimitNext

\* Every reachable state of the limiter is sound (memoryLimit).
THEOREM LimiterIsSound == LimitSpec => []LimiterSound
BY InitIsSound, StepIsSound, PTL DEF LimitSpec

-----------------------------------------------------------------------------
\* A request of the last Window has a seat in the present bucket, or one that
\* is not the first in the bucket before.
LEMMA RecentSeats ==
  ASSUME LimiterSound, NEW k \in Keys, NEW p \in Recent(k)
  PROVE  /\ p \in passed /\ p.key = k
         /\ p.no \in Nat /\ p.seat \in 1..Limit[k]
         /\ p.no = bucket[k].no \/ (p.no + 1 = bucket[k].no /\ p.seat # 1)
<1>1. /\ p \in passed /\ p.key = k /\ now < p.at + Window
      /\ p.no \in Nat /\ p.seat \in Nat /\ p.at \in Nat
      /\ now \in Nat /\ Window \in Nat
      /\ bucket[k].no \in Nat /\ bucket[k].resetAt \in Nat
  BY WindowAssumption DEF Recent, LimiterSound, LimitTypeOK, Passage, Bucket
<1>2. Placed(p) /\ bucket[k].resetAt <= now + Window
  BY <1>1 DEF LimiterSound, SeatsInOrder, BucketsAreFilled
<1> QED BY <1>1, <1>2 DEF Placed

LEMMA RecentIsSmall ==
  ASSUME LimiterSound, NEW k \in Keys
  PROVE  Cardinality(Recent(k)) < 2 * Limit[k]
<1> DEFINE most == Limit[k] + Limit[k] - 1
           place(p) == IF p.no = bucket[k].no THEN p.seat ELSE Limit[k] + p.seat - 1
           f == [p \in Recent(k) |-> place(p)]
<1>1. Limit[k] \in Nat \ {0} /\ most \in Nat /\ 1 <= most
  BY LimitAssumption
<1>2. \A p \in Recent(k) : place(p) \in 1..most
  BY <1>1, RecentSeats
<1>3. ASSUME NEW p \in Recent(k), NEW q \in Recent(k), place(p) = place(q)
      PROVE  p = q
  <2>1. /\ p \in passed /\ p.key = k /\ p.no \in Nat /\ p.seat \in 1..Limit[k]
        /\ p.no = bucket[k].no \/ (p.no + 1 = bucket[k].no /\ p.seat # 1)
    BY RecentSeats
  <2>2. /\ q \in passed /\ q.key = k /\ q.no \in Nat /\ q.seat \in 1..Limit[k]
        /\ q.no = bucket[k].no \/ (q.no + 1 = bucket[k].no /\ q.seat # 1)
    BY RecentSeats
  <2>3. bucket[k].no \in Nat
    BY DEF LimiterSound, LimitTypeOK, Bucket
  <2>4. p.no = q.no /\ p.seat = q.seat
    BY <2>1, <2>2, <2>3, <1>1, <1>3
  <2> QED BY <2>1, <2>2, <2>4 DEF LimiterSound, SeatsAreSingle
<1>4. f \in Injection(Recent(k), 1..most)
  <2>1. f \in [Recent(k) -> 1..most]
    BY <1>2
  <2>2. \A p, q \in Recent(k) : f[p] = f[q] => p = q
    BY <1>3
  <2> HIDE DEF f
  <2> QED BY <2>1, <2>2 DEF Injection, IsInjective
<1>5. IsFiniteSet(1..most) /\ Cardinality(1..most) = most
  <2> HIDE DEF most
  <2>1. 1 \in Int /\ most \in Int
    BY <1>1
  <2>2. /\ IsFiniteSet(1..most)
        /\ Cardinality(1..most) = IF 1 > most THEN 0 ELSE most - 1 + 1
    BY <2>1, FS_Interval, Zenon
  <2> QED BY <1>1, <2>2
<1>6. /\ Cardinality(Recent(k)) <= Cardinality(1..most)
      /\ IsFiniteSet(Recent(k))
  <2> HIDE DEF f, most
  <2> QED BY <1>4, <1>5, FS_Injection
<1>7. Cardinality(Recent(k)) \in Nat
  BY <1>6, FS_CardinalityType
<1> QED BY <1>1, <1>5, <1>6, <1>7

\* memoryLimit never lets twice the limit through in any window, whatever the
\* requests and their times, although two buckets may meet in it.
THEOREM WindowIsBounded == LimitSpec => []LessThanTwiceTheLimit
<1>1. LimiterSound => LessThanTwiceTheLimit
  BY RecentIsSmall DEF LessThanTwiceTheLimit
<1> QED BY <1>1, LimiterIsSound, PTL


-----------------------------------------------------------------------------
(* The browser *)

CallRecord ==
    [op : {"submit", "staff", "cms", "announcements"}, text : 0..MaxTexts,
     open : {"none", "cms", "backend"}, cookie : Roles,
     state : {"sent", "forwarded", "ok", "failed"}, left : BOOLEAN]

TabRecord ==
    [at : PublicForms \cup {"page", "login"}, known : Roles \cup {"unknown"},
     role : Roles, looked : BOOLEAN, leaving : BOOLEAN]

FormRecord ==
    [text : 0..MaxTexts, submitting : BOOLEAN, error : BOOLEAN, thanked : 0..MaxTexts,
     open : {"none", "cms", "backend"}]

\* The types of all the variables, those of the limiter apart.
Typed ==
    /\ cookie \in Roles
    /\ stored \in Roles
    /\ tab \in TabRecord
    /\ form \in FormRecord
    /\ calls \in Seq(CallRecord)
    /\ rows \in [Texts -> Nat]
    /\ doubt \subseteq Texts
    /\ typed \in 0..MaxTexts
    /\ sent \in 0..MaxCalls

\* A session that is known and has ended is a GUEST's; while it lasts, the
\* stored user is its own or nobody, and so is the role of a page that looked
\* it up since.
RolesFollow ==
    /\ tab.known = "GUEST" => cookie = "GUEST"
    /\ tab.known \in SessionRoles =>
        /\ cookie \in {tab.known, "GUEST"}
        /\ stored \in {tab.known, "GUEST"}
        /\ tab.at = "page" /\ tab.looked => tab.role \in {tab.known, "GUEST"}
    /\ tab.looked => tab.known # "unknown"

Submissions == {i \in DOMAIN calls : calls[i].op = "submit"}
Awaited == {i \in Submissions : ~calls[i].left}

\* At most one submission is awaited, and then the form shows it; no text has
\* two in flight, and none that is not awaited has the form's text.
SentOnce ==
    /\ \A i \in Submissions : calls[i].text \in 1..typed
    /\ \A i, j \in Submissions : calls[i].text = calls[j].text => i = j
    /\ \A i, j \in Awaited : i = j
    /\ Awaited # {} => form.submitting
    /\ form.text <= typed
    /\ \A i \in Submissions \ Awaited : calls[i].text # form.text

\* A text whose submission is still to run has no row; one that was answered
\* has; the text in the form has none unless its answer is on the way.
RowsFollow ==
    /\ \A t \in Texts : t > typed => rows[t] = 0
    /\ \A i \in Submissions :
        /\ calls[i].state \in {"sent", "forwarded"} /\ calls[i].text \notin doubt =>
               rows[calls[i].text] = 0
        /\ calls[i].state = "ok" => rows[calls[i].text] >= 1
    /\ form.text # 0 /\ form.text \notin doubt =>
        \/ rows[form.text] = 0
        \/ \E i \in Awaited : calls[i].text = form.text /\ calls[i].state = "ok"

AccessSound == Typed /\ RolesFollow /\ SentOnce /\ RowsFollow /\ StoredOnce

-----------------------------------------------------------------------------
(* The list of calls *)

Skip(i, j) == IF j < i THEN j ELSE j + 1

LEMMA Removed ==
  ASSUME NEW S, NEW s \in Seq(S), NEW i \in DOMAIN s
  PROVE  /\ RemoveAt(s, i) \in Seq(S)
         /\ \A j \in DOMAIN RemoveAt(s, i) :
                /\ Skip(i, j) \in DOMAIN s
                /\ RemoveAt(s, i)[j] = s[Skip(i, j)]
         /\ \A k \in DOMAIN s \ {i} :
                \E j \in DOMAIN RemoveAt(s, i) : Skip(i, j) = k
<1> DEFINE a == SubSeq(s, 1, i - 1)
           b == SubSeq(s, i + 1, Len(s))
<1>1. /\ Len(s) \in Nat /\ DOMAIN s = 1..Len(s) /\ i \in 1..Len(s)
      /\ \A j \in 1..Len(s) : s[j] \in S
  BY LenProperties, ElementOfSeq
<1>2. /\ a \in Seq(S) /\ Len(a) = i - 1
      /\ \A j \in 1..(i - 1) : a[j] = s[j]
  BY <1>1
<1>3. /\ b \in Seq(S) /\ Len(b) = Len(s) - i
      /\ \A j \in 1..(Len(s) - i) : b[j] = s[i + j]
  <2>1. i + 1 \in Int /\ Len(s) \in Int /\ \A j \in (i + 1)..Len(s) : s[j] \in S
    BY <1>1
  <2>2. /\ b \in Seq(S)
        /\ Len(b) = IF i + 1 <= Len(s) THEN Len(s) - (i + 1) + 1 ELSE 0
        /\ \A j \in 1..(Len(s) - (i + 1) + 1) : b[j] = s[(i + 1) + j - 1]
    BY <2>1, SubSeqProperties
  <2>3. \A j \in 1..(Len(s) - i) : j \in 1..(Len(s) - (i + 1) + 1) /\ (i + 1) + j - 1 = i + j
    BY <1>1
  <2> QED BY <1>1, <2>2, <2>3
<1> HIDE DEF a, b
<1>4. /\ RemoveAt(s, i) \in Seq(S)
      /\ Len(RemoveAt(s, i)) = Len(s) - 1
      /\ \A j \in 1..(Len(s) - 1) :
            RemoveAt(s, i)[j] = IF j <= i - 1 THEN a[j] ELSE b[j - (i - 1)]
  <2>1. RemoveAt(s, i) = a \o b
    BY DEF RemoveAt, a, b
  <2>2. /\ a \o b \in Seq(S)
        /\ Len(a \o b) = Len(a) + Len(b)
        /\ \A j \in 1..(Len(a) + Len(b)) :
              (a \o b)[j] = IF j <= Len(a) THEN a[j] ELSE b[j - Len(a)]
    BY <1>2, <1>3, ConcatProperties
  <2> QED BY <1>1, <1>2, <1>3, <2>1, <2>2
<1>5. DOMAIN RemoveAt(s, i) = 1..(Len(s) - 1)
  BY <1>1, <1>4, LenProperties
<1>6. \A j \in DOMAIN RemoveAt(s, i) :
         Skip(i, j) \in DOMAIN s /\ RemoveAt(s, i)[j] = s[Skip(i, j)]
  <2> SUFFICES ASSUME NEW j \in 1..(Len(s) - 1)
               PROVE  Skip(i, j) \in DOMAIN s /\ RemoveAt(s, i)[j] = s[Skip(i, j)]
    BY <1>5
  <2>1. CASE j < i
    <3>1. j \in 1..(i - 1) /\ j <= i - 1 /\ Skip(i, j) = j /\ j \in DOMAIN s
      BY <1>1, <2>1 DEF Skip
    <3>2. RemoveAt(s, i)[j] = a[j] /\ a[j] = s[j]
      BY <1>2, <1>4, <3>1
    <3> QED BY <3>1, <3>2
  <2>2. CASE ~(j < i)
    <3>1. /\ j - (i - 1) \in 1..(Len(s) - i) /\ i + (j - (i - 1)) = j + 1
          /\ ~(j <= i - 1) /\ Skip(i, j) = j + 1 /\ j + 1 \in DOMAIN s
      BY <1>1, <2>2 DEF Skip
    <3>2. RemoveAt(s, i)[j] = b[j - (i - 1)] /\ b[j - (i - 1)] = s[i + (j - (i - 1))]
      BY <1>3, <1>4, <3>1
    <3> QED BY <3>1, <3>2
  <2> QED BY <2>1, <2>2
<1>7. ASSUME NEW k \in DOMAIN s \ {i}
      PROVE  \E j \in DOMAIN RemoveAt(s, i) : Skip(i, j) = k
  <2>1. CASE k < i
    <3>1. k \in DOMAIN RemoveAt(s, i) /\ Skip(i, k) = k
      BY <1>1, <1>5, <2>1 DEF Skip
    <3> QED BY <3>1
  <2>2. CASE k > i
    <3>1. k - 1 \in DOMAIN RemoveAt(s, i) /\ Skip(i, k - 1) = k
      BY <1>1, <1>5, <2>2 DEF Skip
    <3> QED BY <3>1
  <2> QED BY <1>1, <2>1, <2>2
<1> QED BY <1>4, <1>6, <1>7

LEMMA Appended ==
  ASSUME NEW S, NEW s \in Seq(S), NEW e \in S
  PROVE  /\ Append(s, e) \in Seq(S)
         /\ Len(s) \in Nat /\ DOMAIN s = 1..Len(s)
         /\ DOMAIN Append(s, e) = 1..(Len(s) + 1)
         /\ \A j \in DOMAIN s : Append(s, e)[j] = s[j]
         /\ Append(s, e)[Len(s) + 1] = e
BY AppendProperties, LenProperties

LEMMA RequestTyped ==
  ASSUME Typed, NEW op \in {"submit", "staff", "cms", "announcements"},
         NEW text \in 0..MaxTexts
  PROVE  /\ Request(op, text) \in CallRecord
         /\ Request(op, text).op = op
         /\ Request(op, text).text = text
         /\ Request(op, text).state = "sent"
         /\ ~Request(op, text).left
BY DEF Typed, Request, CallRecord, FormRecord

LEMMA CallsTyped ==
  ASSUME Typed
  PROVE  /\ Len(calls) \in Nat /\ DOMAIN calls = 1..Len(calls)
         /\ \A i \in DOMAIN calls : calls[i] \in CallRecord
         /\ Left \in Seq(CallRecord) /\ DOMAIN Left = DOMAIN calls
         /\ \A i \in DOMAIN calls :
               Left[i] = [calls[i] EXCEPT !.left = TRUE]
<1>1. /\ Len(calls) \in Nat /\ DOMAIN calls = 1..Len(calls)
      /\ \A i \in DOMAIN calls : calls[i] \in CallRecord
  BY LenProperties, ElementOfSeq DEF Typed
<1>2. \A i \in DOMAIN calls : [calls[i] EXCEPT !.left = TRUE] \in CallRecord
  BY <1>1 DEF CallRecord
<1>3. Left \in [1..Len(calls) -> CallRecord]
  BY <1>1, <1>2 DEF Left
<1> QED BY <1>1, <1>3, SeqDef DEF Left

\* What the page sends when it opens.
LEMMA Opened ==
  ASSUME Typed, NEW s, s = <<>> \/ \E c \in CallRecord : s = <<c>> /\ c.op # "submit"
  PROVE  /\ Left \o s \in Seq(CallRecord)
         /\ \A j \in DOMAIN (Left \o s) : (Left \o s)[j].op = "submit" =>
                j \in DOMAIN calls /\ (Left \o s)[j] = [calls[j] EXCEPT !.left = TRUE]
<1>1. s \in Seq(CallRecord) /\ Len(s) \in Nat /\ DOMAIN s = 1..Len(s)
      /\ \A j \in 1..Len(s) : s[j].op # "submit"
  <2>1. CASE s = <<>>
    BY <2>1
  <2>2. ASSUME NEW c \in CallRecord, s = <<c>>, c.op # "submit"
        PROVE  /\ s \in Seq(CallRecord) /\ Len(s) = 1 /\ s[1] = c
    BY <2>2
  <2>3. CASE \E c \in CallRecord : s = <<c>> /\ c.op # "submit"
    BY <2>2, <2>3, LenProperties
  <2> QED BY <2>1, <2>3
<1>2. /\ Left \o s \in Seq(CallRecord)
      /\ Len(Left \o s) = Len(Left) + Len(s)
      /\ \A i \in 1 .. Len(Left) + Len(s) :
            (Left \o s)[i] = IF i <= Len(Left) THEN Left[i] ELSE s[i - Len(Left)]
  BY <1>1, CallsTyped, ConcatProperties
<1>3. /\ DOMAIN (Left \o s) = 1 .. Len(Left) + Len(s)
      /\ Len(Left) \in Nat /\ DOMAIN calls = 1..Len(Left)
  BY <1>1, <1>2, CallsTyped, LenProperties
<1> SUFFICES ASSUME NEW j \in 1 .. Len(Left) + Len(s), (Left \o s)[j].op = "submit"
             PROVE  j \in DOMAIN calls /\ (Left \o s)[j] = [calls[j] EXCEPT !.left = TRUE]
  BY <1>2, <1>3
<1>4. CASE j <= Len(Left)
  BY <1>2, <1>3, <1>4, CallsTyped
<1>5. CASE ~(j <= Len(Left))
  <2>1. j - Len(Left) \in 1..Len(s) /\ (Left \o s)[j] = s[j - Len(Left)]
    BY <1>2, <1>3, <1>5, <1>1
  <2> QED BY <2>1, <1>1
<1> QED BY <1>4, <1>5

\* SetState touches one call or takes it off.
LEMMA StateSet ==
  ASSUME Typed, NEW i \in DOMAIN calls, NEW state \in {"forwarded", "ok", "failed"},
         SetState(i, state)
  PROVE  \/ /\ calls' = [calls EXCEPT ![i] = [calls[i] EXCEPT !.state = state]]
            /\ calls' \in Seq(CallRecord) /\ DOMAIN calls' = DOMAIN calls
            /\ \A j \in DOMAIN calls \ {i} : calls'[j] = calls[j]
            /\ calls'[i] = [calls[i] EXCEPT !.state = state]
         \/ /\ calls[i].op # "submit"
            /\ calls' = RemoveAt(calls, i)
            /\ calls' \in Seq(CallRecord)
<1>1. /\ Len(calls) \in Nat /\ DOMAIN calls = 1..Len(calls) /\ calls \in Seq(CallRecord)
      /\ calls[i] \in CallRecord
      /\ [calls[i] EXCEPT !.state = state] \in CallRecord
  BY CallsTyped DEF Typed, CallRecord
<1>2. /\ [calls EXCEPT ![i] = [calls[i] EXCEPT !.state = state]] \in Seq(CallRecord)
  BY <1>1, ExceptSeq
<1>3. CASE Heard(calls[i])
  BY <1>1, <1>2, <1>3 DEF SetState
<1>4. CASE ~Heard(calls[i])
  BY <1>1, <1>4, Removed DEF SetState, Heard
<1> QED BY <1>3, <1>4

-----------------------------------------------------------------------------
(* Types *)

LEMMA InitTyped == Init => Typed
BY BrowserAssumption
   DEF Init, Typed, Roles, TabRecord, FormRecord, PublicForms, BlankForm

\* The steps of the proxies and the upstream, and the answers.
LEMMA CallStepTyped ==
  ASSUME Typed, SentOnce, NEW i \in DOMAIN calls,
         ProxyRefuses(i) \/ ProxyForwards(i) \/ Runs(i) \/ Fails(i) \/ AnswerArrives(i)
  PROVE  Typed'
<1>1. calls[i] \in CallRecord /\ calls \in Seq(CallRecord)
  BY CallsTyped DEF Typed
<1>2. CASE ProxyRefuses(i) \/ ProxyForwards(i) \/ Fails(i)
  <2>1. \E state \in {"forwarded", "ok", "failed"} : SetState(i, state)
    BY <1>2 DEF ProxyRefuses, ProxyForwards, Fails
  <2>2. calls' \in Seq(CallRecord)
    BY <2>1, <1>1, StateSet, Removed
  <2> QED BY <2>2, <1>2 DEF ProxyRefuses, ProxyForwards, Fails, Browsing, Typed
<1>3. CASE Runs(i)
  <2>1. PICK state \in {"ok", "failed"} :
           /\ SetState(i, state)
           /\ IF calls[i].op = "submit"
              THEN /\ rows' = [rows EXCEPT ![calls[i].text] = @ + 1]
                   /\ doubt' = doubt \cup {t \in {calls[i].text} : state = "failed"}
              ELSE UNCHANGED <<rows, doubt>>
    BY <1>3 DEF Runs
  <2>2. calls' \in Seq(CallRecord)
    BY <2>1, <1>1, StateSet, Removed
  <2>3. CASE calls[i].op = "submit"
    <3>1. rows' \in [Texts -> Nat]
      BY <2>1, <2>3, <1>1 DEF Typed
    <3>2. calls[i].text \in Texts
      BY <2>3, BrowserAssumption DEF Typed, SentOnce, Submissions, Texts
    <3>3. {t \in {calls[i].text} : state = "failed"} \subseteq {calls[i].text}
      OBVIOUS
    <3>4. doubt' \subseteq Texts
      BY <2>1, <2>3, <3>2, <3>3 DEF Typed
    <3> QED BY <3>1, <3>4, <2>2, <1>3 DEF Runs, Browsing, Typed
  <2>4. CASE calls[i].op # "submit"
    BY <2>4, <2>2, <2>1, <1>3 DEF Runs, Browsing, Typed
  <2> QED BY <2>3, <2>4
<1>4. CASE AnswerArrives(i)
  <2>1. CASE FormAnswered(i)
    <3>1. calls[i].text \in 0..MaxTexts /\ form \in FormRecord /\ 0 \in 0..MaxTexts
      BY <1>1, BrowserAssumption DEF CallRecord, Typed
    <3>2. Blanked(form, calls[i].text) \in FormRecord
      BY <3>1 DEF Blanked, FormRecord
    <3>3. [form EXCEPT !.error = TRUE, !.submitting = FALSE] \in FormRecord
      BY <3>1 DEF FormRecord
    <3>4. form' \in FormRecord
      BY <2>1, <3>2, <3>3 DEF FormAnswered
    <3> QED BY <3>4, <2>1, <1>1, Removed DEF FormAnswered, Arrive, Typed
  <2>2. CASE AnnouncementsAnswered(i)
    <3>1. form' \in FormRecord
      BY <2>2, <1>1 DEF AnnouncementsAnswered, FormRecord, Typed
    <3>2. calls' \in Seq(CallRecord)
      <4>1. RemoveAt(calls, i) \in Seq(CallRecord)
        BY <1>1, Removed
      <4>2. Request("announcements", 0) \in CallRecord
        BY RequestTyped, BrowserAssumption
      <4> QED BY <4>1, <4>2, <2>2, AppendProperties DEF AnnouncementsAnswered
    <3> QED BY <3>1, <3>2, <2>2 DEF AnnouncementsAnswered, Arrive, Typed
  <2>3. CASE calls' = RemoveAt(calls, i) /\ form' = form /\ Arrive
    BY <2>3, <1>1, Removed DEF Arrive, Typed
  <2> QED BY <2>1, <2>2, <2>3, <1>4 DEF AnswerArrives
<1> QED BY <1>2, <1>3, <1>4

LEMMA OnTyped ==
  ASSUME NEW at \in PublicForms \cup {"page", "login"},
         NEW known \in Roles \cup {"unknown"}, NEW role \in Roles
  PROVE  On(at, known, role) \in TabRecord
BY DEF On, TabRecord, Roles

LEMMA StepTyped == Typed /\ SentOnce /\ [Next]_vars => Typed'
<1> SUFFICES ASSUME Typed, SentOnce, [Next]_vars
             PROVE  Typed'
  OBVIOUS
<1> USE BrowserAssumption
<1>1. /\ \A op \in {"submit", "staff", "cms", "announcements"} : \A text \in 0..MaxTexts :
            Request(op, text) \in CallRecord
      /\ 0 \in 0..MaxTexts
      /\ calls \in Seq(CallRecord) /\ sent \in 0..MaxCalls
  BY RequestTyped DEF Typed
<1>2. BlankForm \in FormRecord
  BY DEF BlankForm, FormRecord
<1>3. ASSUME NEW at \in PublicForms \cup {"page", "login"}, Visit(at)
      PROVE  Typed'
  <2>1. /\ sent' \in 0..MaxCalls
        /\ cookie' = cookie /\ stored' = stored /\ form' = BlankForm
        /\ UNCHANGED <<rows, doubt, typed>>
    BY <1>3, <1>1 DEF Visit, Opens
  <2>2. tab' \in TabRecord
    <3>1. tab' \in {Loaded(at, stored), Followed(at)}
      BY <1>3 DEF Visit, Opens
    <3>2. stored \in Roles /\ tab.known \in Roles \cup {"unknown"}
      BY DEF Typed, TabRecord
    <3> QED BY <3>1, <3>2, OnTyped DEF Loaded, Followed
  <2>3. calls' \in Seq(CallRecord)
    <3>1. PICK how : Opens(at, how)
      BY <1>3 DEF Visit
    <3> DEFINE s == CASE at = "page" -> <<Request("staff", 0)>>
                      [] at = "register" -> <<Request("cms", 0)>>
                      [] OTHER -> <<>>
    <3>2. s = <<>> \/ \E c \in CallRecord : s = <<c>> /\ c.op # "submit"
      BY <1>1, RequestTyped
    <3>3. calls' = Left \o s
      BY <3>1 DEF Opens
    <3> HIDE DEF s
    <3> QED BY <3>2, <3>3, Opened
  <2> QED BY <2>1, <2>2, <2>3, <1>2 DEF Typed
<1>4. ASSUME NEW role \in SessionRoles, SignIn(role)
      PROVE  Typed'
  <2>1. /\ sent' \in 0..MaxCalls
        /\ cookie' = role /\ stored' \in Roles /\ form' = BlankForm
        /\ UNCHANGED <<rows, doubt, typed>>
    BY <1>4, <1>1 DEF SignIn, SessionRoles, Roles
  <2>2. tab' \in TabRecord
    BY <1>4, <2>1, OnTyped DEF SignIn, Loaded
  <2>3. [Request("staff", 0) EXCEPT !.cookie = role] \in CallRecord
    <3>1. Request("staff", 0) \in CallRecord /\ role \in Roles
      BY <1>1 DEF SessionRoles, Roles
    <3> QED BY <3>1 DEF CallRecord
  <2>4. calls' \in Seq(CallRecord)
    BY <2>3, <1>4, CallsTyped, AppendProperties DEF SignIn
  <2> QED BY <2>1, <2>2, <2>4, <1>2 DEF Typed, SessionRoles, Roles
<1>5. CASE SessionArrives
  BY <1>5 DEF SessionArrives, StoresSession, Typed, TabRecord
<1>6. CASE LookAgain
  <2>1. calls' \in Seq(CallRecord) /\ sent' \in 0..MaxCalls
    BY <1>6, <1>1, AppendProperties DEF LookAgain, Ask
  <2> QED BY <1>6, <2>1 DEF LookAgain, Followed, On, Typed, TabRecord, Roles
<1>7. CASE ForgetUser
  BY <1>7 DEF ForgetUser, Typed, TabRecord, Roles
<1>8. CASE SignedOut
  BY <1>8, <1>2, CallsTyped DEF SignedOut, Loaded, On, Typed, TabRecord, Roles
<1>9. CASE SessionExpires
  BY <1>9 DEF SessionExpires, Typed, Roles
<1>10. CASE Type
  BY <1>10 DEF Type, Typed, FormRecord
<1>11. CASE SubmitDonation \/ SendEnquiry \/ SubmitRegistration
  <2>1. /\ calls' = Append(calls, Request("submit", form.text))
        /\ sent < MaxCalls /\ sent' = sent + 1
        /\ UNCHANGED <<cookie, stored, tab, rows, doubt, typed>>
    BY <1>11 DEF SubmitDonation, SendEnquiry, SubmitRegistration, Ask
  <2>2. form' \in FormRecord /\ form.text \in 0..MaxTexts
    <3>1. form \in FormRecord /\ 0 \in 0..MaxTexts
      BY DEF Typed
    <3>2. form' = Sending(form) \/ form' = [Sending(form) EXCEPT !.thanked = 0]
      BY <1>11 DEF SubmitDonation, SendEnquiry, SubmitRegistration
    <3>3. Sending(form) \in FormRecord
      BY <3>1 DEF Sending, FormRecord
    <3>4. [Sending(form) EXCEPT !.thanked = 0] \in FormRecord
      BY <3>1, <3>3 DEF FormRecord
    <3> QED BY <3>1, <3>2, <3>3, <3>4 DEF FormRecord
  <2>3. calls' \in Seq(CallRecord) /\ sent' \in 0..MaxCalls
    BY <2>1, <2>2, <1>1, AppendProperties
  <2> QED BY <2>1, <2>2, <2>3 DEF Typed
<1>12. CASE InvalidDonation
  BY <1>12 DEF InvalidDonation, Typed, FormRecord
<1>13. CASE Clock
  BY <1>13 DEF Clock, Typed
<1>14. CASE UNCHANGED vars
  BY <1>14 DEF vars, Typed
<1> QED BY <1>3, <1>4, <1>5, <1>6, <1>7, <1>8, <1>9, <1>10, <1>11, <1>12, <1>13, <1>14,
           CallStepTyped DEF Next

-----------------------------------------------------------------------------
(* Roles *)

LEMMA StepRoles == Typed /\ RolesFollow /\ [Next]_vars => RolesFollow'
<1> SUFFICES ASSUME Typed, RolesFollow, [Next]_vars
             PROVE  RolesFollow'
  OBVIOUS
<1>1. ASSUME NEW at \in PublicForms \cup {"page", "login"}, Visit(at)
      PROVE  RolesFollow'
  <2>1. cookie' = cookie /\ stored' = stored /\ tab' \in {Loaded(at, stored), Followed(at)}
    BY <1>1 DEF Visit, Opens
  <2>2. CASE tab' = Loaded(at, stored)
    BY <2>1, <2>2 DEF Loaded, On, RolesFollow, SessionRoles
  <2>3. CASE tab' = Followed(at)
    BY <2>1, <2>3 DEF Followed, On, RolesFollow
  <2> QED BY <2>1, <2>2, <2>3
<1>2. ASSUME NEW role \in SessionRoles, SignIn(role)
      PROVE  RolesFollow'
  BY <1>2 DEF SignIn, Loaded, On, RolesFollow, SessionRoles
<1>3. CASE SessionArrives
  BY <1>3 DEF SessionArrives, StoresSession, RolesFollow, Typed, TabRecord, Roles, SessionRoles
<1>4. CASE LookAgain
  BY <1>4 DEF LookAgain, Followed, On, RolesFollow, Typed, TabRecord, Roles, SessionRoles
<1>5. CASE ForgetUser
  BY <1>5 DEF ForgetUser, RolesFollow, Typed, TabRecord
<1>6. CASE SignedOut
  BY <1>6 DEF SignedOut, Loaded, On, RolesFollow, SessionRoles
<1>7. CASE SessionExpires
  BY <1>7 DEF SessionExpires, RolesFollow
<1>8. CASE UNCHANGED <<cookie, stored, tab>>
  BY <1>8 DEF RolesFollow
<1>9. CASE \/ Type \/ SubmitDonation \/ InvalidDonation \/ SendEnquiry
           \/ SubmitRegistration \/ Clock \/ UNCHANGED vars
  BY <1>8, <1>9 DEF Type, SubmitDonation, InvalidDonation, SendEnquiry,
                    SubmitRegistration, Clock, vars
<1>10. ASSUME NEW i \in DOMAIN calls,
              \/ ProxyRefuses(i) \/ ProxyForwards(i) \/ Runs(i)
              \/ Fails(i) \/ AnswerArrives(i)
       PROVE  RolesFollow'
  BY <1>8, <1>10 DEF ProxyRefuses, ProxyForwards, Runs, Fails, AnswerArrives, FormAnswered,
                     AnnouncementsAnswered, Browsing, Arrive
<1> QED BY <1>1, <1>2, <1>3, <1>4, <1>5, <1>6, <1>7, <1>9, <1>10 DEF Next

-----------------------------------------------------------------------------
(* Submissions *)

\* m finds each submission of the next state among those of this one: it may
\* have been left with its form, forwarded or failed meanwhile.
Carried(m) ==
    /\ \A j \in Submissions' :
        LET k == m[j]
        IN  /\ k \in Submissions
            /\ calls'[j].text = calls[k].text
            /\ calls[k].left => calls'[j].left
            /\ calls'[j].left => calls[k].left \/ form'.text = 0
            /\ calls'[j].state = "ok" => calls[k].state = "ok"
            /\ calls'[j].state \in {"sent", "forwarded"} =>
                   calls[k].state \in {"sent", "forwarded"}
    /\ \A j, l \in Submissions' : m[j] = m[l] => j = l

\* A step that sends no submission and runs none.
LEMMA CarriedKeeps ==
  ASSUME Typed, SentOnce, RowsFollow, NEW m, Carried(m),
         UNCHANGED <<rows, doubt, typed>>,
         form'.text \in {0, form.text},
         Awaited' # {} => form'.submitting,
         form'.text # 0 =>
            \A i \in Awaited : calls[i].state = "ok" =>
                \E j \in Awaited' : calls'[j].text = calls[i].text /\ calls'[j].state = "ok"
  PROVE  SentOnce' /\ RowsFollow'
<1>1. typed \in Nat /\ form.text \in Nat
  BY DEF Typed, FormRecord
<1>2. \A i \in Submissions : calls[i].text \in 1..typed
  BY DEF SentOnce
<1>3. \A j \in Awaited' : m[j] \in Awaited
  BY DEF Carried, Awaited
<1>4. SentOnce'
  <2>1. \A i \in Submissions' : calls'[i].text \in 1..typed'
    BY <1>2 DEF Carried
  <2>2. \A i, j \in Submissions' : calls'[i].text = calls'[j].text => i = j
    BY DEF Carried, SentOnce
  <2>3. \A i, j \in Awaited' : i = j
    BY <1>3 DEF Carried, SentOnce, Awaited
  <2>4. form'.text <= typed'
    BY <1>1 DEF SentOnce
  <2>5. \A i \in Submissions' \ Awaited' : calls'[i].text # form'.text
    <3> SUFFICES ASSUME NEW i \in Submissions' \ Awaited', calls'[i].text = form'.text
                 PROVE  FALSE
      OBVIOUS
    <3>1. m[i] \in Submissions /\ calls[m[i]].text = form'.text
      BY DEF Carried
    <3>2. form'.text = form.text
      BY <3>1, <1>1, <1>2
    <3>3. m[i] \notin Awaited
      BY <3>1, <1>1, <1>2 DEF Carried, Awaited
    <3> QED BY <3>1, <3>2, <3>3 DEF SentOnce
  <2> QED BY <2>1, <2>2, <2>3, <2>4, <2>5 DEF SentOnce
<1>5. RowsFollow'
  BY DEF Carried, RowsFollow
<1> QED BY <1>4, <1>5

\* The page that opens leaves every call.
LEMMA OpeningKeeps ==
  ASSUME Typed, SentOnce, RowsFollow, UNCHANGED <<rows, doubt, typed>>, form' = BlankForm,
         \A j \in Submissions' :
             j \in DOMAIN calls /\ calls'[j] = [calls[j] EXCEPT !.left = TRUE]
  PROVE  SentOnce' /\ RowsFollow'
<1> DEFINE m == [j \in Submissions' |-> j]
<1>1. \A j \in Submissions' :
         /\ m[j] = j /\ j \in Submissions /\ calls'[j].left
         /\ calls'[j].text = calls[j].text /\ calls'[j].state = calls[j].state
  BY CallsTyped DEF Submissions, CallRecord
<1>2. Awaited' = {} /\ form'.text = 0
  BY <1>1 DEF Awaited, BlankForm
<1>3. Carried(m)
  BY <1>1, <1>2 DEF Carried
<1> HIDE DEF m
<1> QED BY <1>2, <1>3, CarriedKeeps

\* An answer takes its call off; another one may be sent.
LEMMA RemovalKeeps ==
  ASSUME Typed, SentOnce, RowsFollow, UNCHANGED <<rows, doubt, typed>>,
         NEW i \in DOMAIN calls,
         \/ calls' = RemoveAt(calls, i)
         \/ \E c \in CallRecord : c.op # "submit" /\ calls' = Append(RemoveAt(calls, i), c),
         form'.text \in {0, form.text},
         i \in Awaited => form'.text = 0 \/ calls[i].state # "ok",
         i \notin Awaited => form'.submitting = form.submitting
  PROVE  SentOnce' /\ RowsFollow'
<1> DEFINE R == RemoveAt(calls, i)
           m == [j \in Submissions' |-> Skip(i, j)]
<1>1. /\ R \in Seq(CallRecord) /\ Len(R) \in Nat /\ DOMAIN R = 1..Len(R)
      /\ \A j \in DOMAIN R : Skip(i, j) \in DOMAIN calls /\ R[j] = calls[Skip(i, j)]
      /\ \A k \in DOMAIN calls \ {i} : \E j \in DOMAIN R : Skip(i, j) = k
  BY Removed, LenProperties DEF Typed
<1>2. i \in Nat
  BY CallsTyped
<1>3. /\ \A j \in DOMAIN R : j \in DOMAIN calls' /\ calls'[j] = R[j]
      /\ \A j \in Submissions' : j \in DOMAIN R
  <2>1. CASE calls' = R
    BY <2>1 DEF Submissions
  <2>2. ASSUME NEW c \in CallRecord, c.op # "submit", calls' = Append(R, c)
        PROVE  /\ \A j \in DOMAIN R : j \in DOMAIN calls' /\ calls'[j] = R[j]
               /\ \A j \in Submissions' : j \in DOMAIN R
    <3>1. /\ DOMAIN calls' = 1..(Len(R) + 1)
          /\ \A j \in 1..Len(R) : calls'[j] = R[j]
          /\ calls'[Len(R) + 1] = c
      <4> HIDE DEF R
      <4> QED BY <1>1, <2>2, Appended
    <3> HIDE DEF R
    <3> QED BY <3>1, <1>1, <2>2 DEF Submissions
  <2> QED BY <2>1, <2>2
<1>4. \A j \in DOMAIN R : Skip(i, j) # i
  BY <1>1, <1>2 DEF Skip
<1>5. \A j \in Submissions' :
         /\ m[j] \in Submissions /\ calls'[j] = calls[m[j]] /\ m[j] # i
  BY <1>1, <1>3, <1>4 DEF Submissions
<1>6. \A j, l \in Submissions' : m[j] = m[l] => j = l
  <2>1. \A j, l \in DOMAIN R : Skip(i, j) = Skip(i, l) => j = l
    <3> HIDE DEF R
    <3> QED BY <1>1, <1>2 DEF Skip
  <2> QED BY <2>1, <1>3
<1>7. Carried(m)
  BY <1>5, <1>6 DEF Carried
<1>8. \A k \in Awaited \ {i} : \E j \in Awaited' : calls'[j] = calls[k]
  BY <1>1, <1>3 DEF Awaited, Submissions
<1>9. Awaited' # {} => form'.submitting
  <2>1. \A j \in Awaited' : m[j] \in Awaited /\ m[j] # i
    BY <1>5 DEF Awaited
  <2> QED BY <2>1 DEF SentOnce
<1>10. form'.text # 0 =>
          \A k \in Awaited : calls[k].state = "ok" =>
              \E j \in Awaited' : calls'[j].text = calls[k].text /\ calls'[j].state = "ok"
  BY <1>8
<1> HIDE DEF m
<1> QED BY <1>7, <1>9, <1>10, CarriedKeeps

\* A call is forwarded, refused or lost, or one that is no submission is run.
LEMMA StateKeeps ==
  ASSUME Typed, SentOnce, RowsFollow, UNCHANGED <<rows, doubt, typed, form>>,
         NEW i \in DOMAIN calls, NEW state \in {"forwarded", "ok", "failed"},
         calls[i].state \in {"sent", "forwarded"},
         calls[i].op = "submit" => state # "ok",
         SetState(i, state)
  PROVE  SentOnce' /\ RowsFollow'
<1>1. CASE /\ calls' = [calls EXCEPT ![i] = [calls[i] EXCEPT !.state = state]]
           /\ calls' \in Seq(CallRecord) /\ DOMAIN calls' = DOMAIN calls
           /\ \A j \in DOMAIN calls \ {i} : calls'[j] = calls[j]
           /\ calls'[i] = [calls[i] EXCEPT !.state = state]
  <2> DEFINE m == [j \in Submissions' |-> j]
  <2>1. \A j \in DOMAIN calls :
           /\ calls[j] \in CallRecord
           /\ calls'[j].op = calls[j].op /\ calls'[j].text = calls[j].text
           /\ calls'[j].left = calls[j].left
           /\ j # i => calls'[j].state = calls[j].state
           /\ calls'[i].state = state
    BY <1>1, CallsTyped DEF CallRecord
  <2>2. Submissions' = Submissions /\ Awaited' = Awaited
    BY <1>1, <2>1 DEF Submissions, Awaited
  <2>3. Submissions \subseteq DOMAIN calls /\ Awaited \subseteq Submissions
    BY DEF Submissions, Awaited
  <2>4. Carried(m)
    <3> SUFFICES ASSUME NEW j \in Submissions
                 PROVE  /\ calls'[j].text = calls[j].text
                        /\ calls'[j].left = calls[j].left
                        /\ calls'[j].state = "ok" => calls[j].state = "ok"
                        /\ calls'[j].state \in {"sent", "forwarded"} =>
                               calls[j].state \in {"sent", "forwarded"}
      BY <2>2 DEF Carried
    <3> QED BY <2>1, <2>3 DEF Submissions
  <2>5. Awaited' # {} => form'.submitting
    BY <2>2 DEF SentOnce
  <2>6. \A k \in Awaited : calls[k].state = "ok" =>
            \E j \in Awaited' : calls'[j].text = calls[k].text /\ calls'[j].state = "ok"
    BY <2>1, <2>2, <2>3
  <2> HIDE DEF m
  <2> QED BY <2>4, <2>5, <2>6, CarriedKeeps
<1>2. CASE calls[i].op # "submit" /\ calls' = RemoveAt(calls, i)
  <2>1. i \notin Awaited
    BY <1>2 DEF Awaited, Submissions
  <2> QED BY <1>2, <2>1, RemovalKeeps
<1> QED BY <1>1, <1>2, StateSet

\* The upstream runs a submission.
LEMMA RunKeeps ==
  ASSUME Typed, SentOnce, RowsFollow, StoredOnce, UNCHANGED <<typed, form>>,
         NEW i \in Submissions, NEW state \in {"ok", "failed"},
         calls[i].state = "forwarded", SetState(i, state),
         rows' = [rows EXCEPT ![calls[i].text] = @ + 1],
         doubt' = doubt \cup {t \in {calls[i].text} : state = "failed"}
  PROVE  SentOnce' /\ RowsFollow' /\ StoredOnce'
<1> DEFINE t == calls[i].text
<1>1. i \in DOMAIN calls /\ calls[i].op = "submit"
  BY DEF Submissions
<1>2. /\ DOMAIN calls' = DOMAIN calls
      /\ \A j \in DOMAIN calls \ {i} : calls'[j] = calls[j]
      /\ calls'[i] = [calls[i] EXCEPT !.state = state]
  BY <1>1, StateSet
<1>3. \A j \in DOMAIN calls :
         /\ calls[j] \in CallRecord
         /\ calls'[j].op = calls[j].op /\ calls'[j].text = calls[j].text
         /\ calls'[j].left = calls[j].left
         /\ j # i => calls'[j].state = calls[j].state
         /\ calls'[i].state = state
  BY <1>1, <1>2, CallsTyped DEF CallRecord
<1>4. Submissions' = Submissions /\ Awaited' = Awaited
  BY <1>2, <1>3 DEF Submissions, Awaited
<1>5. Submissions \subseteq DOMAIN calls /\ Awaited \subseteq Submissions
  BY DEF Submissions, Awaited
<1>6. /\ t \in Texts /\ t <= typed /\ typed \in Nat /\ Texts \subseteq Nat
      /\ \A u \in Texts : rows[u] \in Nat
      /\ \A u \in Texts : rows'[u] = IF u = t THEN rows[u] + 1 ELSE rows[u]
  BY BrowserAssumption DEF SentOnce, Typed, Texts
<1>7. /\ doubt \subseteq doubt'
      /\ \A u \in Texts : u \in doubt' => u \in doubt \/ u = t
      /\ state = "failed" => t \in doubt'
      /\ t \notin doubt' => state = "ok"
  OBVIOUS
<1>8. t \notin doubt => rows[t] = 0
  BY <1>1 DEF RowsFollow
<1>9. \A j \in Submissions : j # i => calls[j].text # t /\ calls[j].text \in Texts
  BY <1>6, BrowserAssumption DEF SentOnce, Typed, Texts
<1> HIDE DEF t
<1>10. SentOnce'
  BY <1>3, <1>4, <1>5 DEF SentOnce
<1>11. RowsFollow'
  <2>1. \A u \in Texts : u > typed' => rows'[u] = 0
    <3> SUFFICES ASSUME NEW u \in Texts, u > typed
                 PROVE  rows'[u] = 0
      OBVIOUS
    <3>1. rows[u] = 0
      BY DEF RowsFollow
    <3>2. u # t
      BY <1>6
    <3> QED BY <1>6, <3>1, <3>2
  <2>2. \A j \in Submissions' :
           /\ calls'[j].state \in {"sent", "forwarded"} /\ calls'[j].text \notin doubt' =>
                  rows'[calls'[j].text] = 0
           /\ calls'[j].state = "ok" => rows'[calls'[j].text] >= 1
    <3> SUFFICES ASSUME NEW j \in Submissions
                 PROVE  /\ /\ calls'[j].state \in {"sent", "forwarded"}
                           /\ calls'[j].text \notin doubt'
                           => rows'[calls'[j].text] = 0
                        /\ calls'[j].state = "ok" => rows'[calls'[j].text] >= 1
      BY <1>4
    <3>1. CASE j = i
      <4>1. calls'[j].state = state /\ calls'[j].text = t
        BY <3>1, <1>3, <1>5 DEF t
      <4>2. rows'[t] = rows[t] + 1 /\ rows[t] \in Nat
        BY <1>6
      <4> QED BY <4>1, <4>2
    <3>2. CASE j # i
      <4>1. /\ calls'[j].state = calls[j].state /\ calls'[j].text = calls[j].text
            /\ calls[j].text \in Texts /\ calls[j].text # t
            /\ calls[j].text \in doubt' <=> calls[j].text \in doubt
            /\ rows'[calls[j].text] = rows[calls[j].text]
        BY <3>2, <1>3, <1>5, <1>6, <1>7, <1>9
      <4> QED BY <4>1 DEF RowsFollow
    <3> QED BY <3>1, <3>2
  <2>3. form'.text # 0 /\ form'.text \notin doubt' =>
           \/ rows'[form'.text] = 0
           \/ \E j \in Awaited' : calls'[j].text = form'.text /\ calls'[j].state = "ok"
    <3> SUFFICES ASSUME form.text # 0, form.text \notin doubt'
                 PROVE  \/ rows'[form.text] = 0
                        \/ \E j \in Awaited : calls'[j].text = form.text /\ calls'[j].state = "ok"
      BY <1>4
    <3>1. form.text \in Texts
      BY BrowserAssumption DEF Typed, FormRecord, Texts
    <3>2. CASE form.text = t
      <4>1. i \in Awaited
        BY <3>2 DEF SentOnce, t
      <4> QED BY <4>1, <3>2, <1>1, <1>3, <1>7 DEF t
    <3>3. CASE form.text # t
      BY <3>1, <3>3, <1>3, <1>5, <1>6, <1>7 DEF RowsFollow, t
    <3> QED BY <3>2, <3>3
  <2> QED BY <2>1, <2>2, <2>3 DEF RowsFollow
<1>12. StoredOnce'
  <2>1. \A u \in Texts \ doubt' : rows'[u] <= 1
    BY <1>6, <1>7, <1>8 DEF StoredOnce
  <2>2. form.thanked # 0 => form.thanked \in Texts
    BY BrowserAssumption DEF Typed, FormRecord, Texts
  <2>3. form'.thanked # 0 => rows'[form'.thanked] >= 1
    BY <1>6, <2>2 DEF StoredOnce
  <2> QED BY <2>1, <2>3 DEF StoredOnce
<1> QED BY <1>10, <1>11, <1>12

\* A form is sent: its text is in no other call, and has no row.
LEMMA SendKeeps ==
  ASSUME Typed, SentOnce, RowsFollow, UNCHANGED <<rows, doubt, typed>>,
         ~form.submitting, form.text # 0,
         form'.text = form.text, form'.submitting,
         calls' = Append(calls, Request("submit", form.text))
  PROVE  SentOnce' /\ RowsFollow'
<1> DEFINE n == Len(calls) + 1
<1>1. /\ n - 1 \in Nat /\ DOMAIN calls = 1..(n - 1) /\ DOMAIN calls' = 1..n
      /\ \A j \in DOMAIN calls : calls'[j] = calls[j]
      /\ calls'[n].op = "submit" /\ calls'[n].text = form.text
      /\ calls'[n].state = "sent" /\ ~calls'[n].left
  <2>1. form.text \in 0..MaxTexts
    BY DEF Typed, FormRecord
  <2> QED BY <2>1, RequestTyped, Appended DEF Typed
<1>2. /\ n \notin DOMAIN calls /\ DOMAIN calls' = DOMAIN calls \cup {n}
  BY <1>1
<1> HIDE DEF n
<1>3. Submissions' = Submissions \cup {n} /\ Awaited' = Awaited \cup {n}
  BY <1>1, <1>2 DEF Submissions, Awaited
<1>4. Awaited = {} /\ \A i \in Submissions : calls[i].text # form.text
  BY DEF SentOnce
<1>5. /\ form.text \in 1..typed /\ n \notin Submissions
      /\ \A i \in Submissions : calls'[i] = calls[i]
  BY <1>1, <1>2 DEF SentOnce, Typed, FormRecord, Submissions
<1>6. Awaited \subseteq Submissions
  BY DEF Awaited
<1>7. SentOnce'
  <2>1. \A i \in Submissions' : calls'[i].text \in 1..typed'
    BY <1>1, <1>3, <1>5 DEF SentOnce
  <2>2. \A i, j \in Submissions' : calls'[i].text = calls'[j].text => i = j
    <3> SUFFICES ASSUME NEW i \in Submissions', NEW j \in Submissions',
                        calls'[i].text = calls'[j].text
                 PROVE  i = j
      OBVIOUS
    <3>1. \A k \in Submissions : calls'[k].text = calls[k].text /\ calls'[k].text # calls'[n].text
      BY <1>1, <1>4, <1>5
    <3>2. CASE i = n \/ j = n
      BY <3>1, <3>2, <1>3
    <3>3. CASE i \in Submissions /\ j \in Submissions
      <4>1. calls[i].text = calls[j].text
        BY <3>1, <3>3
      <4> QED BY <4>1, <3>3 DEF SentOnce
    <3> QED BY <3>2, <3>3, <1>3
  <2>3. \A i \in Submissions' \ Awaited' : calls'[i].text # form'.text
    BY <1>3, <1>4, <1>5
  <2> QED BY <2>1, <2>2, <2>3, <1>3, <1>4 DEF SentOnce
<1>8. RowsFollow'
  <2>1. form.text \notin doubt => rows[form.text] = 0
    BY <1>4 DEF RowsFollow
  <2>2. \A i \in Submissions' :
           /\ calls'[i].state \in {"sent", "forwarded"} /\ calls'[i].text \notin doubt' =>
                  rows'[calls'[i].text] = 0
           /\ calls'[i].state = "ok" => rows'[calls'[i].text] >= 1
    <3>1. \A i \in Submissions :
             /\ calls'[i].state \in {"sent", "forwarded"} /\ calls'[i].text \notin doubt =>
                    rows[calls'[i].text] = 0
             /\ calls'[i].state = "ok" => rows[calls'[i].text] >= 1
      BY <1>5 DEF RowsFollow
    <3> QED BY <3>1, <2>1, <1>1, <1>3
  <2> QED BY <2>1, <2>2 DEF RowsFollow
<1> QED BY <1>7, <1>8

LEMMA UntouchedKeeps ==
  ASSUME SentOnce, RowsFollow, UNCHANGED <<rows, doubt, typed, calls>>,
         form'.text = form.text, form'.submitting = form.submitting
  PROVE  SentOnce' /\ RowsFollow'
<1>1. Submissions' = Submissions /\ Awaited' = Awaited
  BY DEF Submissions, Awaited
<1> QED BY <1>1 DEF SentOnce, RowsFollow

LEMMA StepSubmissions ==
  Typed /\ SentOnce /\ RowsFollow /\ StoredOnce /\ [Next]_vars => SentOnce' /\ RowsFollow'
<1> SUFFICES ASSUME Typed, SentOnce, RowsFollow, StoredOnce, [Next]_vars
             PROVE  SentOnce' /\ RowsFollow'
  OBVIOUS
<1>1. /\ Request("staff", 0) \in CallRecord /\ Request("staff", 0).op = "staff"
      /\ Request("cms", 0) \in CallRecord /\ Request("cms", 0).op = "cms"
      /\ Request("announcements", 0) \in CallRecord
      /\ Request("announcements", 0).op = "announcements"
      /\ calls \in Seq(CallRecord)
  BY RequestTyped, BrowserAssumption DEF Typed
<1>2. ASSUME NEW at \in PublicForms \cup {"page", "login"}, Visit(at)
      PROVE  SentOnce' /\ RowsFollow'
  <2> DEFINE s == CASE at = "page" -> <<Request("staff", 0)>>
                    [] at = "register" -> <<Request("cms", 0)>>
                    [] OTHER -> <<>>
  <2>1. calls' = Left \o s /\ form' = BlankForm /\ UNCHANGED <<rows, doubt, typed>>
    BY <1>2 DEF Visit, Opens
  <2>2. s = <<>> \/ \E c \in CallRecord : s = <<c>> /\ c.op # "submit"
    BY <1>1
  <2> HIDE DEF s
  <2>3. \A j \in Submissions' :
            j \in DOMAIN calls /\ calls'[j] = [calls[j] EXCEPT !.left = TRUE]
    BY <2>1, <2>2, Opened DEF Submissions
  <2> QED BY <2>1, <2>3, OpeningKeeps
<1>3. ASSUME NEW role \in SessionRoles, SignIn(role)
      PROVE  SentOnce' /\ RowsFollow'
  <2> DEFINE c == [Request("staff", 0) EXCEPT !.cookie = role]
  <2>1. c \in CallRecord /\ c.op # "submit"
    <3>1. role \in Roles
      BY DEF SessionRoles, Roles
    <3> QED BY <1>1, <3>1 DEF CallRecord
  <2>2. calls' = Append(Left, c) /\ form' = BlankForm /\ UNCHANGED <<rows, doubt, typed>>
    BY <1>3 DEF SignIn
  <2> HIDE DEF c
  <2>3. \A j \in Submissions' :
            j \in DOMAIN calls /\ calls'[j] = [calls[j] EXCEPT !.left = TRUE]
    <3>1. /\ DOMAIN calls' = 1..(Len(Left) + 1) /\ DOMAIN Left = 1..Len(Left)
          /\ Len(Left) \in Nat
          /\ \A j \in DOMAIN Left : calls'[j] = Left[j]
          /\ calls'[Len(Left) + 1] = c
      BY <2>1, <2>2, CallsTyped, Appended
    <3>2. \A j \in Submissions' : j \in DOMAIN Left
      BY <2>1, <3>1 DEF Submissions
    <3> QED BY <3>1, <3>2, CallsTyped
  <2> QED BY <2>2, <2>3, OpeningKeeps
<1>4. CASE LookAgain
  <2>1. calls' = Append(calls, Request("staff", 0)) /\ UNCHANGED <<rows, doubt, typed, form>>
    BY <1>4 DEF LookAgain, Ask
  <2>2. /\ DOMAIN calls' = 1..(Len(calls) + 1) /\ DOMAIN calls = 1..Len(calls)
        /\ Len(calls) \in Nat
        /\ \A j \in DOMAIN calls : calls'[j] = calls[j]
        /\ calls'[Len(calls) + 1].op = "staff"
    BY <2>1, <1>1, Appended
  <2>3. /\ Submissions' = Submissions /\ Awaited' = Awaited
        /\ \A j \in Submissions : calls'[j] = calls[j]
    BY <2>2 DEF Submissions, Awaited
  <2>4. Awaited \subseteq Submissions
    BY DEF Awaited
  <2>5. SentOnce'
    <3>0. typed' = typed /\ form' = form
      BY <2>1
    <3>1. /\ \A i \in Submissions' : calls'[i].text \in 1..typed'
          /\ \A i, j \in Submissions' : calls'[i].text = calls'[j].text => i = j
      <4>1. \A i \in Submissions' : i \in Submissions /\ calls'[i].text = calls[i].text
        BY <2>3
      <4> QED BY <4>1, <3>0 DEF SentOnce
    <3>2. /\ \A i, j \in Awaited' : i = j
          /\ Awaited' # {} => form'.submitting
          /\ form'.text <= typed'
          /\ \A i \in Submissions' \ Awaited' : calls'[i].text # form'.text
      BY <2>1, <2>3 DEF SentOnce
    <3> QED BY <3>1, <3>2 DEF SentOnce
  <2>6. RowsFollow'
    BY <2>1, <2>3, <2>4 DEF RowsFollow
  <2> QED BY <2>5, <2>6
<1>5. CASE SignedOut
  <2>1. calls' = Left /\ form' = BlankForm /\ UNCHANGED <<rows, doubt, typed>>
    BY <1>5 DEF SignedOut
  <2>2. \A j \in Submissions' :
            j \in DOMAIN calls /\ calls'[j] = [calls[j] EXCEPT !.left = TRUE]
    BY <2>1, CallsTyped DEF Submissions
  <2> QED BY <2>1, <2>2, OpeningKeeps
<1>6. CASE Type
  <2>1. /\ typed' = typed + 1 /\ typed \in Nat /\ typed + 1 \in Texts
        /\ form'.text = typed + 1 /\ form'.submitting = form.submitting
        /\ UNCHANGED <<calls, rows, doubt>>
    BY <1>6, BrowserAssumption DEF Type, Typed, FormRecord, Texts
  <2>2. /\ Submissions' = Submissions /\ Awaited' = Awaited
        /\ \A i \in Submissions : calls[i].text \in 1..typed
    BY <2>1 DEF Submissions, Awaited, SentOnce
  <2>3. SentOnce'
    <3>1. \A i \in Submissions : calls[i].text \in 1..(typed + 1) /\ calls[i].text # typed + 1
      BY <2>1, <2>2
    <3> QED BY <2>1, <2>2, <3>1 DEF SentOnce
  <2>4. RowsFollow'
    <3>1. rows[typed + 1] = 0 /\ \A t \in Texts : t > typed + 1 => t > typed
      BY <2>1 DEF RowsFollow, Texts
    <3> QED BY <2>1, <2>2, <3>1 DEF RowsFollow
  <2> QED BY <2>3, <2>4
<1>7. CASE SubmitDonation \/ SendEnquiry \/ SubmitRegistration
  <2>1. /\ calls' = Append(calls, Request("submit", form.text))
        /\ UNCHANGED <<rows, doubt, typed>>
        /\ ~form.submitting /\ form.text # 0
        /\ form' = Sending(form) \/ form' = [Sending(form) EXCEPT !.thanked = 0]
    BY <1>7 DEF SubmitDonation, SendEnquiry, SubmitRegistration, Ask, MayDonate, MayEnquire,
                MayRegister
  <2>2. form'.text = form.text /\ form'.submitting
    BY <2>1 DEF Sending, Typed, FormRecord
  <2> QED BY <2>1, <2>2, SendKeeps
<1>8. CASE \/ SessionArrives \/ ForgetUser \/ SessionExpires \/ InvalidDonation \/ Clock
           \/ UNCHANGED vars
  <2>1. /\ UNCHANGED <<rows, doubt, typed, calls>>
        /\ form' = form \/ form' = [form EXCEPT !.error = TRUE]
    BY <1>8 DEF SessionArrives, ForgetUser, SessionExpires, InvalidDonation, Clock, vars
  <2>2. form'.text = form.text /\ form'.submitting = form.submitting
    BY <2>1 DEF Typed, FormRecord
  <2> QED BY <2>1, <2>2, UntouchedKeeps
<1>9. ASSUME NEW i \in DOMAIN calls, ProxyRefuses(i) \/ ProxyForwards(i) \/ Fails(i)
      PROVE  SentOnce' /\ RowsFollow'
  <2>1. \E state \in {"forwarded", "ok", "failed"} : SetState(i, state) /\ state # "ok"
    BY <1>9 DEF ProxyRefuses, ProxyForwards, Fails
  <2>2. /\ UNCHANGED <<rows, doubt, typed, form>>
        /\ calls[i].state \in {"sent", "forwarded"}
    BY <1>9 DEF ProxyRefuses, ProxyForwards, Fails, Browsing, Waiting
  <2> QED BY <2>1, <2>2, StateKeeps
<1>10. ASSUME NEW i \in DOMAIN calls, Runs(i)
       PROVE  SentOnce' /\ RowsFollow'
  <2>1. PICK state \in {"ok", "failed"} :
           /\ SetState(i, state)
           /\ IF calls[i].op = "submit"
              THEN /\ rows' = [rows EXCEPT ![calls[i].text] = @ + 1]
                   /\ doubt' = doubt \cup {t \in {calls[i].text} : state = "failed"}
              ELSE UNCHANGED <<rows, doubt>>
    BY <1>10 DEF Runs
  <2>2. UNCHANGED <<typed, form>> /\ calls[i].state = "forwarded"
    BY <1>10 DEF Runs, Browsing
  <2>3. CASE calls[i].op = "submit"
    BY <2>1, <2>2, <2>3, RunKeeps DEF Submissions
  <2>4. CASE calls[i].op # "submit"
    BY <2>1, <2>2, <2>4, StateKeeps
  <2> QED BY <2>3, <2>4
<1>11. ASSUME NEW i \in DOMAIN calls, AnswerArrives(i)
       PROVE  SentOnce' /\ RowsFollow'
  <2>1. UNCHANGED <<rows, doubt, typed>>
    BY <1>11 DEF AnswerArrives, FormAnswered, AnnouncementsAnswered, Arrive
  <2>2. CASE ~calls[i].left /\ FormAnswered(i)
    <3>1. i \in Awaited /\ calls' = RemoveAt(calls, i)
      BY <2>2 DEF Awaited, Submissions, FormAnswered
    <3>2. form'.text \in {0, form.text} /\ (form'.text = 0 \/ calls[i].state # "ok")
      BY <2>2 DEF FormAnswered, Blanked, Typed, FormRecord
    <3> QED BY <2>1, <3>1, <3>2, RemovalKeeps
  <2>3. CASE AnnouncementsAnswered(i)
    <3>1. /\ \/ calls' = RemoveAt(calls, i)
             \/ \E c \in CallRecord : c.op # "submit" /\ calls' = Append(RemoveAt(calls, i), c)
          /\ i \notin Awaited
      BY <2>3, <1>1 DEF AnnouncementsAnswered, Awaited, Submissions
    <3>2. form'.text = form.text /\ form'.submitting = form.submitting
      BY <2>3 DEF AnnouncementsAnswered, Typed, FormRecord
    <3> QED BY <2>1, <3>1, <3>2, RemovalKeeps
  <2>4. CASE calls[i].left /\ calls' = RemoveAt(calls, i) /\ form' = form
    <3>1. i \notin Awaited
      BY <2>4 DEF Awaited
    <3> QED BY <2>1, <2>4, <3>1, RemovalKeeps
  <2> QED BY <2>2, <2>3, <2>4, <1>11 DEF AnswerArrives
<1> QED BY <1>2, <1>3, <1>4, <1>5, <1>6, <1>7, <1>8, <1>9, <1>10, <1>11 DEF Next

LEMMA StepStored ==
  Typed /\ SentOnce /\ RowsFollow /\ StoredOnce /\ [Next]_vars => StoredOnce'
<1> SUFFICES ASSUME Typed, SentOnce, RowsFollow, StoredOnce, [Next]_vars
             PROVE  StoredOnce'
  OBVIOUS
<1>1. ASSUME UNCHANGED <<rows, doubt>>, form'.thanked \in {0, form.thanked}
      PROVE  StoredOnce'
  BY <1>1 DEF StoredOnce
<1>2. ASSUME NEW i \in DOMAIN calls, Runs(i)
      PROVE  StoredOnce'
  <2>1. PICK state \in {"ok", "failed"} :
           /\ SetState(i, state)
           /\ IF calls[i].op = "submit"
              THEN /\ rows' = [rows EXCEPT ![calls[i].text] = @ + 1]
                   /\ doubt' = doubt \cup {t \in {calls[i].text} : state = "failed"}
              ELSE UNCHANGED <<rows, doubt>>
    BY <1>2 DEF Runs
  <2>2. UNCHANGED <<typed, form>> /\ calls[i].state = "forwarded"
    BY <1>2 DEF Runs, Browsing
  <2>3. CASE calls[i].op = "submit"
    BY <2>1, <2>2, <2>3, RunKeeps DEF Submissions
  <2>4. CASE calls[i].op # "submit"
    BY <2>1, <2>2, <2>4, <1>1
  <2> QED BY <2>3, <2>4
<1>3. ASSUME NEW i \in DOMAIN calls, FormAnswered(i)
      PROVE  StoredOnce'
  <2>1. UNCHANGED <<rows, doubt>> /\ i \in Submissions
    BY <1>3 DEF FormAnswered, Arrive, Submissions
  <2>2. CASE calls[i].state = "ok"
    <3>1. form'.thanked = calls[i].text
      BY <1>3, <2>2 DEF FormAnswered, Blanked, Typed, FormRecord
    <3>2. rows[calls[i].text] >= 1
      BY <2>1, <2>2 DEF RowsFollow
    <3> QED BY <2>1, <3>1, <3>2 DEF StoredOnce
  <2>3. CASE calls[i].state # "ok"
    BY <1>3, <2>1, <2>3, <1>1 DEF FormAnswered, Typed, FormRecord
  <2> QED BY <2>2, <2>3
<1>4. ASSUME NEW i \in DOMAIN calls,
             ProxyRefuses(i) \/ ProxyForwards(i) \/ Fails(i) \/ AnnouncementsAnswered(i)
      PROVE  StoredOnce'
  BY <1>1, <1>4 DEF ProxyRefuses, ProxyForwards, Fails, Browsing, AnnouncementsAnswered,
                    Arrive, Typed, FormRecord
<1>5. ASSUME NEW i \in DOMAIN calls, AnswerArrives(i)
      PROVE  StoredOnce'
  BY <1>1, <1>3, <1>4, <1>5 DEF AnswerArrives, Arrive
<1>6. ASSUME form' = BlankForm, UNCHANGED <<rows, doubt>>
      PROVE  StoredOnce'
  BY <1>1, <1>6 DEF BlankForm
<1>7. ASSUME NEW at, Visit(at)
      PROVE  StoredOnce'
  BY <1>6, <1>7 DEF Visit, Opens
<1>8. ASSUME NEW role, SignIn(role)
      PROVE  StoredOnce'
  BY <1>6, <1>8 DEF SignIn
<1>9. CASE SignedOut
  BY <1>6, <1>9 DEF SignedOut
<1>10. CASE \/ SessionArrives \/ ForgetUser \/ SessionExpires \/ LookAgain \/ Clock
            \/ UNCHANGED vars
  BY <1>1, <1>10 DEF SessionArrives, ForgetUser, SessionExpires, LookAgain, Clock, vars
<1>11. CASE \/ Type \/ SubmitDonation \/ InvalidDonation \/ SendEnquiry \/ SubmitRegistration
  <2>1. UNCHANGED <<rows, doubt>>
    BY <1>11 DEF Type, SubmitDonation, InvalidDonation, SendEnquiry, SubmitRegistration
  <2>2. form'.thanked \in {0, form.thanked}
    BY <1>11 DEF Type, SubmitDonation, InvalidDonation, SendEnquiry, SubmitRegistration,
                 Sending, Typed, FormRecord
  <2> QED BY <1>1, <2>1, <2>2
<1> QED BY <1>2, <1>4, <1>5, <1>7, <1>8, <1>9, <1>10, <1>11 DEF Next

-----------------------------------------------------------------------------
(* The theorems *)

LEMMA InitIsAccessSound == Init => AccessSound
<1> SUFFICES ASSUME Init
             PROVE  AccessSound
  OBVIOUS
<1>1. Submissions = {} /\ Awaited = {}
  BY DEF Init, Submissions, Awaited
<1>2. RolesFollow
  BY DEF Init, RolesFollow, SessionRoles
<1>3. SentOnce /\ RowsFollow /\ StoredOnce
  BY <1>1, BrowserAssumption DEF Init, SentOnce, RowsFollow, StoredOnce, BlankForm, Texts
<1> QED BY <1>2, <1>3, InitTyped DEF AccessSound

LEMMA StepIsAccessSound == AccessSound /\ [Next]_vars => AccessSound'
BY StepTyped, StepRoles, StepSubmissions, StepStored DEF AccessSound

\* Every reachable state of the browser and its calls is sound: its types, the
\* roles, the submissions in flight and the rows they made.
THEOREM BrowserIsSound == Spec => []AccessSound
BY InitIsAccessSound, StepIsAccessSound, PTL DEF Spec

\* What a visitor typed into a public form is stored once, unless an error hid
\* a first row, however often it is sent and the page is left; and a form says
\* thanks for a row that is there (DonationForm, ContactForm, registration).
THEOREM TextsAreStoredOnce == Spec => []StoredOnce
<1>1. AccessSound => StoredOnce
  BY DEF AccessSound
<1> QED BY <1>1, BrowserIsSound, PTL

\* A dashboard page whose session is known and lasts offers that session's
\* controls or none, whatever localStorage held before (AppShell, useSession).
THEOREM PagesOfferTheirSession == Spec => []OffersWhatTheSessionAllows
<1>1. AccessSound => OffersWhatTheSessionAllows
  BY DEF AccessSound, RolesFollow, OffersWhatTheSessionAllows, Typed, Roles, SessionRoles
<1> QED BY <1>1, BrowserIsSound, PTL

\* Whatever the browser does, the proxies' limiter takes its own steps.
LEMMA StepOfTheLimiter ==
  ASSUME Typed, [Next]_vars
  PROVE  [LimitNext]_limitVars
<1>1. \A i \in DOMAIN calls : KeyOf(calls[i]) \in Keys
  BY KeysAssumption DEF KeyOf
<1>2. ASSUME NEW i \in DOMAIN calls, ProxyForwards(i)
      PROVE  LimitNext
  BY <1>1, <1>2 DEF ProxyForwards, LimitNext
<1>3. CASE Clock
  BY <1>3 DEF Clock, LimitNext
<1>4. CASE UNCHANGED limitVars
  BY <1>4
<1>5. ASSUME NEW i \in DOMAIN calls,
             ProxyRefuses(i) \/ Runs(i) \/ Fails(i) \/ AnswerArrives(i)
      PROVE  UNCHANGED limitVars
  BY <1>5 DEF ProxyRefuses, Runs, Fails, AnswerArrives, FormAnswered, AnnouncementsAnswered,
              Arrive
<1>6. ASSUME NEW at, Visit(at)
      PROVE  UNCHANGED limitVars
  BY <1>6 DEF Visit
<1>7. ASSUME NEW role, SignIn(role)
      PROVE  UNCHANGED limitVars
  BY <1>7 DEF SignIn
<1>8. CASE \/ SessionArrives \/ LookAgain \/ ForgetUser \/ SignedOut \/ SessionExpires
           \/ Type \/ SubmitDonation \/ InvalidDonation \/ SendEnquiry \/ SubmitRegistration
           \/ UNCHANGED vars
  <2>1. UNCHANGED limitVars
    BY <1>8 DEF SessionArrives, LookAgain, ForgetUser, SignedOut, SessionExpires, Type,
                SubmitDonation, InvalidDonation, SendEnquiry, SubmitRegistration, vars, limitVars
  <2> QED BY <2>1
<1> QED BY <1>2, <1>3, <1>4, <1>5, <1>6, <1>7, <1>8 DEF Next

\* Refinement: whatever the browser does, the buckets of the proxies it talks to
\* behave as RateLimit promises.
THEOREM BrowserRunsTheLimiter == Spec => LimitSpec
<1>1. Init => LimitInit
  BY DEF Init
<1>2. AccessSound /\ [Next]_vars => [LimitNext]_limitVars
  BY StepOfTheLimiter DEF AccessSound
<1> QED BY <1>1, <1>2, BrowserIsSound, PTL DEF Spec, LimitSpec

\* No browser gets twice the limit through a proxy in any window.
THEOREM BrowserIsLimited == Spec => []LessThanTwiceTheLimit
BY BrowserRunsTheLimiter, WindowIsBounded, PTL

\* Type correctness of Access, for any number of texts, calls and ticks.
THEOREM AccessIsTyped == Spec => []TypeOK
<1>1. AccessSound /\ LimiterSound => TypeOK
  <2> SUFFICES ASSUME AccessSound, LimiterSound
               PROVE  TypeOK
    OBVIOUS
  <2>1. \A i \in DOMAIN calls : calls[i].state \in {"sent", "forwarded", "ok", "failed"}
    BY CallsTyped DEF AccessSound, CallRecord
  <2>2. {cookie, stored, tab.role} \subseteq Roles
    BY DEF AccessSound, Typed, TabRecord
  <2> QED BY <2>1, <2>2 DEF AccessSound, LimiterSound, Typed, TabRecord, FormRecord, TypeOK
<1> QED BY <1>1, BrowserIsSound, BrowserRunsTheLimiter, LimiterIsSound, PTL
=============================================================================
