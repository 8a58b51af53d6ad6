----------------------------- MODULE DataProofs -----------------------------
(***************************************************************************)
(* The data collected for a report and the long-term memory: that a fetch  *)
(* has all it asked for, for any number of fetches, departments, retries   *)
(* and failures, and that what was stored is recalled, for any texts,      *)
(* vectors and restarts.                                                   *)
(***************************************************************************)
EXTENDS DataCollection, LongTermMemory, TLAPS, FiniteSetTheorems, SequenceTheorems,
        WellFoundedInduction

\* What a list with one more has.
LEMMA AppendHas ==
  ASSUME NEW S, NEW s \in Seq(S), NEW e \in S
  PROVE  /\ Append(s, e) \in Seq(S) /\ Len(Append(s, e)) = Len(s) + 1 /\ Len(s) \in Nat
         /\ \A i \in 1 .. Len(s) : Append(s, e)[i] = s[i]
         /\ Append(s, e)[Len(s) + 1] = e
         /\ ToSet(Append(s, e)) = ToSet(s) \cup {e}
<1>1. /\ Append(s, e) \in Seq(S) /\ Len(Append(s, e)) = Len(s) + 1 /\ Len(s) \in Nat
      /\ \A i \in 1 .. Len(s) : Append(s, e)[i] = s[i]
      /\ Append(s, e)[Len(s) + 1] = e
      /\ DOMAIN s = 1 .. Len(s) /\ DOMAIN Append(s, e) = 1 .. Len(s) + 1
  OBVIOUS
<1>2. \A i \in 1 .. Len(s) + 1 : i \in 1 .. Len(s) \/ i = Len(s) + 1
  BY <1>1
<1>3. ToSet(Append(s, e)) = ToSet(s) \cup {e}
  <2> DEFINE a == Append(s, e)
             n == Len(s)
  <2>1. /\ n \in Nat /\ DOMAIN s = 1 .. n /\ DOMAIN a = 1 .. n + 1
        /\ \A i \in 1 .. n : a[i] = s[i]
        /\ a[n + 1] = e
        /\ \A i \in 1 .. n + 1 : i \in 1 .. n \/ i = n + 1
        /\ \A i \in 1 .. n : i \in 1 .. n + 1
        /\ n + 1 \in 1 .. n + 1
    BY <1>1, <1>2
  <2> HIDE DEF a, n
  <2>2. ToSet(a) = {a[i] : i \in 1 .. n + 1} /\ ToSet(s) = {s[i] : i \in 1 .. n}
    BY <2>1 DEF ToSet
  <2>3. \A i \in 1 .. n + 1 : a[i] \in ToSet(s) \cup {e}
    <3> TAKE i \in 1 .. n + 1
    <3>1. CASE i = n + 1
      BY <2>1, <3>1
    <3>2. CASE i \in 1 .. n
      BY <2>1, <2>2, <3>2
    <3> QED BY <2>1, <3>1, <3>2
  <2>4. \A i \in 1 .. n : s[i] \in ToSet(a)
    BY <2>1, <2>2
  <2>5. e \in ToSet(a)
    BY <2>1, <2>2
  <2> QED BY <2>2, <2>3, <2>4, <2>5 DEF a
<1> QED BY <1>1, <1>3

-----------------------------------------------------------------------------
(***************************************************************************)
(* The data of a report, fetched in parallel (DataCollection)              *)
(***************************************************************************)
\* What is asked, of which departments, and what is known of a request.
Departments == {All} \cup UNION {Range(depts) : depts \in AskedDepartments}
QueryParts ==
  {"fly_job_logs", "fly_statis", "counts", "routes", "drones", "warn_static", "media_static"}
Queryings ==
  [f : Fetches, period : {"current", "previous"}, dept : Departments,
   part : QueryParts \cup {"telemetry"}]
FetchTasks ==
  [period : {"current", "previous"}, of : {"fly_job_logs", "scoped"}, dept : Departments]
Calling ==
  [at : {"waiting", "out", "backoff", "data", "error", "zero"}, tries : Nat,
   last : {NoData, "data", "passing", "final"}]

CollectionTypeOK ==
  /\ source \in {"http", "sql"} /\ asked \in [Fetches -> AskedDepartments]
  /\ fetch \in [Fetches -> {"new", "begun", "waits", "returned", "raised"}]
  /\ at \in [Fetches -> Nat] /\ DOMAIN raw = Fetches
  /\ line \in Seq(Queryings) /\ free \in Nat
  /\ IsFiniteSet(DOMAIN request) /\ request \in [DOMAIN request -> Calling]
  /\ DOMAIN request \subseteq Queryings

\* Who waits is in line, once.
LineInStep ==
  /\ IsInjective(line)
  /\ \A r \in Queryings : r \in Range(line) <=> At(r) = "waiting"

Holding(r) == At(r) = "out" /\ r.part # "telemetry"

\* Every slot is free or somebody's.
SlotsInStep == free + Cardinality({r \in DOMAIN request : Holding(r)}) = Slots

\* A request that was made is of a fetch that makes it, and is as often and as
\* long as it may be where it is.
CallInStep(r) ==
  /\ fetch[r.f] # "new"
  /\ r.part # "fly_job_logs" => fetch[r.f] # "begun"
  /\ request[r].tries <= MaxRequestRetries + 1
  /\ At(r) \in {"waiting", "backoff"} =>
       request[r].tries <= MaxRequestRetries /\ request[r].last \in {NoData, "passing"}
  /\ r.part = "telemetry" => At(r) \notin {"waiting", "error"}
  /\ At(r) = "zero" => r.part = "telemetry"
  /\ At(r) \in {"error", "zero"} /\ request[r].last = "passing" =>
       request[r].tries = MaxRequestRetries + 1
CallsInStep == \A r \in DOMAIN request : CallInStep(r)

\* A fetch has what it awaited, and knows why it fails.
FetchInStep(f) ==
  /\ at[f] \in 1 .. Len(Tasks(f))
  /\ fetch[f] \in {"new", "begun"} => at[f] = 1
  /\ fetch[f] = "waits" => \A n \in 1 .. at[f] - 1 : Fulfilled(f, Tasks(f)[n])
  /\ fetch[f] = "raised" => \E r \in Own(f) : At(r) = "error"
  /\ fetch[f] = "returned" =>
       (\A n \in 1 .. Len(Tasks(f)) : Fulfilled(f, Tasks(f)[n])) /\ raw[f] = Dataset(f)
FetchesInStep == \A f \in Fetches : FetchInStep(f)

CollectionInv ==
  CollectionTypeOK /\ LineInStep /\ SlotsInStep /\ CallsInStep /\ FetchesInStep

-----------------------------------------------------------------------------
(* What a fetch asks for *)

\* What two lists are together.
LEMMA ConcatHas ==
  ASSUME NEW S, NEW s \in Seq(S), NEW t \in Seq(S)
  PROVE  /\ s \o t \in Seq(S) /\ Len(s \o t) = Len(s) + Len(t)
         /\ Len(s) \in Nat /\ Len(t) \in Nat
         /\ \A k \in 1 .. Len(s) : (s \o t)[k] = s[k]
         /\ \A k \in 1 .. Len(t) : (s \o t)[Len(s) + k] = t[k]
         /\ \A k \in 1 .. Len(s) + Len(t) :
              k \in 1 .. Len(s) \/ \E j \in 1 .. Len(t) : k = Len(s) + j
         /\ Range(s \o t) = Range(s) \cup Range(t)
<1> DEFINE c == s \o t
           m == Len(s)
           n == Len(t)
<1>1. /\ c \in Seq(S) /\ Len(c) = m + n /\ m \in Nat /\ n \in Nat
      /\ \A k \in 1 .. m + n : c[k] = IF k <= m THEN s[k] ELSE t[k - m]
      /\ DOMAIN s = 1 .. m /\ DOMAIN t = 1 .. n /\ DOMAIN c = 1 .. m + n
  BY ConcatProperties
<1> HIDE DEF c, m, n
<1>2. /\ \A k \in 1 .. m : k \in 1 .. m + n /\ k <= m
      /\ \A k \in 1 .. n : m + k \in 1 .. m + n /\ ~(m + k <= m) /\ (m + k) - m = k
  BY <1>1
<1>3. /\ \A k \in 1 .. m : c[k] = s[k]
      /\ \A k \in 1 .. n : c[m + k] = t[k]
  BY <1>1, <1>2
<1>4. \A k \in 1 .. m + n : k \in 1 .. m \/ \E j \in 1 .. n : k = m + j
  <2> TAKE k \in 1 .. m + n
  <2>1. CASE k <= m
    BY <1>1, <2>1
  <2>2. CASE ~(k <= m)
    <3>1. k - m \in 1 .. n /\ k = m + (k - m)
      BY <1>1, <2>2
    <3> QED BY <3>1
  <2> QED BY <2>1, <2>2
<1>5. Range(c) = Range(s) \cup Range(t)
  <2>1. /\ Range(c) = {c[k] : k \in 1 .. m + n} /\ Range(s) = {s[k] : k \in 1 .. m}
        /\ Range(t) = {t[k] : k \in 1 .. n}
    BY <1>1 DEF Range
  <2>2. \A k \in 1 .. m + n : c[k] \in Range(s) \cup Range(t)
    <3> TAKE k \in 1 .. m + n
    <3>1. CASE k \in 1 .. m
      BY <1>3, <2>1, <3>1
    <3>2. CASE \E j \in 1 .. n : k = m + j
      BY <1>3, <2>1, <3>2
    <3> QED BY <1>4, <3>1, <3>2
  <2>3. /\ \A k \in 1 .. m : s[k] \in Range(c)
        /\ \A k \in 1 .. n : t[k] \in Range(c)
    BY <1>2, <1>3, <2>1
  <2> QED BY <2>1, <2>2, <2>3
<1> QED BY <1>1, <1>3, <1>4, <1>5 DEF c, m, n

\* What is left of a list without its first.
LEMMA TailHas ==
  ASSUME NEW S, NEW s \in Seq(S), s # <<>>, IsInjective(s)
  PROVE  /\ Head(s) \in S /\ Head(s) \in Range(s)
         /\ Tail(s) \in Seq(S) /\ IsInjective(Tail(s))
         /\ Range(Tail(s)) = Range(s) \ {Head(s)}
<1> DEFINE n == Len(s)
           t == Tail(s)
<1>1. /\ n \in Nat \ {0} /\ DOMAIN s = 1 .. n /\ Head(s) = s[1] /\ s[1] \in S
      /\ t \in Seq(S) /\ Len(t) = n - 1 /\ DOMAIN t = 1 .. n - 1
      /\ \A k \in 1 .. n - 1 : t[k] = s[k + 1]
  OBVIOUS
<1> HIDE DEF n, t
<1>2. /\ \A k \in 1 .. n - 1 : k + 1 \in 1 .. n /\ k + 1 # 1
      /\ \A k \in 1 .. n : k = 1 \/ (k - 1 \in 1 .. n - 1 /\ k = (k - 1) + 1)
      /\ 1 \in 1 .. n
      /\ \A j, k \in 1 .. n - 1 : j + 1 = k + 1 => j = k
  BY <1>1
<1>3. \A j, k \in 1 .. n : s[j] = s[k] => j = k
  BY <1>1 DEF IsInjective
<1>4. IsInjective(t)
  <2> SUFFICES ASSUME NEW j \in 1 .. n - 1, NEW k \in 1 .. n - 1, t[j] = t[k] PROVE j = k
    BY <1>1 DEF IsInjective
  <2>1. s[j + 1] = s[k + 1] /\ j + 1 \in 1 .. n /\ k + 1 \in 1 .. n
    BY <1>1, <1>2
  <2> QED BY <1>2, <1>3, <2>1
<1>5. /\ Range(s) = {s[k] : k \in 1 .. n} /\ Range(t) = {t[k] : k \in 1 .. n - 1}
  BY <1>1 DEF Range
<1>6. \A k \in 1 .. n - 1 : t[k] \in Range(s) \ {s[1]}
  BY <1>1, <1>2, <1>3, <1>5
<1>7. \A k \in 1 .. n : s[k] = s[1] \/ s[k] \in Range(t)
  <2> TAKE k \in 1 .. n
  <2>1. CASE k # 1
    <3>1. k - 1 \in 1 .. n - 1 /\ k = (k - 1) + 1
      BY <1>2, <2>1
    <3>2. t[k - 1] = s[k]
      BY <1>1, <3>1
    <3> QED BY <1>5, <3>1, <3>2
  <2> QED BY <2>1
<1> QED BY <1>1, <1>2, <1>4, <1>5, <1>6, <1>7 DEF t

\* A list that gets one that it does not have.
LEMMA AppendNew ==
  ASSUME NEW S, NEW s \in Seq(S), NEW e \in S, IsInjective(s), e \notin Range(s)
  PROVE  /\ Append(s, e) \in Seq(S) /\ IsInjective(Append(s, e))
         /\ Range(Append(s, e)) = Range(s) \cup {e}
<1> DEFINE a == Append(s, e)
           n == Len(s)
<1>1. /\ a \in Seq(S) /\ n \in Nat /\ DOMAIN s = 1 .. n /\ DOMAIN a = 1 .. n + 1
      /\ \A k \in 1 .. n : a[k] = s[k]
      /\ a[n + 1] = e /\ ToSet(a) = ToSet(s) \cup {e}
  BY AppendHas
<1> HIDE DEF a, n
<1>2. \A k \in 1 .. n + 1 : k \in 1 .. n \/ k = n + 1
  BY <1>1
<1>3. /\ \A k \in 1 .. n : a[k] \in Range(s) /\ a[k] # e
      /\ \A j, k \in 1 .. n : a[j] = a[k] => j = k
  BY <1>1 DEF Range, IsInjective
<1>4. IsInjective(a)
  BY <1>1, <1>2, <1>3 DEF IsInjective
<1>5. Range(a) = ToSet(a) /\ Range(s) = ToSet(s)
  BY DEF Range, ToSet
<1> QED BY <1>1, <1>4, <1>5 DEF a

\* Two lists that have nothing in common, one after the other.
LEMMA ConcatNew ==
  ASSUME NEW S, NEW s \in Seq(S), NEW t \in Seq(S), IsInjective(s), IsInjective(t),
         Range(s) \cap Range(t) = {}
  PROVE  /\ s \o t \in Seq(S) /\ IsInjective(s \o t)
         /\ Range(s \o t) = Range(s) \cup Range(t)
<1> DEFINE c == s \o t
           m == Len(s)
           n == Len(t)
<1>1. /\ c \in Seq(S) /\ Len(c) = m + n /\ m \in Nat /\ n \in Nat
      /\ \A k \in 1 .. m : c[k] = s[k]
      /\ \A k \in 1 .. n : c[m + k] = t[k]
      /\ \A k \in 1 .. m + n : k \in 1 .. m \/ \E j \in 1 .. n : k = m + j
      /\ Range(c) = Range(s) \cup Range(t)
  BY ConcatHas
<1>2. DOMAIN s = 1 .. m /\ DOMAIN t = 1 .. n
  OBVIOUS
<1> HIDE DEF c, m, n
<1>3. DOMAIN c = 1 .. m + n
  BY <1>1
<1>4. /\ \A k \in 1 .. m : s[k] \in Range(s)
      /\ \A k \in 1 .. n : t[k] \in Range(t)
      /\ \A j, k \in 1 .. m : s[j] = s[k] => j = k
      /\ \A j, k \in 1 .. n : t[j] = t[k] => j = k
  BY <1>2 DEF Range, IsInjective
<1>5. IsInjective(c)
  <2> SUFFICES ASSUME NEW j \in 1 .. m + n, NEW k \in 1 .. m + n, c[j] = c[k] PROVE j = k
    BY <1>3 DEF IsInjective
  <2>1. CASE j \in 1 .. m /\ k \in 1 .. m
    BY <1>1, <1>4, <2>1
  <2>2. CASE j \in 1 .. m /\ \E i \in 1 .. n : k = m + i
    BY <1>1, <1>4, <2>2
  <2>3. CASE k \in 1 .. m /\ \E i \in 1 .. n : j = m + i
    BY <1>1, <1>4, <2>3
  <2>4. CASE (\E i \in 1 .. n : j = m + i) /\ \E i \in 1 .. n : k = m + i
    <3>1. PICK i \in 1 .. n, l \in 1 .. n : j = m + i /\ k = m + l
      BY <2>4
    <3>2. t[i] = t[l]
      BY <1>1, <3>1
    <3> QED BY <1>4, <3>1, <3>2
  <2> QED BY <1>1, <2>1, <2>2, <2>3, <2>4
<1> QED BY <1>1, <1>5 DEF c

\* A list that loses one.
LEMMA RemoveAtHas ==
  ASSUME NEW S, NEW s \in Seq(S), IsInjective(s), NEW n \in DOMAIN s
  PROVE  /\ RemoveAt(s, n) \in Seq(S) /\ IsInjective(RemoveAt(s, n))
         /\ Range(RemoveAt(s, n)) = Range(s) \ {s[n]}
<1> DEFINE m == Len(s)
           a == SubSeq(s, 1, n - 1)
           b == SubSeq(s, n + 1, m)
<1>1. m \in Nat /\ DOMAIN s = 1 .. m /\ n \in 1 .. m
  OBVIOUS
<1>2. /\ a \in Seq(S) /\ Len(a) = n - 1 /\ DOMAIN a = 1 .. n - 1
      /\ \A k \in 1 .. n - 1 : a[k] = s[k]
  BY <1>1
<1>3. /\ b \in Seq(S) /\ Len(b) = m - n /\ DOMAIN b = 1 .. m - n
      /\ \A k \in 1 .. m - n : b[k] = s[n + k]
  BY <1>1
<1>4. RemoveAt(s, n) = a \o b
  BY DEF RemoveAt
<1> HIDE DEF m, a, b
<1> DEFINE c == a \o b
<1>5. /\ c \in Seq(S) /\ Len(c) = Len(a) + Len(b) /\ Range(c) = Range(a) \cup Range(b)
      /\ \A k \in 1 .. Len(a) : c[k] = a[k]
      /\ \A k \in 1 .. Len(b) : c[Len(a) + k] = b[k]
      /\ \A k \in 1 .. Len(a) + Len(b) :
           k \in 1 .. Len(a) \/ \E j \in 1 .. Len(b) : k = Len(a) + j
  <2>1. a \in Seq(S) /\ b \in Seq(S)
    BY <1>2, <1>3
  <2> QED BY ONLY <2>1, ConcatHas
<1> HIDE DEF c
<1>6. DOMAIN c = 1 .. m - 1 /\ Len(a) + Len(b) = m - 1
  BY <1>1, <1>2, <1>3, <1>5
<1>7. \A k \in 1 .. m - 1 : k \in 1 .. n - 1 \/ \E j \in 1 .. m - n : k = (n - 1) + j
  BY <1>2, <1>3, <1>5, <1>6
<1>8. /\ \A k \in 1 .. n - 1 : c[k] = s[k] /\ k \in 1 .. m /\ k < n
      /\ \A k \in 1 .. m - n : c[(n - 1) + k] = s[n + k] /\ n + k \in 1 .. m
      /\ \A k \in 1 .. m - n : n + k > n
  BY <1>1, <1>2, <1>3, <1>5
<1>9. \A j, k \in 1 .. m : s[j] = s[k] => j = k
  BY <1>1 DEF IsInjective
<1>10. IsInjective(c)
  <2> SUFFICES ASSUME NEW j \in 1 .. m - 1, NEW k \in 1 .. m - 1, c[j] = c[k] PROVE j = k
    BY <1>6 DEF IsInjective
  <2>1. CASE j \in 1 .. n - 1 /\ k \in 1 .. n - 1
    BY <1>8, <1>9, <2>1
  <2>2. CASE j \in 1 .. n - 1 /\ \E i \in 1 .. m - n : k = (n - 1) + i
    <3>1. PICK i \in 1 .. m - n : k = (n - 1) + i
      BY <2>2
    <3>2. j = n + i /\ j < n
      BY <1>8, <1>9, <2>2, <3>1
    <3> QED BY <1>1, <3>1, <3>2
  <2>3. CASE k \in 1 .. n - 1 /\ \E i \in 1 .. m - n : j = (n - 1) + i
    <3>1. PICK i \in 1 .. m - n : j = (n - 1) + i
      BY <2>3
    <3>2. k = n + i /\ k < n
      BY <1>8, <1>9, <2>3, <3>1
    <3> QED BY <1>1, <3>1, <3>2
  <2>4. CASE /\ \E i \in 1 .. m - n : j = (n - 1) + i
             /\ \E i \in 1 .. m - n : k = (n - 1) + i
    <3>1. PICK i \in 1 .. m - n : j = (n - 1) + i
      BY <2>4
    <3>2. PICK l \in 1 .. m - n : k = (n - 1) + l
      BY <2>4
    <3>3. n + i = n + l
      BY <1>8, <1>9, <3>1, <3>2
    <3> QED BY <1>1, <3>1, <3>2, <3>3
  <2> QED BY <1>7, <2>1, <2>2, <2>3, <2>4
<1>11. Range(c) = Range(s) \ {s[n]}
  <2>1. /\ Range(s) = {s[k] : k \in 1 .. m} /\ Range(a) = {a[k] : k \in 1 .. n - 1}
        /\ Range(b) = {b[k] : k \in 1 .. m - n}
    BY <1>1, <1>2, <1>3 DEF Range
  <2>2. \A x \in Range(a) \cup Range(b) : x \in Range(s) \ {s[n]}
    <3> TAKE x \in Range(a) \cup Range(b)
    <3>1. CASE x \in Range(a)
      <4>1. PICK k \in 1 .. n - 1 : x = s[k]
        BY <1>2, <2>1, <3>1
      <4>2. k \in 1 .. m /\ k # n
        BY <1>1, <1>8
      <4> QED BY <1>1, <1>9, <2>1, <4>1, <4>2
    <3>2. CASE x \in Range(b)
      <4>1. PICK k \in 1 .. m - n : x = s[n + k]
        BY <1>3, <2>1, <3>2
      <4>2. n + k \in 1 .. m /\ n + k # n
        BY <1>1, <1>8
      <4> QED BY <1>1, <1>9, <2>1, <4>1, <4>2
    <3> QED BY <3>1, <3>2
  <2>3. \A k \in 1 .. m : k # n => s[k] \in Range(a) \cup Range(b)
    <3> TAKE k \in 1 .. m
    <3>1. CASE k < n
      <4>1. k \in 1 .. n - 1
        BY <1>1, <3>1
      <4> QED BY <1>2, <2>1, <4>1
    <3>2. CASE k > n
      <4>1. k - n \in 1 .. m - n /\ k = n + (k - n)
        BY <1>1, <3>2
      <4> QED BY <1>3, <2>1, <4>1
    <3> QED BY <1>1, <3>1, <3>2
  <2>4. \A x \in Range(s) \ {s[n]} : x \in Range(a) \cup Range(b)
    BY <2>1, <2>3
  <2> QED BY <1>5, <2>2, <2>4
<1> QED BY <1>4, <1>5, <1>10, <1>11 DEF c

\* A fetch is for some departments, each once.
LEMMA TargetsAre ==
  ASSUME asked \in [Fetches -> AskedDepartments], NEW f \in Fetches
  PROVE  /\ Targets(f) \in Seq(Departments) /\ Targets(f) # <<>>
         /\ IsInjective(Targets(f))
         /\ asked[f] \in Seq(Departments)
<1>1. asked[f] \in Seq(Range(asked[f])) /\ IsInjective(asked[f]) /\ asked[f] \in AskedDepartments
  BY CollectionAssumption
<1>2. Range(asked[f]) \subseteq Departments /\ All \in Departments
  BY <1>1 DEF Departments
<1>3. asked[f] \in Seq(Departments)
  <2> HIDE DEF Departments
  <2> DEFINE s == asked[f]
  <2>1. s \in Seq(Range(s)) /\ Range(s) \subseteq Departments
    BY <1>1, <1>2
  <2> HIDE DEF s
  <2>2. s \in Seq(Departments)
    BY <2>1
  <2> QED BY <2>2 DEF s
<1>4. CASE asked[f] = <<>>
  <2>1. <<All>> \in Seq(Departments) /\ DOMAIN <<All>> = {1} /\ <<All>> # <<>>
    BY <1>2
  <2>2. IsInjective(<<All>>)
    BY <2>1 DEF IsInjective
  <2> QED BY <1>3, <1>4, <2>1, <2>2 DEF Targets
<1>5. CASE asked[f] # <<>>
  BY <1>1, <1>3, <1>5 DEF Targets
<1> QED BY <1>4, <1>5

LogTask(period) == [period |-> period, of |-> "fly_job_logs", dept |-> All]
ScopedTask(period, dept) == [period |-> period, of |-> "scoped", dept |-> dept]

\* Its tasks: the logs of both periods, and then all departments, twice.
LEMMA TasksAre ==
  ASSUME asked \in [Fetches -> AskedDepartments], NEW f \in Fetches,
         NEW n, n = Len(Targets(f))
  PROVE  /\ n \in Nat \ {0} /\ Tasks(f) \in Seq(FetchTasks) /\ Len(Tasks(f)) = 2 + (n + n)
         /\ Tasks(f)[1] = LogTask("current") /\ Tasks(f)[2] = LogTask("previous")
         /\ \A k \in 1 .. n :
              /\ Tasks(f)[2 + k] = ScopedTask("current", Targets(f)[k])
              /\ Tasks(f)[2 + n + k] = ScopedTask("previous", Targets(f)[k])
<1> DEFINE scoped(p) == [k \in DOMAIN Targets(f) |-> ScopedTask(p, Targets(f)[k])]
           logs == <<LogTask("current"), LogTask("previous")>>
<1>1. Targets(f) \in Seq(Departments) /\ Targets(f) # <<>> /\ n \in Nat \ {0}
      /\ DOMAIN Targets(f) = 1 .. n /\ All \in Departments
      /\ \A k \in 1 .. n : Targets(f)[k] \in Departments
  <2>1. Targets(f) \in Seq(Departments) /\ Targets(f) # <<>> /\ All \in Departments
    BY TargetsAre DEF Departments
  <2> HIDE DEF Departments
  <2> QED BY <2>1
<1>2. Tasks(f) = logs \o scoped("current") \o scoped("previous")
  BY DEF Tasks, Periods, LogTask, ScopedTask
<1>3. \A p \in {"current", "previous"} :
        LogTask(p) \in FetchTasks /\ \A d \in Departments : ScopedTask(p, d) \in FetchTasks
  BY <1>1 DEF FetchTasks, LogTask, ScopedTask
<1>4. \A p \in {"current", "previous"} :
        /\ scoped(p) \in Seq(FetchTasks) /\ Len(scoped(p)) = n
        /\ \A k \in 1 .. n : scoped(p)[k] = ScopedTask(p, Targets(f)[k])
  <2> TAKE p \in {"current", "previous"}
  <2>1. scoped(p) \in [1 .. n -> FetchTasks] /\ n \in Nat
    BY <1>1, <1>3
  <2> QED BY <1>1, <2>1
<1>5. logs \in Seq(FetchTasks) /\ Len(logs) = 2 /\ logs[1] = LogTask("current")
      /\ logs[2] = LogTask("previous")
  BY <1>3
<1> DEFINE cur == scoped("current")
           prev == scoped("previous")
<1>6. /\ cur \in Seq(FetchTasks) /\ prev \in Seq(FetchTasks) /\ Len(cur) = n /\ Len(prev) = n
      /\ logs \in Seq(FetchTasks) /\ Len(logs) = 2
      /\ Tasks(f) = logs \o cur \o prev /\ n \in Nat \ {0}
  <2>1. Tasks(f) = logs \o cur \o prev
    BY ONLY <1>2
  <2>2. /\ cur \in Seq(FetchTasks) /\ prev \in Seq(FetchTasks) /\ Len(cur) = n /\ Len(prev) = n
    BY <1>4
  <2> QED BY <1>1, <1>5, <2>1, <2>2
<1> HIDE DEF cur, prev, logs, scoped
<1>7. /\ logs \o cur \in Seq(FetchTasks) /\ Len(logs \o cur) = 2 + n
      /\ \A k \in 1 .. 2 : (logs \o cur)[k] = logs[k]
      /\ \A k \in 1 .. n : (logs \o cur)[2 + k] = cur[k]
  <2>1. /\ logs \o cur \in Seq(FetchTasks) /\ Len(logs \o cur) = Len(logs) + Len(cur)
        /\ \A k \in 1 .. Len(logs) : (logs \o cur)[k] = logs[k]
        /\ \A k \in 1 .. Len(cur) : (logs \o cur)[Len(logs) + k] = cur[k]
    <3>1. logs \in Seq(FetchTasks) /\ cur \in Seq(FetchTasks)
      BY <1>6
    <3> QED BY ONLY <3>1, ConcatHas
  <2> QED BY <1>6, <2>1
<1>8. /\ Tasks(f) \in Seq(FetchTasks) /\ Len(Tasks(f)) = 2 + n + n
      /\ \A k \in 1 .. 2 + n : Tasks(f)[k] = (logs \o cur)[k]
      /\ \A k \in 1 .. n : Tasks(f)[2 + n + k] = prev[k]
  <2> DEFINE early == logs \o cur
  <2>1. early \in Seq(FetchTasks) /\ Len(early) = 2 + n /\ Tasks(f) = early \o prev
    BY <1>6, <1>7
  <2> HIDE DEF early
  <2>2. /\ early \o prev \in Seq(FetchTasks) /\ Len(early \o prev) = Len(early) + Len(prev)
        /\ \A k \in 1 .. Len(early) : (early \o prev)[k] = early[k]
        /\ \A k \in 1 .. Len(prev) : (early \o prev)[Len(early) + k] = prev[k]
    <3>1. early \in Seq(FetchTasks) /\ prev \in Seq(FetchTasks)
      BY <1>6, <2>1
    <3> QED BY ONLY <3>1, ConcatHas
  <2> QED BY <1>6, <2>1, <2>2 DEF early
<1>9. \A k \in 1 .. n : 2 + k \in 1 .. 2 + n /\ 1 \in 1 .. 2 + n /\ 2 \in 1 .. 2 + n
  BY <1>6
<1>10. /\ Tasks(f)[1] = LogTask("current") /\ Tasks(f)[2] = LogTask("previous")
  BY <1>5, <1>6, <1>7, <1>8
<1>11. \A k \in 1 .. n : /\ Tasks(f)[2 + k] = ScopedTask("current", Targets(f)[k])
                         /\ Tasks(f)[2 + n + k] = ScopedTask("previous", Targets(f)[k])
  BY <1>4, <1>6, <1>7, <1>8, <1>9 DEF cur, prev
<1> QED BY <1>6, <1>8, <1>10, <1>11

\* The requests of a task are for its own period and department, each once.
LEMMA RequestsAre ==
  ASSUME source \in {"http", "sql"}, NEW f \in Fetches, NEW t \in FetchTasks
  PROVE  /\ RequestsOf(f, t) \in Seq(Queryings) /\ IsInjective(RequestsOf(f, t))
         /\ Len(RequestsOf(f, t)) = Len(Gathered(t))
         /\ Len(Gathered(t)) \in Nat \ {0}
         /\ t.of = "fly_job_logs" => RequestsOf(f, t) = << Request(f, t, "fly_job_logs") >>
         /\ t.of = "scoped" => Len(Gathered(t)) = IF source = "sql" THEN 5 ELSE 3
         /\ \A k \in DOMAIN RequestsOf(f, t) :
              LET r == RequestsOf(f, t)[k]
              IN /\ r.f = f /\ r.period = t.period /\ r.dept = t.dept /\ r.part # "telemetry"
                 /\ r = Request(f, t, r.part)
                 /\ r.part = "fly_job_logs" <=> t.of = "fly_job_logs"
<1> DEFINE g == Gathered(t)
           rs == RequestsOf(f, t)
<1>1. Gathered(t) = IF t.of = "fly_job_logs" THEN <<"fly_job_logs">>
                    ELSE IF source = "sql"
                      THEN <<"counts", "routes", "drones", "warn_static", "media_static">>
                      ELSE <<"fly_statis", "warn_static", "media_static">>
  BY DEF Gathered, Endpoints
<1>2. /\ g \in Seq(QueryParts) /\ Len(g) \in Nat \ {0} /\ DOMAIN g = 1 .. Len(g)
      /\ \A j, k \in 1 .. Len(g) : g[j] = g[k] => j = k
      /\ t.of = "fly_job_logs" => g = <<"fly_job_logs">>
      /\ t.of = "scoped" => Len(g) = IF source = "sql" THEN 5 ELSE 3
      /\ \A k \in 1 .. Len(g) : g[k] = "fly_job_logs" <=> t.of = "fly_job_logs"
  <2>1. CASE t.of = "fly_job_logs"
    BY <1>1, <2>1 DEF QueryParts
  <2>2. CASE t.of # "fly_job_logs" /\ source = "sql"
    BY <1>1, <2>2 DEF QueryParts
  <2>3. CASE t.of # "fly_job_logs" /\ source # "sql"
    BY <1>1, <2>3 DEF QueryParts
  <2> QED BY <2>1, <2>2, <2>3
<1>3. rs = [k \in 1 .. Len(g) |-> Request(f, t, g[k])]
  BY <1>2 DEF RequestsOf
<1> HIDE DEF g
<1>4. \A part \in QueryParts :
        /\ Request(f, t, part) \in Queryings
        /\ Request(f, t, part).f = f /\ Request(f, t, part).period = t.period
        /\ Request(f, t, part).dept = t.dept /\ Request(f, t, part).part = part
        /\ part # "telemetry"
  BY DEF Request, Queryings, FetchTasks, QueryParts
<1>5. \A k \in 1 .. Len(g) : g[k] \in QueryParts
  BY <1>2
<1>6. rs \in [1 .. Len(g) -> Queryings]
  BY <1>3, <1>4, <1>5
<1>7. rs \in Seq(Queryings) /\ Len(rs) = Len(g) /\ DOMAIN rs = 1 .. Len(g)
  BY <1>2, <1>6
<1>8. IsInjective(rs)
  <2> SUFFICES ASSUME NEW j \in 1 .. Len(g), NEW k \in 1 .. Len(g), rs[j] = rs[k] PROVE j = k
    BY <1>7 DEF IsInjective
  <2>1. rs[j].part = g[j] /\ rs[k].part = g[k]
    BY <1>3, <1>4, <1>5
  <2> QED BY <1>2, <2>1
<1>9. \A k \in 1 .. Len(g) :
        /\ rs[k].f = f /\ rs[k].period = t.period /\ rs[k].dept = t.dept
        /\ rs[k].part = g[k] /\ rs[k].part # "telemetry" /\ rs[k] = Request(f, t, rs[k].part)
  <2> TAKE k \in 1 .. Len(g)
  <2>1. rs[k] = Request(f, t, g[k]) /\ g[k] \in QueryParts
    BY <1>3, <1>5
  <2> HIDE DEF rs
  <2> QED BY <1>4, <2>1
<1>10. t.of = "fly_job_logs" => rs = << Request(f, t, "fly_job_logs") >>
  <2> SUFFICES ASSUME t.of = "fly_job_logs" PROVE rs = << Request(f, t, "fly_job_logs") >>
    OBVIOUS
  <2>1. g = <<"fly_job_logs">> /\ Len(g) = 1 /\ 1 .. 1 = {1}
    BY <1>2
  <2>2. rs = [k \in {1} |-> Request(f, t, "fly_job_logs")]
    BY <1>3, <2>1
  <2> QED BY <2>2
<1> QED BY <1>2, <1>7, <1>8, <1>9, <1>10 DEF g

\* What a task needs is for its own fetch, period and department.
LEMMA NeedsAre ==
  ASSUME source \in {"http", "sql"}, NEW f \in Fetches, NEW t \in FetchTasks
  PROVE  /\ Needs(f, t) \subseteq Queryings
         /\ \A r \in Needs(f, t) : /\ r.f = f /\ r.period = t.period /\ r.dept = t.dept
                                   /\ r = Request(f, t, r.part)
         /\ source = "sql" /\ t.of = "scoped" => Telemetry(f, t) \in Needs(f, t)
         /\ \A r \in Needs(f, t) : r.part = "telemetry" => source = "sql" /\ t.of = "scoped"
<1>1. /\ RequestsOf(f, t) \in Seq(Queryings)
      /\ \A k \in DOMAIN RequestsOf(f, t) :
              LET r == RequestsOf(f, t)[k]
              IN /\ r.f = f /\ r.period = t.period /\ r.dept = t.dept /\ r.part # "telemetry"
                 /\ r = Request(f, t, r.part)
  BY RequestsAre
<1>2. /\ Telemetry(f, t) \in Queryings /\ Telemetry(f, t).f = f
      /\ Telemetry(f, t).period = t.period /\ Telemetry(f, t).dept = t.dept
      /\ Telemetry(f, t).part = "telemetry"
      /\ Telemetry(f, t) = Request(f, t, "telemetry")
  BY DEF Telemetry, Request, Queryings, FetchTasks
<1>3. /\ Range(RequestsOf(f, t)) \subseteq Queryings
      /\ \A r \in Range(RequestsOf(f, t)) :
           /\ r.f = f /\ r.period = t.period /\ r.dept = t.dept
           /\ r.part # "telemetry" /\ r = Request(f, t, r.part)
  BY <1>1 DEF Range
<1>5. /\ \A r \in Needs(f, t) : r \in Range(RequestsOf(f, t)) \/ r = Telemetry(f, t)
      /\ source = "sql" /\ t.of = "scoped" => Telemetry(f, t) \in Needs(f, t)
      /\ Telemetry(f, t) \in Needs(f, t) =>
           Telemetry(f, t) \in Range(RequestsOf(f, t)) \/ (source = "sql" /\ t.of = "scoped")
  BY DEF Needs
<1> QED BY <1>2, <1>3, <1>5

LEMMA OwnAre ==
  ASSUME CollectionTypeOK, NEW f \in Fetches
  PROVE  /\ Own(f) \subseteq Queryings
         /\ \A n \in 1 .. Len(Tasks(f)) : Tasks(f)[n] \in FetchTasks /\ Needs(f, Tasks(f)[n]) \subseteq Own(f)
         /\ \A r \in Own(f) : \E n \in 1 .. Len(Tasks(f)) : r \in Needs(f, Tasks(f)[n])
         /\ Tasks(f) \in Seq(FetchTasks) /\ DOMAIN Tasks(f) = 1 .. Len(Tasks(f))
<1>1. Tasks(f) \in Seq(FetchTasks)
  BY TasksAre DEF CollectionTypeOK
<1>2. DOMAIN Tasks(f) = 1 .. Len(Tasks(f)) /\ \A n \in 1 .. Len(Tasks(f)) : Tasks(f)[n] \in FetchTasks
  <2> DEFINE ts == Tasks(f)
  <2>1. ts \in Seq(FetchTasks)
    BY <1>1
  <2> HIDE DEF ts
  <2>2. DOMAIN ts = 1 .. Len(ts) /\ \A n \in 1 .. Len(ts) : ts[n] \in FetchTasks
    BY <2>1
  <2> QED BY <2>2 DEF ts
<1>3. \A n \in 1 .. Len(Tasks(f)) : Needs(f, Tasks(f)[n]) \subseteq Queryings
  BY <1>2, NeedsAre DEF CollectionTypeOK
<1> QED BY <1>1, <1>2, <1>3 DEF Own

\* What a fetch asks for is settled when it begins.
LEMMA TasksStay ==
  ASSUME source' = source, asked' = asked, NEW f
  PROVE  /\ Tasks(f)' = Tasks(f) /\ Targets(f)' = Targets(f)
         /\ \A t : Gathered(t)' = Gathered(t) /\ Needs(f, t)' = Needs(f, t)
         /\ \A t : RequestsOf(f, t)' = RequestsOf(f, t)
         /\ Own(f)' = Own(f) /\ Slots' = Slots
<1>1. Targets(f)' = Targets(f)
  BY DEF Targets
<1>2. Tasks(f)' = Tasks(f)
  BY <1>1 DEF Tasks
<1>3. \A t : Gathered(t)' = Gathered(t)
  BY DEF Gathered
<1>4. \A t : RequestsOf(f, t)' = RequestsOf(f, t)
  BY <1>3 DEF RequestsOf
<1>5. \A t : Needs(f, t)' = Needs(f, t)
  BY <1>4 DEF Needs, Telemetry
<1>6. Own(f)' = Own(f) /\ Slots' = Slots
  BY <1>2, <1>5 DEF Own, Slots
<1> QED BY <1>1, <1>2, <1>3, <1>4, <1>5, <1>6

Settled(r) == At(r) \in {"data", "error", "zero"}

\* The place of an answer in a dataset.
LEMMA PlacesAre ==
  ASSUME CollectionTypeOK, NEW f \in Fetches, NEW p \in {"current", "previous"},
         NEW d \in Range(Targets(f))
  PROVE  \E n \in 1 .. Len(Tasks(f)) : Tasks(f)[n] = ScopedTask(p, d)
<1> DEFINE n == Len(Targets(f))
<1>1. /\ n \in Nat \ {0} /\ Len(Tasks(f)) = 2 + (n + n)
      /\ \A k \in 1 .. n : /\ Tasks(f)[2 + k] = ScopedTask("current", Targets(f)[k])
                           /\ Tasks(f)[2 + n + k] = ScopedTask("previous", Targets(f)[k])
  BY TasksAre DEF CollectionTypeOK
<1>2. DOMAIN Targets(f) = 1 .. n
  <2>1. Targets(f) \in Seq(Departments)
    BY TargetsAre DEF CollectionTypeOK
  <2> QED BY <2>1
<1>3. PICK k \in 1 .. n : Targets(f)[k] = d
  BY <1>2 DEF Range
<1> HIDE DEF n
<1>4. 2 + k \in 1 .. 2 + (n + n) /\ 2 + n + k \in 1 .. 2 + (n + n)
  BY <1>1
<1> QED BY <1>1, <1>3, <1>4 DEF n

\* What a fetch knows stays true while requests only end.
LEMMA FetchStays ==
  ASSUME CollectionInv, NEW f \in Fetches, source' = source, asked' = asked,
         fetch'[f] = fetch[f], at'[f] = at[f], raw'[f] = raw[f],
         \A r \in Queryings : Settled(r) => At(r)' = At(r)
  PROVE  FetchInStep(f)'
<1>1. FetchInStep(f) /\ CollectionTypeOK
  BY DEF CollectionInv, FetchesInStep
<1>2. /\ Tasks(f)' = Tasks(f) /\ Own(f)' = Own(f) /\ Targets(f)' = Targets(f)
      /\ \A t : Needs(f, t)' = Needs(f, t)
  BY TasksStay
<1>3. ASSUME NEW n \in 1 .. Len(Tasks(f)), Fulfilled(f, Tasks(f)[n])
      PROVE  Fulfilled(f, Tasks(f)[n])' /\ \A r \in Needs(f, Tasks(f)[n]) : At(r)' = At(r)
  <2>1. \A r \in Needs(f, Tasks(f)[n]) : r \in Queryings /\ At(r) \in {"data", "zero"}
    BY <1>1, <1>3, OwnAre DEF Fulfilled
  <2>2. \A r \in Needs(f, Tasks(f)[n]) : At(r)' = At(r) /\ At(r)' \in {"data", "zero"}
    BY <2>1 DEF Settled
  <2> QED BY <1>2, <2>2 DEF Fulfilled
<1>4. at[f] \in 1 .. Len(Tasks(f)) /\ Len(Tasks(f)) \in Nat
  <2>1. Tasks(f) \in Seq(FetchTasks)
    BY <1>1, OwnAre
  <2> QED BY <1>1, <2>1 DEF FetchInStep
<1>5. fetch'[f] = "waits" => \A n \in 1 .. at'[f] - 1 : Fulfilled(f, Tasks(f)[n])'
  <2> SUFFICES ASSUME fetch[f] = "waits", NEW n \in 1 .. at[f] - 1
               PROVE  Fulfilled(f, Tasks(f)[n])'
    OBVIOUS
  <2>1. n \in 1 .. Len(Tasks(f))
    BY <1>4
  <2>2. Fulfilled(f, Tasks(f)[n])
    BY <1>1 DEF FetchInStep
  <2> QED BY <1>3, <2>1, <2>2
<1>6. fetch'[f] = "raised" => \E r \in Own(f) : At(r)' = "error"
  BY <1>1, OwnAre DEF FetchInStep, Settled
<1>7. fetch'[f] = "returned" =>
        (\A n \in 1 .. Len(Tasks(f)) : Fulfilled(f, Tasks(f)[n])') /\ raw'[f] = Dataset(f)'
  <2> SUFFICES ASSUME fetch[f] = "returned"
               PROVE  (\A n \in 1 .. Len(Tasks(f)) : Fulfilled(f, Tasks(f)[n])')
                      /\ raw'[f] = Dataset(f)'
    OBVIOUS
  <2>1. (\A n \in 1 .. Len(Tasks(f)) : Fulfilled(f, Tasks(f)[n])) /\ raw[f] = Dataset(f)
    BY <1>1 DEF FetchInStep
  <2>2. \A p \in {"current", "previous"}, d \in Range(Targets(f)) :
          source = "sql" => At(Telemetry(f, TaskOf(p, "fly_statis", d)))'
                              = At(Telemetry(f, TaskOf(p, "fly_statis", d)))
    <3> SUFFICES ASSUME NEW p \in {"current", "previous"}, NEW d \in Range(Targets(f)), source = "sql"
                 PROVE  At(Telemetry(f, TaskOf(p, "fly_statis", d)))'
                              = At(Telemetry(f, TaskOf(p, "fly_statis", d)))
      OBVIOUS
    <3>1. PICK n \in 1 .. Len(Tasks(f)) : Tasks(f)[n] = ScopedTask(p, d)
      BY <1>1, PlacesAre
    <3>2. Telemetry(f, Tasks(f)[n]) \in Needs(f, Tasks(f)[n])
      BY <1>1, <3>1, OwnAre, NeedsAre DEF CollectionTypeOK, ScopedTask
    <3>3. Telemetry(f, TaskOf(p, "fly_statis", d)) = Telemetry(f, Tasks(f)[n])
      BY <3>1 DEF Telemetry, Request, TaskOf, ScopedTask
    <3> QED BY <1>3, <2>1, <3>2, <3>3
  <2>3. Range(Periods) = {"current", "previous"}
    BY DEF Range, Periods
  <2>4. \A p \in {"current", "previous"}, e \in Range(Endpoints) \cup {"fly_job_logs"} :
          \A d \in IF e = "fly_job_logs" THEN {All} ELSE Range(Targets(f)) :
            Payload(f, TaskOf(p, e, d), e)' = Payload(f, TaskOf(p, e, d), e)
    <3> TAKE p \in {"current", "previous"}, e \in Range(Endpoints) \cup {"fly_job_logs"}
    <3> TAKE d \in IF e = "fly_job_logs" THEN {All} ELSE Range(Targets(f))
    <3>1. Queries(e)' = Queries(e)
      BY DEF Queries
    <3>2. source = "sql" /\ e = "fly_statis" =>
            At(Telemetry(f, TaskOf(p, e, d)))' = At(Telemetry(f, TaskOf(p, e, d)))
      BY <2>2
    <3>3. CASE source = "sql" /\ e = "fly_statis"
      BY <3>1, <3>2, <3>3 DEF Payload
    <3>4. CASE ~(source = "sql" /\ e = "fly_statis")
      BY <3>1, <3>4 DEF Payload
    <3> QED BY <3>3, <3>4
  <2>5. Dataset(f)' = Dataset(f)
    BY <1>2, <2>3, <2>4 DEF Dataset
  <2> QED BY <1>3, <2>1, <2>5
<1> QED BY <1>1, <1>2, <1>4, <1>5, <1>6, <1>7 DEF FetchInStep

-----------------------------------------------------------------------------
(* One request changes *)

\* Who holds a slot was sent.
LEMMA HoldersAre ==
  ASSUME NEW calls, DOMAIN calls \subseteq Queryings, IsFiniteSet(DOMAIN calls)
  PROVE  LET where(r) == IF r \in DOMAIN calls THEN calls[r].at ELSE "unasked"
             holding(r) == where(r) = "out" /\ r.part # "telemetry"
         IN /\ {r \in DOMAIN calls : holding(r)} = {r \in Queryings : holding(r)}
            /\ IsFiniteSet({r \in Queryings : holding(r)})
<1> DEFINE where(r) == IF r \in DOMAIN calls THEN calls[r].at ELSE "unasked"
           holding(r) == where(r) = "out" /\ r.part # "telemetry"
<1>1. \A r \in Queryings : holding(r) => r \in DOMAIN calls
  OBVIOUS
<1>2. {r \in DOMAIN calls : holding(r)} = {r \in Queryings : holding(r)}
  BY <1>1
<1>3. IsFiniteSet({r \in DOMAIN calls : holding(r)})
  BY FS_Subset
<1> QED BY <1>2, <1>3

\* The slots are accounted for if one is taken, given back, or none changes hands.
LEMMA SlotsStay ==
  ASSUME CollectionTypeOK, CollectionTypeOK', SlotsInStep, source' = source,
         NEW r \in Queryings,
         \A q \in Queryings \ {r} : Holding(q)' <=> Holding(q),
         \/ (Holding(r)' <=> Holding(r)) /\ free' = free
         \/ Holding(r)' /\ ~Holding(r) /\ free' = free - 1
         \/ ~Holding(r)' /\ Holding(r) /\ free' = free + 1
  PROVE  SlotsInStep'
<1> DEFINE H == {q \in Queryings : Holding(q)}
           I == {q \in Queryings : Holding(q)'}
<1>1. /\ {q \in DOMAIN request : Holding(q)} = H /\ IsFiniteSet(H)
      /\ {q \in DOMAIN request' : Holding(q)'} = I /\ IsFiniteSet(I)
  <2>1. /\ DOMAIN request \subseteq Queryings /\ IsFiniteSet(DOMAIN request)
        /\ DOMAIN request' \subseteq Queryings /\ IsFiniteSet(DOMAIN request')
    BY DEF CollectionTypeOK
  <2>2. {q \in DOMAIN request : Holding(q)} = H /\ IsFiniteSet(H)
    BY <2>1, HoldersAre DEF Holding, At
  <2>3. {q \in DOMAIN request' : Holding(q)'} = I /\ IsFiniteSet(I)
    BY <2>1, HoldersAre DEF Holding, At
  <2> QED BY <2>2, <2>3
<1>2. Cardinality(H) \in Nat /\ Cardinality(I) \in Nat
  BY <1>1, FS_CardinalityType
<1>3. free + Cardinality(H) = Slots /\ Slots' = Slots /\ free \in Nat
  BY <1>1 DEF SlotsInStep, Slots, CollectionTypeOK
<1>4. CASE (Holding(r)' <=> Holding(r)) /\ free' = free
  <2>1. H = I
    BY <1>4
  <2> QED BY <1>1, <1>3, <1>4, <2>1 DEF SlotsInStep
<1>5. CASE Holding(r)' /\ ~Holding(r) /\ free' = free - 1
  <2>1. I = H \cup {r} /\ r \notin H
    BY <1>5
  <2>2. Cardinality(I) = Cardinality(H) + 1
    BY <1>1, <2>1, FS_AddElement
  <2> HIDE DEF H, I
  <2>3. free' + Cardinality(I) = Slots'
    BY <1>2, <1>3, <1>5, <2>2
  <2> QED BY <1>1, <2>3 DEF SlotsInStep
<1>6. CASE ~Holding(r)' /\ Holding(r) /\ free' = free + 1
  <2>1. H = I \cup {r} /\ r \notin I
    BY <1>6
  <2>2. Cardinality(H) = Cardinality(I) + 1
    BY <1>1, <2>1, FS_AddElement
  <2> HIDE DEF H, I
  <2>3. free' + Cardinality(I) = Slots'
    BY <1>2, <1>3, <1>6, <2>2
  <2> QED BY <1>1, <2>3 DEF SlotsInStep
<1> QED BY <1>4, <1>5, <1>6

\* What becomes of the requests when one does something.
LEMMA OneCalls ==
  ASSUME CollectionTypeOK, NEW r \in DOMAIN request, NEW c \in Calling,
         request' = [request EXCEPT ![r] = c]
  PROVE  /\ DOMAIN request' = DOMAIN request /\ request' \in [DOMAIN request -> Calling]
         /\ r \in Queryings /\ request[r] \in Calling
         /\ At(r) = request[r].at /\ At(r)' = c.at /\ request'[r] = c
         /\ \A q \in Queryings \ {r} :
              At(q)' = At(q) /\ (q \in DOMAIN request => request'[q] = request[q])
<1>1. /\ DOMAIN request' = DOMAIN request /\ request' \in [DOMAIN request -> Calling]
      /\ r \in Queryings /\ request[r] \in Calling /\ request'[r] = c
      /\ \A q \in Queryings \ {r} : q \in DOMAIN request => request'[q] = request[q]
  BY DEF CollectionTypeOK
<1> QED BY <1>1 DEF At

\* A request that has not ended does something.
LEMMA OneCallKeeps ==
  ASSUME CollectionInv, NEW r \in DOMAIN request, NEW c \in Calling,
         request' = [request EXCEPT ![r] = c],
         UNCHANGED <<source, asked, fetch, at, raw>>, ~Settled(r),
         line' \in Seq(Queryings), free' \in Nat, LineInStep', CallInStep(r)',
         \/ (Holding(r)' <=> Holding(r)) /\ free' = free
         \/ Holding(r)' /\ ~Holding(r) /\ free' = free - 1
         \/ ~Holding(r)' /\ Holding(r) /\ free' = free + 1
  PROVE  CollectionInv'
<1>1. /\ DOMAIN request' = DOMAIN request /\ request' \in [DOMAIN request -> Calling]
      /\ r \in Queryings
      /\ \A q \in Queryings \ {r} :
           At(q)' = At(q) /\ (q \in DOMAIN request => request'[q] = request[q])
  BY OneCalls DEF CollectionInv
<1>2. CollectionTypeOK'
  BY <1>1 DEF CollectionInv, CollectionTypeOK
<1>3. \A q \in Queryings \ {r} : Holding(q)' <=> Holding(q)
  BY <1>1 DEF Holding
<1>4. SlotsInStep'
  BY <1>1, <1>2, <1>3, SlotsStay DEF CollectionInv
<1>5. CallsInStep'
  <2> SUFFICES ASSUME NEW q \in DOMAIN request PROVE CallInStep(q)'
    BY <1>1 DEF CallsInStep
  <2>1. CASE q # r
    <3>1. At(q)' = At(q) /\ request'[q] = request[q] /\ q \in Queryings
      BY <1>1, <2>1 DEF CollectionInv, CollectionTypeOK
    <3>2. CallInStep(q) /\ fetch' = fetch
      BY DEF CollectionInv, CallsInStep
    <3> QED BY <3>1, <3>2 DEF CallInStep
  <2> QED BY <2>1
<1>6. \A q \in Queryings : Settled(q) => At(q)' = At(q)
  BY <1>1
<1>7. FetchesInStep'
  <2> SUFFICES ASSUME NEW f \in Fetches PROVE FetchInStep(f)'
    BY DEF FetchesInStep
  <2> QED BY <1>6, FetchStays
<1> QED BY <1>2, <1>4, <1>5, <1>7 DEF CollectionInv

\* The line stays if who waits does.
LEMMA LineStays ==
  ASSUME LineInStep, line' = line,
         \A q \in Queryings : At(q)' = "waiting" <=> At(q) = "waiting"
  PROVE  LineInStep'
BY DEF LineInStep

LEMMA SentIs ==
  ASSUME NEW x \in Calling
  PROVE  /\ Sent(x) \in Calling /\ Sent(x).at = "out" /\ Sent(x).tries = x.tries + 1
         /\ Sent(x).last = x.last
BY DEF Sent, Calling

LEMMA FirstKeeps == CollectionInv /\ SendFirst => CollectionInv'
<1> SUFFICES ASSUME CollectionInv, SendFirst PROVE CollectionInv'
  OBVIOUS
<1> DEFINE first == Head(line)
           sending == Sent(request[first])
<1>0. line # <<>> /\ free > 0
  BY DEF SendFirst
<1>2. CollectionTypeOK /\ LineInStep
  BY DEF CollectionInv
<1>3. line \in Seq(Queryings) /\ IsInjective(line)
      /\ \A q \in Queryings : q \in Range(line) <=> At(q) = "waiting"
  BY <1>2 DEF CollectionTypeOK, LineInStep
<1>31. PICK r : r = first
  OBVIOUS
<1>32. PICK c : c = sending
  OBVIOUS
<1>1. /\ free' = free - 1 /\ line' = Tail(line) /\ r = Head(line)
      /\ request' = [request EXCEPT ![r] = c] /\ c = Sent(request[r])
      /\ UNCHANGED <<source, asked, fetch, at, raw, collectionFaults>>
  BY <1>31, <1>32 DEF SendFirst
<1>4. /\ r \in Queryings /\ r \in Range(line)
      /\ Tail(line) \in Seq(Queryings) /\ IsInjective(Tail(line))
      /\ Range(Tail(line)) = Range(line) \ {r}
  BY <1>0, <1>1, <1>3, TailHas
<1>5. At(r) = "waiting" /\ r \in DOMAIN request
  BY <1>3, <1>4 DEF At
<1>6. request[r] \in Calling /\ CallInStep(r)
  BY <1>2, <1>5 DEF CollectionTypeOK, CollectionInv, CallsInStep
<1>7. c \in Calling /\ c.at = "out" /\ c.tries = request[r].tries + 1 /\ c.last = request[r].last
  BY <1>1, <1>6, SentIs
<1>8. /\ At(r)' = "out" /\ request'[r] = c
      /\ \A q \in Queryings \ {r} : At(q)' = At(q)
  BY <1>1, <1>2, <1>5, <1>7, OneCalls
<1>9. LineInStep'
  BY <1>1, <1>3, <1>4, <1>8 DEF LineInStep
<1>10. r.part # "telemetry"
  BY <1>5, <1>6 DEF CallInStep
<1>11. CallInStep(r)'
  BY <1>1, <1>5, <1>6, <1>7, <1>8, CollectionAssumption DEF CallInStep, Calling
<1>12. Holding(r)' /\ ~Holding(r) /\ ~Settled(r)
  BY <1>5, <1>8, <1>10 DEF Holding, Settled
<1>13. free' \in Nat /\ line' \in Seq(Queryings)
  BY <1>0, <1>1, <1>2, <1>4 DEF CollectionTypeOK
<1> QED BY <1>1, <1>5, <1>7, <1>9, <1>11, <1>12, <1>13, OneCallKeeps

LEMMA AnswerKeeps == \A r \in DOMAIN request : CollectionInv /\ Answer(r) => CollectionInv'
<1> SUFFICES ASSUME NEW r \in DOMAIN request, CollectionInv, Answer(r) PROVE CollectionInv'
  OBVIOUS
<1>1. PICK reply \in Answers(r) :
         /\ At(r) = "out"
         /\ request' = [request EXCEPT ![r].at = Outcome(r, reply), ![r].last = reply]
         /\ free' = IF r.part = "telemetry" THEN free ELSE free + 1
         /\ UNCHANGED <<source, asked, fetch, at, raw, line>>
  BY DEF Answer
<1> DEFINE c == [request[r] EXCEPT !.at = Outcome(r, reply), !.last = reply]
<1>2. CollectionTypeOK /\ LineInStep /\ CallInStep(r) /\ r \in Queryings
  BY DEF CollectionInv, CallsInStep, CollectionTypeOK
<1>3. request[r] \in Calling /\ request \in [DOMAIN request -> Calling]
  BY <1>2 DEF CollectionTypeOK
<1>4. /\ reply \in {"data", "passing", "final"}
      /\ reply = "passing" => source = "http" \/ r.part = "telemetry"
  BY DEF Answers
<1>5. /\ Outcome(r, reply) \in {"data", "backoff", "zero", "error"}
      /\ Outcome(r, reply) = "zero" => r.part = "telemetry"
      /\ Outcome(r, reply) = "error" => r.part # "telemetry"
      /\ Outcome(r, reply) = "backoff" => reply = "passing" /\ request[r].tries <= MaxRequestRetries
      /\ Outcome(r, reply) \in {"error", "zero"} /\ reply = "passing" =>
           ~(request[r].tries <= MaxRequestRetries)
  BY DEF Outcome
<1>6. /\ c \in Calling /\ c.at = Outcome(r, reply) /\ c.last = reply
      /\ c.tries = request[r].tries
  BY <1>3, <1>4, <1>5 DEF Calling
<1>7. request' = [request EXCEPT ![r] = c]
  BY <1>1, <1>3 DEF Calling
<1> HIDE DEF c
<1>8. /\ At(r)' = Outcome(r, reply) /\ request'[r] = c
      /\ \A q \in Queryings \ {r} : At(q)' = At(q)
  BY <1>2, <1>6, <1>7, OneCalls
<1>9. LineInStep'
  BY <1>1, <1>2, <1>5, <1>8, LineStays
<1>10. CallInStep(r)'
  <2>1. request[r].tries \in Nat /\ MaxRequestRetries \in Nat
    BY <1>3, CollectionAssumption DEF Calling
  <2> QED BY <1>1, <1>2, <1>4, <1>5, <1>6, <1>8, <2>1 DEF CallInStep
<1>11. \/ (Holding(r)' <=> Holding(r)) /\ free' = free
       \/ ~Holding(r)' /\ Holding(r) /\ free' = free + 1
  BY <1>1, <1>5, <1>8 DEF Holding
<1>12. ~Settled(r)
  BY <1>1 DEF Settled
<1>13. free' \in Nat /\ line' \in Seq(Queryings)
  BY <1>1, <1>2 DEF CollectionTypeOK
<1> QED BY <1>1, <1>6, <1>7, <1>9, <1>10, <1>11, <1>12, <1>13, OneCallKeeps

LEMMA RetryKeeps == \A r \in DOMAIN request : CollectionInv /\ Retry(r) => CollectionInv'
<1> SUFFICES ASSUME NEW r \in DOMAIN request, CollectionInv, Retry(r) PROVE CollectionInv'
  OBVIOUS
<1>1. /\ At(r) = "backoff" /\ UNCHANGED <<source, asked, fetch, at, raw, free>>
      /\ r.part = "telemetry" => request' = [request EXCEPT ![r] = Sent(request[r])] /\ line' = line
      /\ r.part # "telemetry" =>
           request' = [request EXCEPT ![r].at = "waiting"] /\ line' = Append(line, r)
  BY DEF Retry
<1>2. CollectionTypeOK /\ LineInStep /\ CallInStep(r) /\ r \in Queryings
  BY DEF CollectionInv, CallsInStep, CollectionTypeOK
<1>3. request[r] \in Calling /\ request \in [DOMAIN request -> Calling]
  BY <1>2 DEF CollectionTypeOK
<1>4. line \in Seq(Queryings) /\ IsInjective(line) /\ free \in Nat
      /\ \A q \in Queryings : q \in Range(line) <=> At(q) = "waiting"
  BY <1>2 DEF CollectionTypeOK, LineInStep
<1>5. ~Settled(r) /\ ~Holding(r)
  BY <1>1 DEF Settled, Holding
<1>6. CASE r.part = "telemetry"
  <2>1. PICK c : c = Sent(request[r])
    OBVIOUS
  <2>2. /\ c \in Calling /\ c.at = "out" /\ c.tries = request[r].tries + 1
        /\ c.last = request[r].last /\ request' = [request EXCEPT ![r] = c]
    BY <1>1, <1>3, <1>6, <2>1, SentIs
  <2>3. /\ At(r)' = "out" /\ request'[r] = c
        /\ \A q \in Queryings \ {r} : At(q)' = At(q)
    BY <1>2, <2>2, OneCalls
  <2>4. LineInStep'
    BY <1>1, <1>2, <1>6, <2>3, LineStays
  <2>5. CallInStep(r)'
    <3>1. request[r].tries \in Nat /\ MaxRequestRetries \in Nat
      BY <1>3, CollectionAssumption DEF Calling
    <3>2. request[r].tries <= MaxRequestRetries
      BY <1>1, <1>2 DEF CallInStep
    <3> QED BY <1>1, <1>2, <1>6, <2>2, <2>3, <3>1, <3>2 DEF CallInStep
  <2>6. ~Holding(r)' /\ line' \in Seq(Queryings) /\ free' \in Nat /\ free' = free
    BY <1>1, <1>4, <1>6 DEF Holding
  <2> QED BY <1>1, <1>5, <2>2, <2>4, <2>5, <2>6, OneCallKeeps
<1>7. CASE r.part # "telemetry"
  <2> DEFINE c == [request[r] EXCEPT !.at = "waiting"]
  <2>2. /\ c \in Calling /\ c.at = "waiting" /\ c.tries = request[r].tries
        /\ c.last = request[r].last
    BY <1>3 DEF Calling
  <2>1. request' = [request EXCEPT ![r] = c]
    BY <1>1, <1>3, <1>7 DEF Calling
  <2> HIDE DEF c
  <2>3. /\ At(r)' = "waiting" /\ request'[r] = c
        /\ \A q \in Queryings \ {r} : At(q)' = At(q)
    BY <1>2, <2>1, <2>2, OneCalls
  <2>4. /\ Append(line, r) \in Seq(Queryings) /\ IsInjective(Append(line, r))
        /\ Range(Append(line, r)) = Range(line) \cup {r}
    <3>1. r \notin Range(line)
      BY <1>1, <1>2, <1>4
    <3> QED BY ONLY <1>2, <1>4, <3>1, AppendNew
  <2>5. LineInStep'
    BY <1>1, <1>2, <1>4, <1>7, <2>3, <2>4 DEF LineInStep
  <2>6. CallInStep(r)'
    BY <1>1, <1>2, <1>7, <2>2, <2>3 DEF CallInStep
  <2>7. ~Holding(r)' /\ line' \in Seq(Queryings) /\ free' \in Nat /\ free' = free
    BY <1>1, <1>4, <1>7, <2>3, <2>4 DEF Holding
  <2> QED BY <1>1, <1>5, <2>1, <2>2, <2>5, <2>6, <2>7, OneCallKeeps
<1> QED BY <1>6, <1>7

LEMMA GiveUpKeeps == \A r \in DOMAIN request : CollectionInv /\ GiveUpWaiting(r) => CollectionInv'
<1> SUFFICES ASSUME NEW r \in DOMAIN request, CollectionInv, GiveUpWaiting(r) PROVE CollectionInv'
  OBVIOUS
<1>1. PICK n \in DOMAIN line :
         /\ At(r) = "waiting" /\ UNCHANGED <<source, asked, fetch, at, raw, free>>
         /\ line[n] = r /\ line' = RemoveAt(line, n)
         /\ request' = [request EXCEPT ![r].at = "error", ![r].last = "final"]
  BY DEF GiveUpWaiting
<1> DEFINE c == [request[r] EXCEPT !.at = "error", !.last = "final"]
<1>2. CollectionTypeOK /\ LineInStep /\ CallInStep(r) /\ r \in Queryings
  BY DEF CollectionInv, CallsInStep, CollectionTypeOK
<1>3. request[r] \in Calling /\ request \in [DOMAIN request -> Calling]
  BY <1>2 DEF CollectionTypeOK
<1>4. line \in Seq(Queryings) /\ IsInjective(line) /\ free \in Nat
      /\ \A q \in Queryings : q \in Range(line) <=> At(q) = "waiting"
  BY <1>2 DEF CollectionTypeOK, LineInStep
<1>5. ~Settled(r) /\ ~Holding(r) /\ r.part # "telemetry"
  BY <1>1, <1>2 DEF Settled, Holding, CallInStep
<1>6. /\ c \in Calling /\ c.at = "error" /\ c.last = "final" /\ c.tries = request[r].tries
  BY <1>3 DEF Calling
<1>7. request' = [request EXCEPT ![r] = c]
  BY <1>1, <1>3 DEF Calling
<1> HIDE DEF c
<1>8. /\ At(r)' = "error" /\ request'[r] = c
      /\ \A q \in Queryings \ {r} : At(q)' = At(q)
  BY <1>2, <1>6, <1>7, OneCalls
<1>9. /\ line' \in Seq(Queryings) /\ IsInjective(line') /\ Range(line') = Range(line) \ {r}
  <2>1. /\ RemoveAt(line, n) \in Seq(Queryings) /\ IsInjective(RemoveAt(line, n))
        /\ Range(RemoveAt(line, n)) = Range(line) \ {line[n]}
    BY ONLY <1>1, <1>4, RemoveAtHas
  <2> QED BY <1>1, <2>1
<1>10. LineInStep'
  BY <1>2, <1>4, <1>8, <1>9 DEF LineInStep
<1>11. CallInStep(r)'
  BY <1>1, <1>2, <1>5, <1>6, <1>8 DEF CallInStep
<1>12. ~Holding(r)' /\ free' \in Nat /\ free' = free
  BY <1>1, <1>4, <1>8 DEF Holding
<1> QED BY <1>1, <1>5, <1>6, <1>7, <1>9, <1>10, <1>11, <1>12, OneCallKeeps

-----------------------------------------------------------------------------
(* Requests are made *)

LEMMA NewIs ==
  /\ New("waiting", 0) = [at |-> "waiting", tries |-> 0, last |-> NoData]
  /\ New("out", 1) = [at |-> "out", tries |-> 1, last |-> NoData]
  /\ New("data", 0) = [at |-> "data", tries |-> 0, last |-> NoData]
BY DEF New

\* Requests that nobody made before are added to those made.
LEMMA AddedAre ==
  ASSUME CollectionTypeOK, NEW rs, NEW c \in Calling, rs \subseteq Queryings,
         rs \cap DOMAIN request = {}, IsFiniteSet(rs), request' = With(rs, c)
  PROVE  /\ DOMAIN request' = DOMAIN request \cup rs /\ DOMAIN request' \subseteq Queryings
         /\ IsFiniteSet(DOMAIN request') /\ request' \in [DOMAIN request' -> Calling]
         /\ \A q \in Queryings \ rs :
              At(q)' = At(q) /\ (q \in DOMAIN request => request'[q] = request[q])
         /\ \A r \in rs : At(r) = "unasked" /\ At(r)' = c.at /\ request'[r] = c
<1>1. /\ DOMAIN request \subseteq Queryings /\ IsFiniteSet(DOMAIN request)
      /\ request \in [DOMAIN request -> Calling]
  BY DEF CollectionTypeOK
<1>2. request' = [r \in DOMAIN request \cup rs |->
                    IF r \in DOMAIN request THEN request[r] ELSE c]
  BY DEF With
<1>3. /\ DOMAIN request' = DOMAIN request \cup rs
      /\ \A q \in DOMAIN request : request'[q] = request[q]
      /\ \A r \in rs : request'[r] = c /\ r \notin DOMAIN request
      /\ request' \in [DOMAIN request \cup rs -> Calling]
  BY <1>1, <1>2
<1>4. IsFiniteSet(DOMAIN request \cup rs)
  BY <1>1, FS_Union
<1>5. \A q \in Queryings \ rs : At(q)' = At(q)
  BY <1>3 DEF At
<1>6. \A r \in rs : At(r) = "unasked" /\ At(r)' = c.at
  BY <1>3 DEF At
<1> QED BY <1>1, <1>3, <1>4, <1>5, <1>6

LEMMA TelemetryKeeps ==
  \A f \in Fetches : \A n \in DOMAIN Tasks(f) :
    CollectionInv /\ AskTelemetry(f, Tasks(f)[n]) => CollectionInv'
<1> SUFFICES ASSUME NEW f \in Fetches, NEW n \in DOMAIN Tasks(f), CollectionInv,
                    AskTelemetry(f, Tasks(f)[n])
             PROVE  CollectionInv'
  OBVIOUS
<1>1. PICK t : t = Tasks(f)[n]
  OBVIOUS
<1>2. PICK r : r = Telemetry(f, t)
  OBVIOUS
<1>3. /\ source = "sql" /\ t.of = "scoped" /\ r \notin DOMAIN request
      /\ \A q \in Queries("fly_statis") : At(Request(f, t, q)) = "data"
      /\ request' \in {With({r}, New("out", 1)), With({r}, New("data", 0))}
      /\ UNCHANGED <<source, asked, fetch, at, raw, line, free, collectionFaults>>
  BY <1>1, <1>2 DEF AskTelemetry
<1>4. CollectionTypeOK /\ LineInStep /\ SlotsInStep /\ CallsInStep
  BY DEF CollectionInv
<1>5. t \in FetchTasks
  BY <1>1, <1>4, OwnAre
<1>6. r \in Queryings /\ r.f = f /\ r.part = "telemetry"
  BY <1>2, <1>5 DEF Telemetry, Request, Queryings, FetchTasks
<1>7. fetch[f] # "new" /\ fetch[f] # "begun"
  <2>1. PICK q : q = Request(f, t, "counts")
    OBVIOUS
  <2>2. q.f = f /\ q.part = "counts" /\ At(q) = "data"
    BY <1>3, <2>1 DEF Request, Queries
  <2>3. q \in DOMAIN request
    BY <2>2 DEF At
  <2> QED BY <1>4, <2>2, <2>3 DEF CallsInStep, CallInStep
<1>8. PICK c \in {New("out", 1), New("data", 0)} : request' = With({r}, c)
  BY <1>3
<1>9. c \in Calling /\ c.at \in {"out", "data"} /\ c.tries \in 0 .. 1 /\ c.last = NoData
  BY <1>8, NewIs DEF Calling
<1>10. /\ DOMAIN request' = DOMAIN request \cup {r} /\ DOMAIN request' \subseteq Queryings
       /\ IsFiniteSet(DOMAIN request') /\ request' \in [DOMAIN request' -> Calling]
       /\ \A q \in Queryings \ {r} :
            At(q)' = At(q) /\ (q \in DOMAIN request => request'[q] = request[q])
       /\ At(r) = "unasked" /\ At(r)' = c.at /\ request'[r] = c
  <2>1. IsFiniteSet({r}) /\ {r} \cap DOMAIN request = {} /\ {r} \subseteq Queryings
    BY <1>3, <1>6, FS_Singleton
  <2> QED BY <1>4, <1>8, <1>9, <2>1, AddedAre
<1>11. CollectionTypeOK'
  BY <1>3, <1>4, <1>10 DEF CollectionTypeOK
<1>12. LineInStep'
  BY <1>3, <1>4, <1>9, <1>10, LineStays
<1>13. SlotsInStep'
  <2>1. \A q \in Queryings \ {r} : Holding(q)' <=> Holding(q)
    BY <1>10 DEF Holding
  <2>2. ~Holding(r)' /\ ~Holding(r)
    BY <1>6 DEF Holding
  <2> QED BY <1>3, <1>4, <1>6, <1>11, <2>1, <2>2, SlotsStay
<1>14. CallsInStep'
  <2> SUFFICES ASSUME NEW q \in DOMAIN request' PROVE CallInStep(q)'
    BY DEF CallsInStep
  <2>1. CASE q # r
    <3>1. q \in DOMAIN request /\ At(q)' = At(q) /\ request'[q] = request[q]
      BY <1>10, <2>1
    <3>2. CallInStep(q) /\ fetch' = fetch
      BY <1>3, <1>4, <3>1 DEF CallsInStep
    <3> QED BY <3>1, <3>2 DEF CallInStep
  <2>2. CASE q = r
    <3>1. request'[r].tries <= MaxRequestRetries + 1
      BY <1>9, <1>10, CollectionAssumption
    <3> QED BY <1>3, <1>6, <1>7, <1>9, <1>10, <2>2, <3>1 DEF CallInStep
  <2> QED BY <2>1, <2>2
<1>15. FetchesInStep'
  <2>1. \A q \in Queryings : Settled(q) => At(q)' = At(q)
    BY <1>10 DEF Settled
  <2> SUFFICES ASSUME NEW g \in Fetches PROVE FetchInStep(g)'
    BY DEF FetchesInStep
  <2> QED BY <1>3, <2>1, FetchStays
<1> QED BY <1>11, <1>12, <1>13, <1>14, <1>15 DEF CollectionInv

\* A fetch puts its next requests in line.
LEMMA EnqueueKeeps ==
  ASSUME CollectionInv, NEW f \in Fetches, NEW rs \in Seq(Queryings), IsInjective(rs),
         Range(rs) \cap DOMAIN request = {}, Enqueue(rs),
         UNCHANGED <<source, asked, at, raw, free>>,
         NEW place \in {"begun", "waits"}, fetch' = [fetch EXCEPT ![f] = place],
         fetch[f] \in {"new", "begun"}, fetch[f] = "begun" => place = "waits",
         \A r \in Range(rs) :
           /\ r.f = f /\ r.part # "telemetry"
           /\ r.part # "fly_job_logs" => place = "waits"
  PROVE  CollectionInv'
<1>1. CollectionTypeOK /\ LineInStep /\ SlotsInStep /\ CallsInStep /\ FetchesInStep
  BY DEF CollectionInv
<1>2. PICK c : c = New("waiting", 0)
  OBVIOUS
<1>3. c \in Calling /\ c.at = "waiting" /\ c.tries = 0 /\ c.last = NoData
  BY <1>2, NewIs DEF Calling
<1>4. PICK new : new = Range(rs)
  OBVIOUS
<1>5. /\ new \subseteq Queryings /\ IsFiniteSet(new) /\ new \cap DOMAIN request = {}
      /\ line' = line \o rs /\ request' = With(new, c)
  <2>1. Range(rs) \subseteq Queryings
    BY DEF Range
  <2>2. IsFiniteSet(Range(rs))
    <3>1. DOMAIN rs = 1 .. Len(rs) /\ Len(rs) \in Nat
      OBVIOUS
    <3>2. IsFiniteSet(DOMAIN rs)
      BY <3>1, FS_Interval
    <3>3. rs \in Surjection(DOMAIN rs, Range(rs))
      BY DEF Surjection, Range
    <3> QED BY <3>2, <3>3, FS_Surjection
  <2> QED BY <1>2, <1>4, <2>1, <2>2 DEF Enqueue
<1>6. /\ DOMAIN request' = DOMAIN request \cup new /\ DOMAIN request' \subseteq Queryings
      /\ IsFiniteSet(DOMAIN request') /\ request' \in [DOMAIN request' -> Calling]
      /\ \A q \in Queryings \ new :
           At(q)' = At(q) /\ (q \in DOMAIN request => request'[q] = request[q])
      /\ \A r \in new : At(r) = "unasked" /\ At(r)' = "waiting" /\ request'[r] = c
  <2>1. /\ DOMAIN request' = DOMAIN request \cup new /\ DOMAIN request' \subseteq Queryings
        /\ IsFiniteSet(DOMAIN request') /\ request' \in [DOMAIN request' -> Calling]
        /\ \A q \in Queryings \ new :
             At(q)' = At(q) /\ (q \in DOMAIN request => request'[q] = request[q])
        /\ \A r \in new : At(r) = "unasked" /\ At(r)' = c.at /\ request'[r] = c
    <3>1. /\ CollectionTypeOK /\ c \in Calling /\ new \subseteq Queryings
          /\ new \cap DOMAIN request = {} /\ IsFiniteSet(new) /\ request' = With(new, c)
      BY <1>1, <1>3, <1>5
    <3> QED BY ONLY <3>1, AddedAre
  <2> QED BY <1>3, <2>1
<1>7. /\ line \in Seq(Queryings) /\ IsInjective(line)
      /\ \A q \in Queryings : q \in Range(line) <=> At(q) = "waiting"
  BY <1>1 DEF CollectionTypeOK, LineInStep
<1>8. Range(line) \cap Range(rs) = {}
  BY <1>4, <1>5, <1>6, <1>7
<1>9. /\ line' \in Seq(Queryings) /\ IsInjective(line') /\ Range(line') = Range(line) \cup new
  <2>1. /\ line \o rs \in Seq(Queryings) /\ IsInjective(line \o rs)
        /\ Range(line \o rs) = Range(line) \cup Range(rs)
    BY ONLY <1>7, <1>8, IsInjective(rs), rs \in Seq(Queryings), ConcatNew
  <2> QED BY <1>4, <1>5, <2>1
<1>10. CollectionTypeOK'
  BY <1>1, <1>6, <1>9 DEF CollectionTypeOK
<1>11. LineInStep'
  <2>1. \A q \in Queryings : q \in Range(line') <=> At(q)' = "waiting"
    BY <1>6, <1>7, <1>9
  <2> QED BY <1>9, <2>1 DEF LineInStep
<1>12. SlotsInStep'
  <2>1. \A q \in Queryings : Holding(q)' <=> Holding(q)
    BY <1>6 DEF Holding
  <2>2. {q \in DOMAIN request : Holding(q)} = {q \in DOMAIN request' : Holding(q)'}
    <3>1. \A q \in DOMAIN request' : Holding(q)' => q \in DOMAIN request
      BY <1>6 DEF Holding
    <3> QED BY <1>6, <2>1, <3>1
  <2> QED BY <1>1, <2>2 DEF SlotsInStep, Slots
<1>13. /\ fetch'[f] = place
       /\ \A g \in Fetches \ {f} : fetch'[g] = fetch[g]
  BY <1>1 DEF CollectionTypeOK
<1>14. CallsInStep'
  <2> SUFFICES ASSUME NEW q \in DOMAIN request' PROVE CallInStep(q)'
    BY DEF CallsInStep
  <2>1. CASE q \notin new
    <3>1. q \in DOMAIN request /\ At(q)' = At(q) /\ request'[q] = request[q]
      BY <1>6, <2>1
    <3>2. CallInStep(q) /\ q.f \in Fetches
      BY <1>1, <1>6, <3>1 DEF CallsInStep, Queryings
    <3>3. fetch'[q.f] # "new" /\ (q.part # "fly_job_logs" => fetch'[q.f] # "begun")
      BY <1>13, <3>2 DEF CallInStep
    <3> QED BY <3>1, <3>2, <3>3 DEF CallInStep
  <2>2. CASE q \in new
    <3>1. /\ q.f = f /\ q.part # "telemetry" /\ (q.part # "fly_job_logs" => place = "waits")
          /\ At(q)' = "waiting" /\ request'[q] = c
      BY <1>4, <1>6, <2>2
    <3>2. c.tries <= MaxRequestRetries /\ c.tries <= MaxRequestRetries + 1
      BY <1>3, CollectionAssumption
    <3> QED BY <1>3, <1>13, <3>1, <3>2 DEF CallInStep
  <2> QED BY <2>1, <2>2
<1>15. FetchesInStep'
  <2>1. \A q \in Queryings : Settled(q) => At(q)' = At(q)
    BY <1>6 DEF Settled
  <2> SUFFICES ASSUME NEW g \in Fetches PROVE FetchInStep(g)'
    BY DEF FetchesInStep
  <2>2. CASE g # f
    BY <1>13, <2>1, <2>2, FetchStays
  <2>3. CASE g = f
    <3>1. FetchInStep(f) /\ at[f] = 1 /\ at' = at
      BY <1>1 DEF FetchesInStep, FetchInStep
    <3>2. Tasks(f)' = Tasks(f)
      BY TasksStay
    <3>3. 1 .. at'[f] - 1 = {}
      BY <3>1
    <3> QED BY <1>13, <2>3, <3>1, <3>2, <3>3 DEF FetchInStep
  <2> QED BY <2>2, <2>3
<1> QED BY <1>10, <1>11, <1>12, <1>14, <1>15 DEF CollectionInv

LEMMA CreateKeepsInv == \A f \in Fetches : CollectionInv /\ CreateTasks(f) => CollectionInv'
<1> SUFFICES ASSUME NEW f \in Fetches, CollectionInv, CreateTasks(f) PROVE CollectionInv'
  OBVIOUS
<1>1. CollectionTypeOK /\ CallsInStep
  BY DEF CollectionInv
<1>2. PICK first : first = Request(f, Tasks(f)[1], "fly_job_logs")
  OBVIOUS
<1>3. PICK second : second = Request(f, Tasks(f)[2], "fly_job_logs")
  OBVIOUS
<1>4. Tasks(f)[1] = LogTask("current") /\ Tasks(f)[2] = LogTask("previous")
  BY <1>1, TasksAre DEF CollectionTypeOK
<1>5. /\ LogTask("current") \in FetchTasks /\ LogTask("previous") \in FetchTasks
      /\ LogTask("current").of = "fly_job_logs" /\ LogTask("previous").of = "fly_job_logs"
  BY DEF LogTask, FetchTasks, Departments
<1>6. /\ RequestsOf(f, Tasks(f)[1]) = <<first>> /\ RequestsOf(f, Tasks(f)[2]) = <<second>>
  BY <1>1, <1>2, <1>3, <1>4, <1>5, RequestsAre DEF CollectionTypeOK
<1>7. /\ first \in Queryings /\ second \in Queryings /\ first # second
      /\ first.f = f /\ second.f = f /\ first.part = "fly_job_logs" /\ second.part = "fly_job_logs"
  BY <1>2, <1>3, <1>4 DEF LogTask, Request, Queryings, Departments, QueryParts
<1>8. PICK rs : rs = <<first>> \o <<second>>
  OBVIOUS
<1>9. /\ fetch[f] = "new" /\ fetch' = [fetch EXCEPT ![f] = "begun"] /\ Enqueue(rs)
      /\ UNCHANGED <<source, asked, at, raw, free>>
  BY <1>6, <1>8 DEF CreateTasks
<1>10. rs \in Seq(Queryings) /\ IsInjective(rs) /\ Range(rs) = {first, second}
  <2>1. /\ <<first>> \in Seq(Queryings) /\ <<second>> \in Seq(Queryings)
        /\ Range(<<first>>) = {first} /\ Range(<<second>>) = {second}
        /\ IsInjective(<<first>>) /\ IsInjective(<<second>>)
    BY <1>7 DEF Range, IsInjective
  <2>2. Range(<<first>>) \cap Range(<<second>>) = {}
    BY <1>7, <2>1
  <2>3. rs \in Seq(Queryings) /\ IsInjective(rs) /\ Range(rs) = Range(<<first>>) \cup Range(<<second>>)
    <3>1. PICK one : one = <<first>>
      OBVIOUS
    <3>2. PICK two : two = <<second>>
      OBVIOUS
    <3>3. /\ one \in Seq(Queryings) /\ two \in Seq(Queryings)
          /\ IsInjective(one) /\ IsInjective(two) /\ Range(one) \cap Range(two) = {}
      BY <2>1, <2>2, <3>1, <3>2
    <3>4. /\ one \o two \in Seq(Queryings) /\ IsInjective(one \o two)
          /\ Range(one \o two) = Range(one) \cup Range(two)
      BY ONLY <3>3, ConcatNew
    <3> QED BY <1>8, <3>1, <3>2, <3>4
  <2> QED BY <2>1, <2>3
<1>11. Range(rs) \cap DOMAIN request = {}
  BY <1>1, <1>7, <1>9, <1>10 DEF CallsInStep, CallInStep
<1>12. \A r \in Range(rs) : r.f = f /\ r.part # "telemetry" /\ r.part = "fly_job_logs"
  BY <1>7, <1>10
<1> QED BY <1>9, <1>10, <1>11, <1>12, EnqueueKeeps

\* The scoped tasks are all different.
LEMMA ScopedAre ==
  ASSUME CollectionTypeOK, NEW f \in Fetches, NEW rest,
         rest = SubSeq(Tasks(f), 3, Len(Tasks(f)))
  PROVE  /\ Len(rest) \in Nat \ {0}
         /\ \A j \in 1 .. Len(rest) :
              rest[j] \in FetchTasks /\ rest[j].of = "scoped"
         /\ \A j, k \in 1 .. Len(rest) :
              rest[j].period = rest[k].period /\ rest[j].dept = rest[k].dept => j = k
<1> DEFINE n == Len(Targets(f))
<1>1. /\ n \in Nat \ {0} /\ Tasks(f) \in Seq(FetchTasks) /\ Len(Tasks(f)) = 2 + (n + n)
      /\ \A k \in 1 .. n :
              /\ Tasks(f)[2 + k] = ScopedTask("current", Targets(f)[k])
              /\ Tasks(f)[2 + n + k] = ScopedTask("previous", Targets(f)[k])
  BY TasksAre DEF CollectionTypeOK
<1>2. /\ DOMAIN Targets(f) = 1 .. n /\ IsInjective(Targets(f))
  <2>1. Targets(f) \in Seq(Departments) /\ IsInjective(Targets(f))
    BY TargetsAre DEF CollectionTypeOK
  <2> QED BY <2>1
<1>3. \A j, k \in 1 .. n : Targets(f)[j] = Targets(f)[k] => j = k
  BY <1>2 DEF IsInjective
<1> HIDE DEF n
<1>4. /\ Len(rest) = n + n /\ \A k \in 1 .. n + n : rest[k] = Tasks(f)[2 + k]
  <2> DEFINE ts == Tasks(f)
  <2>1. ts \in Seq(FetchTasks) /\ Len(ts) = 2 + (n + n) /\ rest = SubSeq(ts, 3, Len(ts))
    BY <1>1
  <2> HIDE DEF ts
  <2>2. Len(rest) = n + n /\ \A k \in 1 .. n + n : rest[k] = ts[2 + k]
    BY <1>1, <2>1
  <2> QED BY <2>2 DEF ts
<1>5. \A j \in 1 .. n + n :
        \/ /\ j \in 1 .. n /\ rest[j] = ScopedTask("current", Targets(f)[j])
        \/ /\ j - n \in 1 .. n /\ rest[j] = ScopedTask("previous", Targets(f)[j - n])
  <2> TAKE j \in 1 .. n + n
  <2>1. CASE j \in 1 .. n
    BY <1>1, <1>4, <2>1
  <2>2. CASE j \notin 1 .. n
    <3>1. j - n \in 1 .. n /\ 2 + n + (j - n) = 2 + j
      BY <1>1, <2>2
    <3> QED BY <1>1, <1>4, <3>1
  <2> QED BY <2>1, <2>2
<1>6. \A j \in 1 .. n + n : rest[j] \in FetchTasks
  <2>1. \A k \in 1 .. n + n : 2 + k \in 1 .. Len(Tasks(f))
    BY <1>1
  <2> QED BY <1>1, <1>4, <2>1, OwnAre
<1>8. \A j \in 1 .. n + n :
        /\ rest[j].of = "scoped"
        /\ \/ /\ j \in 1 .. n /\ rest[j].period = "current" /\ rest[j].dept = Targets(f)[j]
           \/ /\ j - n \in 1 .. n /\ rest[j].period = "previous" /\ rest[j].dept = Targets(f)[j - n]
  <2> TAKE j \in 1 .. n + n
  <2>1. CASE j \in 1 .. n /\ rest[j] = ScopedTask("current", Targets(f)[j])
    <3>1. PICK t : t = rest[j]
      OBVIOUS
    <3>2. t.of = "scoped" /\ t.period = "current" /\ t.dept = Targets(f)[j]
      BY <2>1, <3>1 DEF ScopedTask
    <3> QED BY <2>1, <3>1, <3>2
  <2>2. CASE j - n \in 1 .. n /\ rest[j] = ScopedTask("previous", Targets(f)[j - n])
    <3>1. PICK t : t = rest[j]
      OBVIOUS
    <3>2. t.of = "scoped" /\ t.period = "previous" /\ t.dept = Targets(f)[j - n]
      BY <2>2, <3>1 DEF ScopedTask
    <3> QED BY <2>2, <3>1, <3>2
  <2> QED BY <1>5, <2>1, <2>2
<1>9. ASSUME NEW j \in 1 .. n + n, NEW k \in 1 .. n + n, rest[j].period = rest[k].period,
             rest[j].dept = rest[k].dept
      PROVE  j = k
  <2>1. CASE j \in 1 .. n /\ rest[j].period = "current" /\ rest[j].dept = Targets(f)[j]
    <3>1. k \in 1 .. n /\ rest[k].dept = Targets(f)[k]
      BY <1>8, <1>9, <2>1
    <3> QED BY <1>3, <1>9, <2>1, <3>1
  <2>2. CASE j - n \in 1 .. n /\ rest[j].period = "previous" /\ rest[j].dept = Targets(f)[j - n]
    <3>1. k - n \in 1 .. n /\ rest[k].dept = Targets(f)[k - n]
      BY <1>8, <1>9, <2>2
    <3>2. j - n = k - n
      BY <1>3, <1>9, <2>2, <3>1
    <3> QED BY <1>1, <3>2
  <2> QED BY <1>8, <2>1, <2>2
<1>10. n + n \in Nat \ {0}
  BY <1>1
<1> QED BY <1>4, <1>6, <1>8, <1>9, <1>10

\* Numbers in groups of equal size.
LEMMA Grouped ==
  ASSUME NEW per \in Nat \ {0}, NEW m \in Nat, NEW n \in 1 .. per * m
  PROVE  /\ 1 + ((n - 1) \div per) \in 1 .. m /\ 1 + ((n - 1) % per) \in 1 .. per
         /\ n - 1 = per * ((n - 1) \div per) + ((n - 1) % per)
         /\ per * m \in Nat
<1>1. n - 1 \in Nat /\ n - 1 < per * m
  OBVIOUS
<1> DEFINE d == (n - 1) \div per
           e == (n - 1) % per
<1>2. d \in Nat /\ e \in 0 .. per - 1 /\ n - 1 = per * d + e
  BY <1>1
<1> HIDE DEF d, e
<1>3. per * d < per * m
  BY <1>1, <1>2
<1>4. d < m
  <2>1. SUFFICES ASSUME m <= d PROVE FALSE
    BY <1>2
  <2>2. per * m <= per * d
    BY <1>2, <2>1
  <2> QED BY <1>2, <1>3, <2>2
<1> QED BY <1>1, <1>2, <1>4 DEF d, e

LEMMA GatherKeeps == \A f \in Fetches : CollectionInv /\ Gather(f) => CollectionInv'
<1> SUFFICES ASSUME NEW f \in Fetches, CollectionInv, Gather(f) PROVE CollectionInv'
  OBVIOUS
<1>1. CollectionTypeOK /\ CallsInStep
  BY DEF CollectionInv
<1>2. PICK rest : rest = SubSeq(Tasks(f), 3, Len(Tasks(f)))
  OBVIOUS
<1>3. PICK per : per = Len(Gathered(rest[1]))
  OBVIOUS
<1>4. PICK rs : rs = [n \in 1 .. per * Len(rest) |->
                        RequestsOf(f, rest[1 + (n - 1) \div per])[1 + ((n - 1) % per)]]
  OBVIOUS
<1>5. /\ fetch[f] = "begun" /\ fetch' = [fetch EXCEPT ![f] = "waits"] /\ Enqueue(rs)
      /\ UNCHANGED <<source, asked, at, raw, free>>
  BY <1>2, <1>3, <1>4 DEF Gather
<1>6. /\ Len(rest) \in Nat \ {0}
      /\ \A j \in 1 .. Len(rest) : rest[j] \in FetchTasks /\ rest[j].of = "scoped"
      /\ \A j, k \in 1 .. Len(rest) :
           rest[j].period = rest[k].period /\ rest[j].dept = rest[k].dept => j = k
  BY <1>1, <1>2, ScopedAre
<1>7. \A j \in 1 .. Len(rest) :
        LET qs == RequestsOf(f, rest[j])
        IN /\ qs \in Seq(Queryings) /\ IsInjective(qs) /\ Len(qs) = per /\ per \in Nat \ {0}
           /\ \A k \in DOMAIN qs :
                /\ qs[k].f = f /\ qs[k].period = rest[j].period /\ qs[k].dept = rest[j].dept
                /\ qs[k].part # "telemetry" /\ qs[k].part # "fly_job_logs"
  <2> TAKE j \in 1 .. Len(rest)
  <2>1. 1 \in 1 .. Len(rest)
    BY <1>6
  <2>2. per = IF source = "sql" THEN 5 ELSE 3
    BY <1>1, <1>3, <1>6, <2>1, RequestsAre DEF CollectionTypeOK
  <2>3. Len(Gathered(rest[j])) = per
    BY <1>1, <1>6, <2>2, RequestsAre DEF CollectionTypeOK
  <2>4. PICK t \in FetchTasks : t = rest[j] /\ t.of = "scoped"
    BY <1>6
  <2>5. PICK qs : qs = RequestsOf(f, t)
    OBVIOUS
  <2>6. source \in {"http", "sql"}
    BY <1>1 DEF CollectionTypeOK
  <2>7. /\ qs \in Seq(Queryings) /\ IsInjective(qs) /\ Len(qs) = Len(Gathered(t))
        /\ \A k \in DOMAIN qs :
             /\ qs[k].f = f /\ qs[k].period = t.period /\ qs[k].dept = t.dept
             /\ qs[k].part # "telemetry" /\ (qs[k].part = "fly_job_logs" <=> t.of = "fly_job_logs")
    BY <2>5, <2>6, RequestsAre
  <2> QED BY <2>2, <2>3, <2>4, <2>5, <2>7
<1>8. per \in Nat \ {0} /\ per * Len(rest) \in Nat
  BY <1>6, <1>7
<1> DEFINE job(n) == 1 + ((n - 1) \div per)
           part(n) == 1 + ((n - 1) % per)
<1>9. \A n \in 1 .. per * Len(rest) :
        /\ job(n) \in 1 .. Len(rest) /\ part(n) \in 1 .. per
        /\ n - 1 = per * (job(n) - 1) + (part(n) - 1)
  <2> TAKE n \in 1 .. per * Len(rest)
  <2>1. /\ 1 + ((n - 1) \div per) \in 1 .. Len(rest) /\ 1 + ((n - 1) % per) \in 1 .. per
        /\ n - 1 = per * ((n - 1) \div per) + ((n - 1) % per)
    BY <1>6, <1>8, Grouped
  <2> DEFINE d == (n - 1) \div per
             e == (n - 1) % per
  <2>2. 1 + d \in 1 .. Len(rest) /\ 1 + e \in 1 .. per /\ n - 1 = per * d + e /\ d \in Int /\ e \in Int
    BY <1>8, <2>1
  <2> HIDE DEF d, e
  <2>3. (1 + d) - 1 = d /\ (1 + e) - 1 = e
    BY <2>2
  <2> QED BY <2>2, <2>3 DEF d, e
<1>10. \A n \in 1 .. per * Len(rest) :
         /\ rs[n] = RequestsOf(f, rest[job(n)])[part(n)] /\ rs[n] \in Queryings
         /\ rs[n].f = f /\ rs[n].period = rest[job(n)].period /\ rs[n].dept = rest[job(n)].dept
         /\ rs[n].part # "telemetry" /\ rs[n].part # "fly_job_logs"
  <2> TAKE n \in 1 .. per * Len(rest)
  <2>1. rs[n] = RequestsOf(f, rest[job(n)])[part(n)]
    BY <1>4
  <2>2. job(n) \in 1 .. Len(rest) /\ part(n) \in 1 .. per
    BY <1>9
  <2> HIDE DEF job, part
  <2>3. PICK qs : qs = RequestsOf(f, rest[job(n)])
    OBVIOUS
  <2>4. /\ qs \in Seq(Queryings) /\ Len(qs) = per
        /\ \A k \in DOMAIN qs :
             /\ qs[k].f = f /\ qs[k].period = rest[job(n)].period
             /\ qs[k].dept = rest[job(n)].dept
             /\ qs[k].part # "telemetry" /\ qs[k].part # "fly_job_logs"
    BY <1>7, <2>2, <2>3
  <2>5. part(n) \in DOMAIN qs /\ qs[part(n)] \in Queryings
    BY <2>2, <2>4
  <2> QED BY <2>1, <2>3, <2>4, <2>5
<1>11. rs \in Seq(Queryings) /\ DOMAIN rs = 1 .. per * Len(rest)
  <2>1. rs \in [1 .. per * Len(rest) -> Queryings]
    BY <1>4, <1>10
  <2> QED BY <1>8, <2>1
<1>12. IsInjective(rs)
  <2> SUFFICES ASSUME NEW m \in 1 .. per * Len(rest), NEW n \in 1 .. per * Len(rest), rs[m] = rs[n]
               PROVE  m = n
    BY <1>11 DEF IsInjective
  <2>1. job(m) \in 1 .. Len(rest) /\ job(n) \in 1 .. Len(rest)
        /\ part(m) \in 1 .. per /\ part(n) \in 1 .. per
    BY <1>9
  <2> HIDE DEF job, part
  <2>2. job(m) = job(n)
    BY <1>6, <1>10, <2>1
  <2>3. PICK qs : qs = RequestsOf(f, rest[job(m)])
    OBVIOUS
  <2>4. /\ qs \in Seq(Queryings) /\ Len(qs) = per /\ IsInjective(qs)
        /\ qs[part(m)] = qs[part(n)]
    BY <1>7, <1>10, <2>1, <2>2, <2>3
  <2>5. DOMAIN qs = 1 .. per
    BY <2>4
  <2>6. part(m) = part(n)
    BY <2>1, <2>4, <2>5 DEF IsInjective
  <2>7. m - 1 = n - 1
    BY <1>9, <2>2, <2>6 
  <2> QED BY <1>8, <2>7
<1>13. \A r \in Range(rs) : r.f = f /\ r.part # "telemetry" /\ r.part # "fly_job_logs"
  BY <1>10, <1>11 DEF Range
<1>14. Range(rs) \cap DOMAIN request = {}
  BY <1>1, <1>5, <1>13 DEF CallsInStep, CallInStep
<1> QED BY <1>5, <1>11, <1>12, <1>13, <1>14, EnqueueKeeps

-----------------------------------------------------------------------------
(* A fetch awaits, and all of it *)

LEMMA AwaitKeeps == \A f \in Fetches : CollectionInv /\ Await(f) => CollectionInv'
<1> SUFFICES ASSUME NEW f \in Fetches, CollectionInv, Await(f) PROVE CollectionInv'
  OBVIOUS
<1>1. CollectionTypeOK /\ LineInStep /\ SlotsInStep /\ CallsInStep /\ FetchesInStep
  BY DEF CollectionInv
<1>2. PICK t : t = Tasks(f)[at[f]]
  OBVIOUS
<1>3. /\ fetch[f] = "waits" /\ UNCHANGED <<source, asked, line, free, request>>
      /\ \/ Failed(f, t) /\ fetch' = [fetch EXCEPT ![f] = "raised"] /\ at' = at /\ raw' = raw
         \/ /\ Fulfilled(f, t) /\ at[f] < Len(Tasks(f))
            /\ at' = [at EXCEPT ![f] = at[f] + 1] /\ fetch' = fetch /\ raw' = raw
         \/ /\ Fulfilled(f, t) /\ at[f] = Len(Tasks(f))
            /\ fetch' = [fetch EXCEPT ![f] = "returned"]
            /\ raw' = [raw EXCEPT ![f] = Dataset(f)] /\ at' = at
  BY <1>2 DEF Await
<1>4. /\ at[f] \in 1 .. Len(Tasks(f)) /\ Len(Tasks(f)) \in Nat
      /\ \A n \in 1 .. at[f] - 1 : Fulfilled(f, Tasks(f)[n])
      /\ t \in FetchTasks /\ Needs(f, t) \subseteq Own(f)
  <2>1. FetchInStep(f) /\ Tasks(f) \in Seq(FetchTasks)
    BY <1>1, OwnAre DEF FetchesInStep
  <2>2. /\ at[f] \in 1 .. Len(Tasks(f))
        /\ \A n \in 1 .. at[f] - 1 : Fulfilled(f, Tasks(f)[n])
    BY <1>3, <2>1 DEF FetchInStep
  <2>3. Len(Tasks(f)) \in Nat
    BY <2>1
  <2> QED BY <1>1, <1>2, <2>2, <2>3, OwnAre
<1>5. \A r \in Queryings : At(r)' = At(r)
  BY <1>3 DEF At
<1>6. CollectionTypeOK'
  BY <1>1, <1>3 DEF CollectionTypeOK
<1>7. LineInStep' /\ SlotsInStep'
  BY <1>1, <1>3, <1>5 DEF LineInStep, SlotsInStep, Slots, Holding, At
<1>8. \A g \in Fetches \ {f} : fetch'[g] = fetch[g] /\ at'[g] = at[g] /\ raw'[g] = raw[g]
  BY <1>1, <1>3 DEF CollectionTypeOK
<1>9. fetch'[f] \in {"waits", "raised", "returned"}
  BY <1>1, <1>3 DEF CollectionTypeOK
<1>10. CallsInStep'
  <2> SUFFICES ASSUME NEW q \in DOMAIN request PROVE CallInStep(q)'
    BY <1>3 DEF CallsInStep
  <2>1. CallInStep(q) /\ At(q)' = At(q) /\ request'[q] = request[q] /\ q.f \in Fetches
    BY <1>1, <1>3, <1>5 DEF CallsInStep, CollectionTypeOK, Queryings
  <2>2. fetch'[q.f] # "new" /\ (q.part # "fly_job_logs" => fetch'[q.f] # "begun")
    BY <1>8, <1>9, <2>1 DEF CallInStep
  <2> QED BY <2>1, <2>2 DEF CallInStep
<1>11. FetchInStep(f)'
  <2>1. /\ Tasks(f)' = Tasks(f) /\ Own(f)' = Own(f)
        /\ \A x : Needs(f, x)' = Needs(f, x) /\ Targets(f)' = Targets(f)
    BY <1>3, TasksStay
  <2>2. \A n \in 1 .. Len(Tasks(f)) : Fulfilled(f, Tasks(f)[n]) => Fulfilled(f, Tasks(f)[n])'
    <3> TAKE n \in 1 .. Len(Tasks(f))
    <3>1. Needs(f, Tasks(f)[n]) \subseteq Queryings
      BY <1>1, OwnAre
    <3> QED BY <1>5, <2>1, <3>1 DEF Fulfilled
  <2>3. \A n \in 1 .. at[f] - 1 : n \in 1 .. Len(Tasks(f))
    BY <1>4
  <2>4. CASE Failed(f, t) /\ fetch' = [fetch EXCEPT ![f] = "raised"] /\ at' = at /\ raw' = raw
    <3>1. \E r \in Own(f) : At(r)' = "error"
      BY <1>1, <1>4, <1>5, <2>4, OwnAre DEF Failed
    <3>2. fetch'[f] = "raised"
      BY <1>1, <2>4 DEF CollectionTypeOK
    <3> QED BY <1>4, <2>1, <2>4, <3>1, <3>2 DEF FetchInStep
  <2>5. CASE /\ Fulfilled(f, t) /\ at[f] < Len(Tasks(f))
             /\ at' = [at EXCEPT ![f] = at[f] + 1] /\ fetch' = fetch /\ raw' = raw
    <3>1. fetch'[f] = "waits" /\ at'[f] = at[f] + 1
      BY <1>1, <1>3, <2>5 DEF CollectionTypeOK
    <3>2. at'[f] \in 1 .. Len(Tasks(f))
      BY <1>4, <2>5, <3>1
    <3>3. \A n \in 1 .. at'[f] - 1 : n \in 1 .. at[f] - 1 \/ n = at[f]
      BY <1>4, <3>1
    <3>4. \A n \in 1 .. at'[f] - 1 : Fulfilled(f, Tasks(f)[n])'
      BY <1>2, <1>4, <2>2, <2>3, <2>5, <3>3
    <3> QED BY <2>1, <3>1, <3>2, <3>4 DEF FetchInStep
  <2>6. CASE /\ Fulfilled(f, t) /\ at[f] = Len(Tasks(f))
             /\ fetch' = [fetch EXCEPT ![f] = "returned"]
             /\ raw' = [raw EXCEPT ![f] = Dataset(f)] /\ at' = at
    <3>1. fetch'[f] = "returned" /\ at'[f] = at[f] /\ raw'[f] = Dataset(f)
      BY <1>1, <2>6 DEF CollectionTypeOK
    <3>2. \A n \in 1 .. Len(Tasks(f)) : n \in 1 .. at[f] - 1 \/ n = at[f]
      BY <1>4, <2>6
    <3>3. \A n \in 1 .. Len(Tasks(f)) : Fulfilled(f, Tasks(f)[n])'
      BY <1>2, <1>4, <2>2, <2>6, <3>2
    <3>4. Dataset(f)' = Dataset(f)
      BY <1>3, <2>1 DEF Dataset, Payload, Queries, At
    <3> QED BY <1>4, <2>1, <3>1, <3>3, <3>4 DEF FetchInStep
  <2> QED BY <1>3, <2>4, <2>5, <2>6
<1>12. FetchesInStep'
  <2> SUFFICES ASSUME NEW g \in Fetches PROVE FetchInStep(g)'
    BY DEF FetchesInStep
  <2>1. CASE g # f
    BY <1>3, <1>5, <1>8, <2>1, FetchStays
  <2> QED BY <1>11, <2>1
<1> QED BY <1>6, <1>7, <1>10, <1>12 DEF CollectionInv

LEMMA CollectionBegins == CollectionInit => CollectionInv
<1> SUFFICES ASSUME CollectionInit PROVE CollectionInv
  OBVIOUS
<1>1. /\ source \in Sources /\ asked \in [Fetches -> AskedDepartments]
      /\ fetch = [f \in Fetches |-> "new"] /\ at = [f \in Fetches |-> 1]
      /\ raw = [f \in Fetches |-> <<>>] /\ line = <<>> /\ free = Slots /\ request = <<>>
  BY DEF CollectionInit
<1>2. DOMAIN request = {} /\ \A r : At(r) = "unasked"
  BY <1>1 DEF At
<1>3. free \in Nat /\ source \in {"http", "sql"}
  BY <1>1, CollectionAssumption DEF Slots
<1>4. CollectionTypeOK
  <2>1. request \in [DOMAIN request -> Calling] /\ IsFiniteSet(DOMAIN request)
    BY <1>1, <1>2, FS_EmptySet
  <2> QED BY <1>1, <1>2, <1>3, <2>1 DEF CollectionTypeOK
<1>5. LineInStep
  <2>1. Range(line) = {} /\ IsInjective(line)
    BY <1>1 DEF Range, IsInjective
  <2> QED BY <1>2, <2>1 DEF LineInStep
<1>6. SlotsInStep
  <2>1. {r \in DOMAIN request : Holding(r)} = {} /\ Cardinality({}) = 0
    BY <1>2, FS_EmptySet
  <2> QED BY <1>1, <1>3, <2>1 DEF SlotsInStep
<1>7. CallsInStep
  BY <1>2 DEF CallsInStep
<1>8. FetchesInStep
  <2> SUFFICES ASSUME NEW f \in Fetches PROVE FetchInStep(f)
    BY DEF FetchesInStep
  <2>1. fetch[f] = "new" /\ at[f] = 1
    BY <1>1
  <2>2. PICK n : n = Len(Targets(f))
    OBVIOUS
  <2>3. n \in Nat \ {0} /\ Len(Tasks(f)) = 2 + (n + n)
    BY <1>1, <2>2, TasksAre
  <2>4. 1 \in 1 .. Len(Tasks(f))
    BY <2>3
  <2> QED BY <2>1, <2>4 DEF FetchInStep
<1> QED BY <1>4, <1>5, <1>6, <1>7, <1>8 DEF CollectionInv

LEMMA CollectionKeeps == CollectionInv /\ [CollectionNext]_collectionVars => CollectionInv'
<1> SUFFICES ASSUME CollectionInv, [CollectionNext]_collectionVars PROVE CollectionInv'
  OBVIOUS
<1>1. CASE SendFirst
  BY <1>1, FirstKeeps
<1>2. CASE \E r \in DOMAIN request : Answer(r) \/ Retry(r) \/ GiveUpWaiting(r)
  BY <1>2, AnswerKeeps, RetryKeeps, GiveUpKeeps
<1>3. CASE \E f \in Fetches : Fetch(f)
  BY <1>3, CreateKeepsInv, GatherKeeps, AwaitKeeps, TelemetryKeeps DEF Fetch
<1>4. CASE UNCHANGED collectionVars
  <2>1. /\ source' = source /\ asked' = asked /\ fetch' = fetch /\ at' = at /\ raw' = raw
        /\ line' = line /\ free' = free /\ request' = request
    BY <1>4 DEF collectionVars
  <2>2. \A r : At(r)' = At(r)
    BY <2>1 DEF At
  <2>3. CollectionTypeOK' /\ LineInStep' /\ SlotsInStep' /\ CallsInStep'
    <3>1. CollectionTypeOK'
      BY <2>1 DEF CollectionInv, CollectionTypeOK
    <3>2. LineInStep'
      BY <2>1, <2>2 DEF CollectionInv, LineInStep
    <3>3. SlotsInStep'
      BY <2>1 DEF CollectionInv, SlotsInStep, Slots, Holding, At
    <3>4. CallsInStep'
      BY <2>1 DEF CollectionInv, CallsInStep, CallInStep, At
    <3> QED BY <3>1, <3>2, <3>3, <3>4
  <2>4. FetchesInStep'
    BY <2>1, <2>2, FetchStays DEF FetchesInStep
  <2> QED BY <2>3, <2>4 DEF CollectionInv
<1> QED BY <1>1, <1>2, <1>3, <1>4 DEF CollectionNext, CollectionStep

LEMMA CollectionAlways == CollectionSpec => []CollectionInv
BY CollectionBegins, CollectionKeeps, PTL DEF CollectionSpec

\* What the invariant says of the slots and of every request.
LEMMA AccountedFor == CollectionInv => RequestsAreAccounted
<1> SUFFICES ASSUME CollectionInv PROVE RequestsAreAccounted
  OBVIOUS
<1>1. free + Cardinality({r \in DOMAIN request : At(r) = "out" /\ r.part # "telemetry"}) = Slots
  BY DEF CollectionInv, SlotsInStep, Holding
<1>2. \A r \in DOMAIN request :
       /\ request[r].tries <= MaxRequestRetries + 1
       /\ At(r) \in {"waiting", "backoff"} => request[r].last \in {NoData, "passing"}
       /\ At(r) \in {"error", "zero"} /\ request[r].last = "passing" =>
            request[r].tries = MaxRequestRetries + 1
  BY DEF CollectionInv, CallsInStep, CallInStep
<1> QED BY <1>1, <1>2 DEF RequestsAreAccounted

Scoped == {"fly_statis", "warn_static", "media_static"}

\* The requests of a task are its endpoints' queries.
LEMMA AskedOf ==
  ASSUME source \in {"http", "sql"}, NEW f, NEW t, t.of \in {"fly_job_logs", "scoped"}
  PROVE  \A r : r \in Range(RequestsOf(f, t)) <=>
           \/ t.of = "fly_job_logs" /\ r = Request(f, t, "fly_job_logs")
           \/ t.of = "scoped" /\ \E e \in Scoped : \E q \in Queries(e) : r = Request(f, t, q)
<1> DEFINE g == Gathered(t)
<1>1. Range(RequestsOf(f, t)) = {Request(f, t, g[k]) : k \in DOMAIN g}
  BY DEF RequestsOf, Range
<1>2. CASE t.of = "fly_job_logs"
  <2>1. g = <<"fly_job_logs">>
    BY <1>2 DEF Gathered
  <2> HIDE DEF g
  <2>2. DOMAIN g = {1} /\ g[1] = "fly_job_logs"
    BY <2>1
  <2> QED BY <1>1, <1>2, <2>2
<1>3. CASE t.of = "scoped" /\ source = "sql"
  <2>1. g = <<"counts", "routes", "drones", "warn_static", "media_static">>
    BY <1>3 DEF Gathered
  <2> HIDE DEF g
  <2>2. /\ DOMAIN g = {1, 2, 3, 4, 5} /\ g[1] = "counts" /\ g[2] = "routes" /\ g[3] = "drones"
        /\ g[4] = "warn_static" /\ g[5] = "media_static"
    BY <2>1
  <2>3. /\ Queries("fly_statis") = {"counts", "routes", "drones"}
        /\ Queries("warn_static") = {"warn_static"} /\ Queries("media_static") = {"media_static"}
    BY <1>3 DEF Queries
  <2>4. \A r : r \in {Request(f, t, g[k]) : k \in DOMAIN g} <=>
               \E q \in {"counts", "routes", "drones", "warn_static", "media_static"} :
                 r = Request(f, t, q)
    BY <2>2
  <2>5. \A r : (\E e \in Scoped : \E q \in Queries(e) : r = Request(f, t, q)) <=>
               \E q \in {"counts", "routes", "drones", "warn_static", "media_static"} :
                 r = Request(f, t, q)
    BY <2>3 DEF Scoped
  <2> QED BY <1>1, <1>3, <2>4, <2>5
<1>4. CASE t.of = "scoped" /\ source # "sql"
  <2>1. g = <<"fly_statis", "warn_static", "media_static">>
    BY <1>4 DEF Gathered, Endpoints
  <2> HIDE DEF g
  <2>2. /\ DOMAIN g = {1, 2, 3} /\ g[1] = "fly_statis"
        /\ g[2] = "warn_static" /\ g[3] = "media_static"
    BY <2>1
  <2>3. \A e \in Scoped : Queries(e) = {e}
    BY <1>4 DEF Queries
  <2>4. \A r : r \in {Request(f, t, g[k]) : k \in DOMAIN g} <=>
               \E q \in Scoped : r = Request(f, t, q)
    BY <2>2 DEF Scoped
  <2>5. \A r : (\E e \in Scoped : \E q \in Queries(e) : r = Request(f, t, q)) <=>
               \E q \in Scoped : r = Request(f, t, q)
    BY <2>3
  <2> QED BY <1>1, <1>4, <2>4, <2>5
<1> QED BY <1>2, <1>3, <1>4

\* Every task is for the logs of a period, or for a department in it.
LEMMA TaskForms ==
  ASSUME CollectionTypeOK, NEW f \in Fetches
  PROVE  /\ \A n \in 1 .. Len(Tasks(f)) :
              \E p \in {"current", "previous"} :
                \/ Tasks(f)[n] = LogTask(p)
                \/ \E d \in Range(Targets(f)) : Tasks(f)[n] = ScopedTask(p, d)
         /\ \A p \in {"current", "previous"} :
              \E n \in 1 .. Len(Tasks(f)) : Tasks(f)[n] = LogTask(p)
<1> DEFINE m == Len(Targets(f))
<1>1. /\ m \in Nat \ {0} /\ Len(Tasks(f)) = 2 + (m + m)
      /\ Tasks(f)[1] = LogTask("current") /\ Tasks(f)[2] = LogTask("previous")
      /\ \A k \in 1 .. m :
              /\ Tasks(f)[2 + k] = ScopedTask("current", Targets(f)[k])
              /\ Tasks(f)[2 + m + k] = ScopedTask("previous", Targets(f)[k])
  BY TasksAre DEF CollectionTypeOK
<1>2. \A k \in 1 .. m : Targets(f)[k] \in Range(Targets(f))
  <2>1. Targets(f) \in Seq(Departments)
    BY TargetsAre DEF CollectionTypeOK
  <2>2. DOMAIN Targets(f) = 1 .. m
    BY <2>1
  <2> QED BY <2>2 DEF Range
<1> HIDE DEF m
<1>3. /\ \A n \in 1 .. 2 + (m + m) :
           \/ n = 1 \/ n = 2 \/ (n - 2 \in 1 .. m /\ n = 2 + (n - 2))
           \/ (n - 2 - m \in 1 .. m /\ n = 2 + m + (n - 2 - m))
      /\ 1 \in 1 .. 2 + (m + m) /\ 2 \in 1 .. 2 + (m + m)
  BY <1>1
<1>4. \A n \in 1 .. 2 + (m + m) :
        \/ Tasks(f)[n] = LogTask("current")
        \/ Tasks(f)[n] = LogTask("previous")
        \/ \E d \in Range(Targets(f)) : Tasks(f)[n] = ScopedTask("current", d)
        \/ \E d \in Range(Targets(f)) : Tasks(f)[n] = ScopedTask("previous", d)
  <2> TAKE n \in 1 .. 2 + (m + m)
  <2>1. CASE n = 1 \/ n = 2
    BY <1>1, <2>1
  <2>2. CASE n - 2 \in 1 .. m /\ n = 2 + (n - 2)
    <3>1. PICK k \in 1 .. m : n = 2 + k
      BY <2>2
    <3> QED BY <1>1, <1>2, <3>1
  <2>3. CASE n - 2 - m \in 1 .. m /\ n = 2 + m + (n - 2 - m)
    <3>1. PICK k \in 1 .. m : n = 2 + m + k
      BY <2>3
    <3> QED BY <1>1, <1>2, <3>1
  <2> QED BY <1>3, <2>1, <2>2, <2>3
<1> QED BY <1>1, <1>3, <1>4

\* What a request says of itself.
LEMMA RequestForm ==
  ASSUME NEW f, NEW t, NEW part
  PROVE  LET r == Request(f, t, part)
         IN r.f = f /\ r.period = t.period /\ r.dept = t.dept /\ r.part = part
BY DEF Request

\* What a fetch needs in a period.
LEMMA OwnIs ==
  ASSUME CollectionTypeOK, NEW f \in Fetches, NEW p \in {"current", "previous"}
  PROVE  /\ \A r \in Own(f) :
              r.period = p /\ r.part # "telemetry" =>
                \/ r = Request(f, LogTask(p), "fly_job_logs")
                \/ \E d \in Range(Targets(f)), e \in Scoped : \E q \in Queries(e) :
                     r = Request(f, ScopedTask(p, d), q)
         /\ Request(f, LogTask(p), "fly_job_logs") \in Own(f)
         /\ \A d \in Range(Targets(f)), e \in Scoped : \A q \in Queries(e) :
              Request(f, ScopedTask(p, d), q) \in Own(f)
         /\ \A r \in Own(f) :
              r.period = p /\ r.part = "telemetry" =>
                /\ source = "sql"
                /\ \E d \in Range(Targets(f)) : r = Telemetry(f, ScopedTask(p, d))
<1>1. source \in {"http", "sql"}
  BY DEF CollectionTypeOK
<1>2. \A q, d : /\ LogTask(q).of = "fly_job_logs" /\ LogTask(q).period = q
                /\ ScopedTask(q, d).of = "scoped" /\ ScopedTask(q, d).period = q
                /\ ScopedTask(q, d).dept = d
  BY DEF LogTask, ScopedTask
<1>3. \A n \in 1 .. Len(Tasks(f)) :
        /\ Tasks(f)[n] \in FetchTasks /\ Needs(f, Tasks(f)[n]) \subseteq Own(f)
        /\ Range(RequestsOf(f, Tasks(f)[n])) \subseteq Own(f)
  BY OwnAre DEF Needs
<1>4. ASSUME NEW r \in Own(f), r.period = p
      PROVE  \/ /\ r = Request(f, LogTask(p), "fly_job_logs") /\ r.part # "telemetry"
             \/ /\ r.part # "telemetry"
                /\ \E d \in Range(Targets(f)), e \in Scoped : \E q \in Queries(e) :
                     r = Request(f, ScopedTask(p, d), q)
             \/ /\ r.part = "telemetry" /\ source = "sql"
                /\ \E d \in Range(Targets(f)) : r = Telemetry(f, ScopedTask(p, d))
  <2>1. PICK n \in 1 .. Len(Tasks(f)) : r \in Needs(f, Tasks(f)[n])
    BY OwnAre
  <2>2. PICK t \in FetchTasks : t = Tasks(f)[n]
    BY <1>3
  <2>3. t.period = p
    BY <1>1, <1>4, <2>1, <2>2, NeedsAre
  <2>4. \/ r \in Range(RequestsOf(f, t))
        \/ r = Telemetry(f, t) /\ source = "sql" /\ t.of = "scoped"
    BY <2>1, <2>2 DEF Needs
  <2>5. r \in Range(RequestsOf(f, t)) => r.part # "telemetry"
    <3>1. PICK qs : qs = RequestsOf(f, t)
      OBVIOUS
    <3>2. \A k \in DOMAIN qs : qs[k].part # "telemetry"
      BY <1>1, <3>1, RequestsAre
    <3> QED BY <3>1, <3>2 DEF Range
  <2>6. Telemetry(f, t).part = "telemetry"
    BY DEF Telemetry, Request
  <2>7. t = LogTask(p) \/ \E d \in Range(Targets(f)) : t = ScopedTask(p, d)
    BY <1>2, <2>2, <2>3, TaskForms
  <2>8. CASE t = LogTask(p)
    <3>1. t.of = "fly_job_logs"
      BY <1>2, <2>8
    <3>2. r \in Range(RequestsOf(f, t))
      BY <2>4, <3>1
    <3>3. r = Request(f, t, "fly_job_logs")
      BY <1>1, <3>1, <3>2, AskedOf
    <3> QED BY <2>5, <2>8, <3>2, <3>3
  <2>9. CASE \E d \in Range(Targets(f)) : t = ScopedTask(p, d)
    <3>1. PICK d \in Range(Targets(f)) : t = ScopedTask(p, d)
      BY <2>9
    <3>2. t.of = "scoped"
      BY <1>2, <3>1
    <3>3. CASE r \in Range(RequestsOf(f, t))
      <4>1. \E e \in Scoped : \E q \in Queries(e) : r = Request(f, t, q)
        BY <1>1, <3>2, <3>3, AskedOf
      <4> QED BY <2>5, <3>1, <3>3, <4>1
    <3>4. CASE r = Telemetry(f, t) /\ source = "sql"
      BY <2>6, <3>1, <3>4
    <3> QED BY <2>4, <3>3, <3>4
  <2> QED BY <2>7, <2>8, <2>9
<1>5. Request(f, LogTask(p), "fly_job_logs") \in Own(f)
  <2>1. PICK n \in 1 .. Len(Tasks(f)) : Tasks(f)[n] = LogTask(p)
    BY TaskForms
  <2>2. PICK t \in FetchTasks : t = LogTask(p) /\ t.of = "fly_job_logs"
    BY <1>2, <1>3, <2>1
  <2>3. Request(f, t, "fly_job_logs") \in Range(RequestsOf(f, t))
    BY <1>1, <2>2, AskedOf
  <2> QED BY <1>3, <2>1, <2>2, <2>3
<1>6. ASSUME NEW d \in Range(Targets(f)), NEW e \in Scoped, NEW q \in Queries(e)
      PROVE  Request(f, ScopedTask(p, d), q) \in Own(f)
  <2>1. PICK n \in 1 .. Len(Tasks(f)) : Tasks(f)[n] = ScopedTask(p, d)
    BY PlacesAre
  <2>2. PICK t \in FetchTasks : t = ScopedTask(p, d) /\ t.of = "scoped"
    BY <1>2, <1>3, <2>1
  <2>3. Request(f, t, q) \in Range(RequestsOf(f, t))
    BY <1>1, <2>2, AskedOf
  <2> QED BY <1>3, <2>1, <2>2, <2>3
<1> QED BY <1>4, <1>5, <1>6

\* What a fetch that returned has is what it asked for.
LEMMA WholeWhen ==
  ASSUME CollectionInv, NEW f \in Fetches, fetch[f] = "returned",
         NEW p \in {"current", "previous"}
  PROVE  LET entries == {x \in (DOMAIN raw[f][p]) \X ({All} \cup Range(asked[f])) :
                                x[2] \in DOMAIN raw[f][p][x[1]]}
             answers == UNION {raw[f][p][x[1]][x[2]].answers : x \in entries}
         IN /\ answers = {r \in Own(f) : r.period = p /\ r.part # "telemetry"}
            /\ \A x \in entries : \A r \in raw[f][p][x[1]][x[2]].answers : r.dept = x[2]
            /\ \A r \in Own(f) :
                 r.period = p /\ r.part = "telemetry" =>
                   raw[f][p]["fly_statis"][r.dept].telemetry = At(r)
<1>1. CollectionTypeOK /\ raw[f] = Dataset(f)
  BY DEF CollectionInv, FetchesInStep, FetchInStep
<1> DEFINE set == raw[f][p]
           places(e) == IF e = "fly_job_logs" THEN {All} ELSE Range(Targets(f))
           entries == {x \in (DOMAIN set) \X ({All} \cup Range(asked[f])) : x[2] \in DOMAIN set[x[1]]}
           answers == UNION {set[x[1]][x[2]].answers : x \in entries}
           Names == Scoped \cup {"fly_job_logs"}
<1>2. Range(Periods) = {"current", "previous"} /\ Range(Endpoints) = Scoped
  BY DEF Range, Periods, Endpoints, Scoped
<1>3. set = [e \in Names |-> [d \in places(e) |-> Payload(f, TaskOf(p, e, d), e)]]
  BY <1>1, <1>2 DEF Dataset
<1>4. /\ DOMAIN set = Names
      /\ \A e \in Names : DOMAIN set[e] = places(e)
      /\ \A e \in Names : \A d \in places(e) : set[e][d] = Payload(f, TaskOf(p, e, d), e)
  BY <1>3
<1>5. \A e \in Names : \A d \in places(e) : d \in {All} \cup Range(asked[f])
  <2>1. Range(Targets(f)) \subseteq {All} \cup Range(asked[f])
    <3>1. CASE asked[f] = <<>>
      BY <3>1 DEF Targets, Range
    <3>2. CASE asked[f] # <<>>
      BY <3>2 DEF Targets
    <3> QED BY <3>1, <3>2
  <2> QED BY <2>1
<1>6. \A e, d : /\ Payload(f, TaskOf(p, e, d), e).answers
                     = {Request(f, TaskOf(p, e, d), q) : q \in Queries(e)}
                /\ source = "sql" /\ e = "fly_statis" =>
                     Payload(f, TaskOf(p, e, d), e).telemetry = At(Telemetry(f, TaskOf(p, e, d)))
  BY DEF Payload
<1>7. \A e, d, q : /\ Request(f, TaskOf(p, e, d), q).dept = d
                   /\ Request(f, TaskOf(p, e, d), q) = Request(f, ScopedTask(p, d), q)
                   /\ Request(f, TaskOf(p, e, All), q) = Request(f, LogTask(p), q)
                   /\ Telemetry(f, TaskOf(p, e, d)) = Telemetry(f, ScopedTask(p, d))
                   /\ Telemetry(f, ScopedTask(p, d)).dept = d
  BY DEF Request, TaskOf, ScopedTask, LogTask, Telemetry
<1> HIDE DEF set
<1>8. /\ \A e \in Names : \A d \in places(e) : <<e, d>> \in entries
      /\ \A x \in entries : /\ x[1] \in Names /\ x[2] \in places(x[1])
                            /\ set[x[1]][x[2]].answers
                                 = {Request(f, TaskOf(p, x[1], x[2]), q) : q \in Queries(x[1])}
  <2>1. \A e \in Names : \A d \in places(e) : <<e, d>> \in entries
    BY <1>4, <1>5
  <2>2. ASSUME NEW x \in entries
        PROVE /\ x[1] \in Names /\ x[2] \in places(x[1])
              /\ set[x[1]][x[2]].answers
                   = {Request(f, TaskOf(p, x[1], x[2]), q) : q \in Queries(x[1])}
    <3>1. PICK e, d : x = <<e, d>> /\ e \in Names /\ d \in places(e)
      BY <1>4
    <3>2. set[e][d] = Payload(f, TaskOf(p, e, d), e) /\ x[1] = e /\ x[2] = d
      BY <1>4, <3>1
    <3>3. set[e][d].answers = {Request(f, TaskOf(p, e, d), q) : q \in Queries(e)}
      BY <1>6, <3>2
    <3>4. e \in Names /\ d \in places(e)
      BY <3>1
    <3> HIDE DEF places, Names
    <3> QED BY <3>2, <3>3, <3>4
  <2> QED BY <2>1, <2>2
<1>9. \A x \in entries : \A r \in set[x[1]][x[2]].answers : r.dept = x[2]
  BY <1>7, <1>8
<1>10. answers \subseteq {r \in Own(f) : r.period = p /\ r.part # "telemetry"}
  <2> SUFFICES ASSUME NEW x \in entries, NEW r \in set[x[1]][x[2]].answers
               PROVE  r \in Own(f) /\ r.period = p /\ r.part # "telemetry"
    OBVIOUS
  <2>1. PICK e, d : e = x[1] /\ d = x[2] /\ e \in Names /\ d \in places(e)
    BY <1>8
  <2>2. PICK q \in Queries(e) : r = Request(f, TaskOf(p, e, d), q)
    BY <1>8, <2>1
  <2>3. r.period = p /\ r.part = q
    BY <2>2 DEF Request, TaskOf
  <2>4. q # "telemetry"
    BY <2>1 DEF Queries, Scoped
  <2>5. CASE e = "fly_job_logs"
    <3>1. d = All /\ q = "fly_job_logs"
      BY <2>1, <2>5 DEF Queries
    <3> QED BY <1>1, <1>7, <2>2, <2>3, <2>4, <3>1, OwnIs
  <2>6. CASE e # "fly_job_logs"
    <3>1. d \in Range(Targets(f)) /\ e \in Scoped
      BY <2>1, <2>6
    <3>2. Request(f, ScopedTask(p, d), q) \in Own(f)
      BY <1>1, <3>1, OwnIs
    <3> QED BY <1>7, <2>2, <2>3, <2>4, <3>2
  <2> QED BY <2>5, <2>6
<1>11. \A r \in Own(f) : r.period = p /\ r.part # "telemetry" => r \in answers
  <2> SUFFICES ASSUME NEW r \in Own(f), r.period = p, r.part # "telemetry" PROVE r \in answers
    OBVIOUS
  <2>0. \A e \in Names : \A d \in places(e) : \A q \in Queries(e) :
          Request(f, TaskOf(p, e, d), q) \in answers
    <3> TAKE e \in Names
    <3> TAKE d \in places(e)
    <3> TAKE q \in Queries(e)
    <3>1. PICK x : x = <<e, d>>
      OBVIOUS
    <3>2. x \in entries /\ x[1] = e /\ x[2] = d
      BY <1>8, <3>1
    <3>3. Request(f, TaskOf(p, e, d), q) \in set[x[1]][x[2]].answers
      BY <1>8, <3>2
    <3> QED BY <3>2, <3>3
  <2>1. CASE r = Request(f, LogTask(p), "fly_job_logs")
    <3>1. "fly_job_logs" \in Names /\ All \in places("fly_job_logs")
          /\ "fly_job_logs" \in Queries("fly_job_logs")
      BY DEF Queries
    <3>2. r = Request(f, TaskOf(p, "fly_job_logs", All), "fly_job_logs")
      BY <1>7, <2>1
    <3> QED BY <2>0, <3>1, <3>2
  <2>2. CASE \E d \in Range(Targets(f)), e \in Scoped : \E q \in Queries(e) :
               r = Request(f, ScopedTask(p, d), q)
    <3>1. PICK d \in Range(Targets(f)), e \in Scoped : \E q \in Queries(e) :
               r = Request(f, ScopedTask(p, d), q)
      BY <2>2
    <3>2. PICK q \in Queries(e) : r = Request(f, ScopedTask(p, d), q)
      BY <3>1
    <3>3. e \in Names /\ d \in places(e)
      BY DEF Scoped
    <3>4. r = Request(f, TaskOf(p, e, d), q)
      BY <1>7, <3>2
    <3> QED BY <2>0, <3>3, <3>4
  <2> QED BY <1>1, <2>1, <2>2, OwnIs
<1>12. ASSUME NEW r \in Own(f), r.period = p, r.part = "telemetry"
       PROVE  set["fly_statis"][r.dept].telemetry = At(r)
  <2>1. source = "sql" /\ \E d \in Range(Targets(f)) : r = Telemetry(f, ScopedTask(p, d))
    BY <1>1, <1>12, OwnIs
  <2>2. PICK d \in Range(Targets(f)) : r = Telemetry(f, ScopedTask(p, d))
    BY <2>1
  <2>3. "fly_statis" \in Names /\ d \in places("fly_statis") /\ r.dept = d
    BY <1>7, <2>2 DEF Scoped
  <2>4. set["fly_statis"][d] = Payload(f, TaskOf(p, "fly_statis", d), "fly_statis")
    BY <1>4, <2>3
  <2> QED BY <1>6, <1>7, <2>1, <2>2, <2>3, <2>4
<1>13. answers = {r \in Own(f) : r.period = p /\ r.part # "telemetry"}
  BY <1>10, <1>11
<1> QED BY <1>9, <1>12, <1>13 DEF set

LEMMA WholeThen == CollectionInv => DatasetIsWhole
<1> SUFFICES ASSUME CollectionInv, NEW f \in Fetches
             PROVE  /\ fetch[f] = "raised" => \E r \in Own(f) : At(r) = "error"
                    /\ fetch[f] = "returned" =>
                         /\ \A r \in Own(f) : At(r) = "data" \/ (At(r) = "zero" /\ r.part = "telemetry")
                         /\ \A p \in {"current", "previous"} :
                              LET entries == {x \in (DOMAIN raw[f][p]) \X ({All} \cup Range(asked[f])) :
                                                x[2] \in DOMAIN raw[f][p][x[1]]}
                                  answers == UNION {raw[f][p][x[1]][x[2]].answers : x \in entries}
                              IN /\ answers = {r \in Own(f) : r.period = p /\ r.part # "telemetry"}
                                 /\ \A x \in entries : \A r \in raw[f][p][x[1]][x[2]].answers : r.dept = x[2]
                                 /\ \A r \in Own(f) :
                                      r.period = p /\ r.part = "telemetry" =>
                                        raw[f][p]["fly_statis"][r.dept].telemetry = At(r)
  BY DEF DatasetIsWhole
<1>1. FetchInStep(f) /\ CallsInStep /\ CollectionTypeOK
  BY DEF CollectionInv, FetchesInStep
<1>2. ASSUME fetch[f] = "returned", NEW r \in Own(f)
      PROVE  At(r) = "data" \/ (At(r) = "zero" /\ r.part = "telemetry")
  <2>1. PICK n \in 1 .. Len(Tasks(f)) : r \in Needs(f, Tasks(f)[n])
    BY <1>1, OwnAre
  <2>2. At(r) \in {"data", "zero"}
    BY <1>1, <1>2, <2>1 DEF FetchInStep, Fulfilled
  <2>3. r \in DOMAIN request
    BY <2>2 DEF At
  <2> QED BY <1>1, <2>2, <2>3 DEF CallsInStep, CallInStep
<1>3. fetch[f] = "raised" => \E r \in Own(f) : At(r) = "error"
  BY <1>1 DEF FetchInStep
<1> QED BY <1>2, <1>3, WholeWhen

\* However many fetches and requests there are, what a fetch returns is all of what
\* it asked for, every slot is free or somebody's, and a request is tried as often
\* as configured.
THEOREM DataIsWhole == CollectionSpec => [](DatasetIsWhole /\ RequestsAreAccounted)
<1>1. CollectionInv => DatasetIsWhole /\ RequestsAreAccounted
  BY AccountedFor, WholeThen
<1> QED BY <1>1, CollectionAlways, PTL

-----------------------------------------------------------------------------
(***************************************************************************)
(* The long-term memory (LongTermMemory)                                   *)
(***************************************************************************)
(* Counting up *)

\* A set of natural numbers has a least element.
LEMMA LeastNatural ==
  ASSUME NEW T \in SUBSET Nat, T # {}
  PROVE  \E m \in T : \A k \in T : m <= k
<1> DEFINE R == {ss \in Nat \X Nat : ss[1] < ss[2]}
<1>1. IsWellFoundedOn(R, Nat)
  BY NatLessThanWellFounded DEF OpToRel
<1>2. \A x, y \in Nat : <<x, y>> \in R <=> x < y
  OBVIOUS
<1> HIDE DEF R
<1>3. PICK m \in T : \A y \in T : ~(<<y, m>> \in R)
  BY <1>1, WFMin
<1>4. \A y \in T : m <= y
  <2>1. \A y \in T : ~(y < m)
    BY <1>2, <1>3
  <2> QED BY <2>1
<1> QED BY <1>4

\* What holds 0 and, with a number below n, the next one, holds all up to n.
LEMMA UpTo ==
  ASSUME NEW n \in Nat, NEW K, 0 \in K, \A k \in 0 .. n - 1 : k \in K => k + 1 \in K
  PROVE  0 .. n \subseteq K
<1> SUFFICES ASSUME (0 .. n) \ K # {} PROVE FALSE
  OBVIOUS
<1> DEFINE T == (0 .. n) \ K
<1>4. T \in SUBSET Nat /\ T # {}
  OBVIOUS
<1> HIDE DEF T
<1>5. PICK m \in T : \A k \in T : m <= k
  BY <1>4, LeastNatural
<1> USE DEF T
<1>1. m \in (0 .. n) \ K /\ \A k \in (0 .. n) \ K : m <= k
  BY <1>5
<1>2. m # 0 /\ m - 1 \in 0 .. n - 1 /\ m - 1 \in 0 .. n /\ (m - 1) + 1 = m
  BY <1>1
<1>3. m - 1 \in K
  BY <1>1, <1>2
<1> QED BY <1>1, <1>2, <1>3

-----------------------------------------------------------------------------
(* Products of vectors *)

\* A vector with a number for each of n places.
Vector(n) == [0 .. n - 1 -> Int]

\* What the sums of a product are, place by place.
Adds(s, u, v, n) ==
  s = [k \in 0 .. n |-> IF k = 0 THEN 0 ELSE s[k - 1] + u[k - 1] * v[k - 1]]

\* The sums of a product exist.
LEMMA SumsExist ==
  ASSUME NEW n \in Nat, NEW u \in Vector(n), NEW v \in Vector(n)
  PROVE  \E s : Adds(s, u, v, n)
<1> DEFINE K == {k \in Nat : k \in 0 .. n => \E s \in [0 .. k -> Int] :
                   s[0] = 0 /\ \A j \in 1 .. k : s[j] = s[j - 1] + u[j - 1] * v[j - 1]}
<1>1. 0 \in K
  <2> DEFINE z == [j \in 0 .. 0 |-> 0]
  <2>1. /\ z \in [0 .. 0 -> Int] /\ z[0] = 0
        /\ \A j \in 1 .. 0 : z[j] = z[j - 1] + u[j - 1] * v[j - 1]
    OBVIOUS
  <2> HIDE DEF z
  <2>2. \E s \in [0 .. 0 -> Int] :
          s[0] = 0 /\ \A j \in 1 .. 0 : s[j] = s[j - 1] + u[j - 1] * v[j - 1]
    BY <2>1
  <2> QED BY <2>2
<1>2. ASSUME NEW k \in 0 .. n - 1, k \in K PROVE k + 1 \in K
  <2>1. PICK s \in [0 .. k -> Int] :
          s[0] = 0 /\ \A j \in 1 .. k : s[j] = s[j - 1] + u[j - 1] * v[j - 1]
    BY <1>2
  <2>2. k \in Nat /\ u[k] \in Int /\ v[k] \in Int /\ s[k] \in Int
    BY DEF Vector
  <2> DEFINE t == [j \in 0 .. k + 1 |-> IF j = k + 1 THEN s[k] + u[k] * v[k] ELSE s[j]]
  <2>3. s[k] + u[k] * v[k] \in Int
    BY <2>2
  <2>4. t \in [0 .. k + 1 -> Int]
    BY <2>2, <2>3
  <2>5. /\ t[0] = s[0] /\ t[k + 1] = s[k] + u[k] * v[k] /\ t[k] = s[k]
        /\ \A j \in 1 .. k : t[j] = s[j] /\ t[j - 1] = s[j - 1]
    BY <2>2
  <2> HIDE DEF t
  <2>6. ASSUME NEW j \in 1 .. k + 1 PROVE t[j] = t[j - 1] + u[j - 1] * v[j - 1]
    <3>1. CASE j = k + 1
      <4>1. j - 1 = k
        BY <2>2, <3>1
      <4> QED BY <2>5, <3>1, <4>1
    <3>2. CASE j # k + 1
      <4>1. j \in 1 .. k
        BY <2>2, <3>2
      <4> QED BY <2>1, <2>5, <4>1
    <3> QED BY <3>1, <3>2
  <2>7. t[0] = 0
    BY <2>1, <2>5
  <2>8. \E w \in [0 .. k + 1 -> Int] : /\ w[0] = 0
          /\ \A j \in 1 .. k + 1 : w[j] = w[j - 1] + u[j - 1] * v[j - 1]
    BY <2>4, <2>6, <2>7
  <2>9. k + 1 \in Nat
    BY <2>2
  <2> QED BY ONLY <2>8, <2>9
<1> HIDE DEF K
<1>3. n \in K
  BY <1>1, <1>2, UpTo
<1>4. PICK s \in [0 .. n -> Int] :
        s[0] = 0 /\ \A j \in 1 .. n : s[j] = s[j - 1] + u[j - 1] * v[j - 1]
  BY <1>3 DEF K
<1>5. \A k \in 0 .. n : s[k] = IF k = 0 THEN 0 ELSE s[k - 1] + u[k - 1] * v[k - 1]
  BY <1>4
<1>6. Adds(s, u, v, n)
  BY <1>4, <1>5 DEF Adds
<1> QED BY <1>6

\* The places of a vector, counted.
LEMMA PlacesCounted ==
  ASSUME NEW n \in Nat, NEW u \in Vector(n)
  PROVE  Cardinality(DOMAIN u) = n
<1>1. DOMAIN u = 0 .. n - 1
  BY DEF Vector
<1>2. Cardinality(0 .. n - 1) = IF 0 > n - 1 THEN 0 ELSE (n - 1) - 0 + 1
  BY FS_Interval
<1> QED BY <1>1, <1>2

\* A product is the last of its sums.
LEMMA DotIs ==
  ASSUME NEW n \in Nat, NEW u \in Vector(n), NEW v \in Vector(n)
  PROVE  \E s \in [0 .. n -> Int] :
           /\ s[0] = 0 /\ Dot(u, v) = s[n]
           /\ \A j \in 0 .. n - 1 : s[j + 1] = s[j] + u[j] * v[j]
<1> DEFINE s == CHOOSE s : Adds(s, u, v, n)
<1>1. Adds(s, u, v, n)
  BY SumsExist
<1>2. Dot(u, v) = s[n]
  BY PlacesCounted DEF Dot, Adds
<1> HIDE DEF s
<1>3. /\ s[0] = 0 /\ DOMAIN s = 0 .. n
      /\ \A k \in 1 .. n : s[k] = s[k - 1] + u[k - 1] * v[k - 1]
  <2>1. s = [k \in 0 .. n |-> IF k = 0 THEN 0 ELSE s[k - 1] + u[k - 1] * v[k - 1]]
    BY <1>1 DEF Adds
  <2> DEFINE f == [k \in 0 .. n |-> IF k = 0 THEN 0 ELSE s[k - 1] + u[k - 1] * v[k - 1]]
  <2>2. /\ f[0] = 0 /\ DOMAIN f = 0 .. n
        /\ \A k \in 1 .. n : f[k] = s[k - 1] + u[k - 1] * v[k - 1]
    OBVIOUS
  <2>3. s = f
    BY <2>1
  <2> HIDE DEF f
  <2> QED BY <2>2, <2>3
<1>4. ASSUME NEW j \in 0 .. n - 1 PROVE s[j + 1] = s[j] + u[j] * v[j]
  <2>1. j + 1 \in 1 .. n /\ (j + 1) - 1 = j
    OBVIOUS
  <2> QED BY <1>3, <2>1
<1>5. 0 .. n \subseteq {k \in Nat : s[k] \in Int}
  <2> DEFINE K == {k \in Nat : s[k] \in Int}
  <2>1. 0 \in K
    BY <1>3
  <2>2. ASSUME NEW k \in 0 .. n - 1, k \in K PROVE k + 1 \in K
    <3>1. u[k] \in Int /\ v[k] \in Int /\ s[k] \in Int /\ k + 1 \in Nat
      BY <2>2 DEF Vector
    <3>2. s[k] + u[k] * v[k] \in Int
      BY <3>1
    <3> QED BY <1>4, <3>1, <3>2
  <2> HIDE DEF K
  <2>3. 0 .. n \subseteq K
    BY <2>1, <2>2, UpTo
  <2> QED BY <2>3 DEF K
<1>6. s \in [0 .. n -> Int]
  <2>1. s = [k \in 0 .. n |-> s[k]]
    BY <1>1 DEF Adds
  <2> QED BY <1>5, <2>1
<1> QED BY <1>2, <1>3, <1>4, <1>6

\* A product is a number, the same either way round.
LEMMA DotInt ==
  ASSUME NEW n \in Nat, NEW u \in Vector(n), NEW v \in Vector(n)
  PROVE  Dot(u, v) \in Int /\ Dot(v, u) = Dot(u, v)
<1>1. PICK s \in [0 .. n -> Int] :
        /\ s[0] = 0 /\ Dot(u, v) = s[n]
        /\ \A j \in 0 .. n - 1 : s[j + 1] = s[j] + u[j] * v[j]
  BY DotIs
<1>2. PICK t \in [0 .. n -> Int] :
        /\ t[0] = 0 /\ Dot(v, u) = t[n]
        /\ \A j \in 0 .. n - 1 : t[j + 1] = t[j] + v[j] * u[j]
  BY DotIs
<1> DEFINE K == {k \in Nat : s[k] = t[k]}
<1>3. 0 \in K
  BY <1>1, <1>2
<1>4. ASSUME NEW k \in 0 .. n - 1, k \in K PROVE k + 1 \in K
  <2>1. u[k] \in Int /\ v[k] \in Int /\ k + 1 \in Nat /\ s[k] = t[k]
    BY <1>4 DEF Vector
  <2>2. u[k] * v[k] = v[k] * u[k]
    BY <2>1
  <2> QED BY <1>1, <1>2, <2>1, <2>2
<1> HIDE DEF K
<1>5. n \in K
  <2>1. n \in Nat /\ n \in 0 .. n
    OBVIOUS
  <2>2. 0 .. n \subseteq K
    BY ONLY <2>1, <1>3, <1>4, UpTo
  <2> QED BY <2>1, <2>2
<1> QED BY <1>1, <1>2, <1>5 DEF K

\* A square is not negative.
LEMMA Squares == \A x \in Int : x * x \in Int /\ x * x >= 0 /\ (x # 0 => x * x > 0)
OBVIOUS

\* A vector's product with itself is positive unless it is zero.
LEMMA DotPositive ==
  ASSUME NEW n \in Nat, NEW u \in Vector(n)
  PROVE  Dot(u, u) >= 0 /\ (~IsZero(u) => Dot(u, u) > 0)
<1>1. PICK s \in [0 .. n -> Int] :
        /\ s[0] = 0 /\ Dot(u, u) = s[n]
        /\ \A j \in 0 .. n - 1 : s[j + 1] = s[j] + u[j] * u[j]
  BY DotIs
<1> DEFINE K == {k \in Nat : s[k] >= 0 /\ \A j \in 0 .. k - 1 : u[j] # 0 => s[k] > 0}
<1>2. 0 \in K
  BY <1>1
<1>3. ASSUME NEW k \in 0 .. n - 1, k \in K PROVE k + 1 \in K
  <2>1. u[k] \in Int /\ k \in Nat /\ k + 1 \in Nat /\ s[k] \in Int /\ s[k + 1] = s[k] + u[k] * u[k]
    BY <1>1 DEF Vector
  <2>2. u[k] * u[k] \in Int /\ u[k] * u[k] >= 0 /\ (u[k] # 0 => u[k] * u[k] > 0)
    BY <2>1, Squares
  <2> DEFINE q == u[k] * u[k]
  <2>3. /\ q \in Int /\ q >= 0 /\ (u[k] # 0 => q > 0) /\ s[k + 1] = s[k] + q
    BY <2>1, <2>2
  <2> HIDE DEF q
  <2>4. s[k] >= 0 /\ \A j \in 0 .. k - 1 : u[j] # 0 => s[k] > 0
    BY <1>3
  <2>5. s[k + 1] >= 0
    BY <2>1, <2>3, <2>4
  <2>6. ASSUME NEW j \in 0 .. (k + 1) - 1, u[j] # 0 PROVE s[k + 1] > 0
    <3>1. CASE j = k
      BY <2>1, <2>3, <2>4, <2>6, <3>1
    <3>2. CASE j # k
      <4>1. j \in 0 .. k - 1
        BY <2>1, <3>2
      <4> QED BY <2>1, <2>3, <2>4, <2>6, <4>1
    <3> QED BY <3>1, <3>2
  <2> QED BY <2>1, <2>5, <2>6
<1> HIDE DEF K
<1>4. n \in K
  <2>1. n \in Nat /\ n \in 0 .. n
    OBVIOUS
  <2>2. 0 .. n \subseteq K
    BY ONLY <2>1, <1>2, <1>3, UpTo
  <2> QED BY <2>1, <2>2
<1>5. DOMAIN u = 0 .. n - 1
  BY DEF Vector
<1> QED BY <1>1, <1>4, <1>5 DEF K, IsZero

\* One more place keeps a sum of squares from turning negative.
LEMMA OnePlace ==
  ASSUME NEW a \in Int, NEW b \in Int, NEW x \in Int, NEW y \in Int,
         NEW A \in Int, NEW B \in Int, NEW C \in Int,
         a * a * A - 2 * a * b * C + b * b * B >= 0
  PROVE  a * a * (A + x * x) - 2 * a * b * (C + x * y) + b * b * (B + y * y) >= 0
<1> DEFINE p == a * a * A - 2 * a * b * C + b * b * B
           q == (a * x - b * y) * (a * x - b * y)
<1>1. a * x - b * y \in Int
  OBVIOUS
<1>2. q \in Int /\ q >= 0
  BY <1>1, Squares
<1>3. p \in Int /\ p >= 0
  OBVIOUS
<1>4. a * a * (A + x * x) - 2 * a * b * (C + x * y) + b * b * (B + y * y) = p + q
  OBVIOUS
<1> HIDE DEF p, q
<1>5. p + q >= 0
  BY <1>2, <1>3
<1> QED BY <1>4, <1>5

\* A positive factor cancels.
LEMMA Cancels ==
  ASSUME NEW x \in Int, NEW y \in Int, NEW z \in Int, x > 0, x * y <= x * z
  PROVE  y <= z
OBVIOUS

\* The inequality of Cauchy and Schwarz.
LEMMA CauchySchwarz ==
  ASSUME NEW n \in Nat, NEW u \in Vector(n), NEW v \in Vector(n), Dot(v, v) > 0
  PROVE  Dot(u, v) * Dot(u, v) <= Dot(u, u) * Dot(v, v)
<1> DEFINE b == Dot(u, v)
           a == Dot(v, v)
           c == Dot(u, u)
<1>1. PICK su \in [0 .. n -> Int] :
        /\ su[0] = 0 /\ c = su[n]
        /\ \A j \in 0 .. n - 1 : su[j + 1] = su[j] + u[j] * u[j]
  BY DotIs
<1>2. PICK sv \in [0 .. n -> Int] :
        /\ sv[0] = 0 /\ a = sv[n]
        /\ \A j \in 0 .. n - 1 : sv[j + 1] = sv[j] + v[j] * v[j]
  BY DotIs
<1>3. PICK sc \in [0 .. n -> Int] :
        /\ sc[0] = 0 /\ b = sc[n]
        /\ \A j \in 0 .. n - 1 : sc[j + 1] = sc[j] + u[j] * v[j]
  BY DotIs
<1>4. a \in Int /\ b \in Int /\ c \in Int /\ a > 0
  BY <1>1, <1>2, <1>3
<1> HIDE DEF a, b, c
<1> DEFINE K == {k \in Nat : a * a * su[k] - 2 * a * b * sc[k] + b * b * sv[k] >= 0}
<1>5. 0 \in K
  <2>1. su[0] = 0 /\ sv[0] = 0 /\ sc[0] = 0 /\ a \in Int /\ b \in Int
    BY <1>1, <1>2, <1>3, <1>4
  <2>2. a * a * 0 - 2 * a * b * 0 + b * b * 0 >= 0
    BY <1>4
  <2> QED BY ONLY <2>1, <2>2
<1>6. ASSUME NEW k \in 0 .. n - 1, k \in K PROVE k + 1 \in K
  <2>1. /\ u[k] \in Int /\ v[k] \in Int /\ k + 1 \in Nat
        /\ su[k] \in Int /\ sv[k] \in Int /\ sc[k] \in Int
    BY DEF Vector
  <2>2. a * a * su[k] - 2 * a * b * sc[k] + b * b * sv[k] >= 0
    BY <1>6
  <2>3. a * a * (su[k] + u[k] * u[k]) - 2 * a * b * (sc[k] + u[k] * v[k])
          + b * b * (sv[k] + v[k] * v[k]) >= 0
    BY ONLY <1>4, <2>1, <2>2, OnePlace
  <2> QED BY <1>1, <1>2, <1>3, <2>1, <2>3
<1> HIDE DEF K
<1>7. n \in K
  <2>1. n \in Nat /\ n \in 0 .. n
    OBVIOUS
  <2>2. 0 .. n \subseteq K
    BY ONLY <2>1, <1>5, <1>6, UpTo
  <2> QED BY <2>1, <2>2
<1>8. a * a * c - 2 * a * b * b + b * b * a >= 0
  BY <1>1, <1>2, <1>3, <1>7 DEF K
<1>9. a * a * c - 2 * a * b * b + b * b * a = a * (c * a - b * b)
  BY <1>4
<1>10. a * (b * b) <= a * (c * a)
  BY <1>4, <1>8, <1>9
<1>11. b * b \in Int /\ c * a \in Int
  BY <1>4
<1>12. b * b <= c * a
  BY ONLY <1>4, <1>10, <1>11, Cancels
<1> QED BY <1>12 DEF a, b, c

-----------------------------------------------------------------------------
(* Texts as vectors *)

\* Where a text has words of a set.
WordsAt(text, S) == {i \in DOMAIN text : text[i] \in S}

\* How often, is a number.
LEMMA WordsFinite ==
  ASSUME NEW text \in Texts, NEW S
  PROVE  IsFiniteSet(WordsAt(text, S)) /\ Cardinality(WordsAt(text, S)) \in Nat
<1>1. PICK n \in 0 .. MaxWords : text \in [1 .. n -> Words]
  BY DEF Texts
<1>2. IsFiniteSet(1 .. n)
  BY FS_Interval
<1>3. WordsAt(text, S) \in SUBSET (1 .. n)
  BY <1>1 DEF WordsAt
<1>4. IsFiniteSet(WordsAt(text, S))
  BY <1>2, <1>3, FS_Subset
<1> QED BY <1>4, FS_CardinalityType

\* What is counted apart adds up.
LEMMA WordsAdd ==
  ASSUME NEW text \in Texts, NEW S, NEW w, w \notin S
  PROVE  Cardinality(WordsAt(text, S \cup {w}))
           = Cardinality(WordsAt(text, S)) + Cardinality(WordsAt(text, {w}))
<1> DEFINE A == WordsAt(text, S)
           B == WordsAt(text, {w})
<1>1. IsFiniteSet(A) /\ IsFiniteSet(B) /\ Cardinality(A) \in Nat /\ Cardinality(B) \in Nat
  BY WordsFinite
<1>2. WordsAt(text, S \cup {w}) = A \cup B /\ A \cap B = {}
  BY DEF WordsAt
<1> HIDE DEF A, B
<1>3. Cardinality(A \cup B) = Cardinality(A) + Cardinality(B) - Cardinality(A \cap B)
  BY <1>1, FS_Union
<1>4. Cardinality({}) = 0
  BY FS_EmptySet
<1>5. Cardinality(A \cup B) = Cardinality(A) + Cardinality(B)
  <2>1. Cardinality(A \cap B) = 0
    BY ONLY <1>2, <1>4
  <2> QED BY ONLY <1>1, <1>3, <2>1
<1>6. Cardinality(WordsAt(text, S \cup {w})) = Cardinality(A) + Cardinality(B)
  BY ONLY <1>2, <1>5
<1> QED BY ONLY <1>6 DEF A, B

\* Texts with the same words have as many of every finite set of them.
LEMMA SameCountsFinite ==
  ASSUME NEW s \in Texts, NEW t \in Texts, SameWords(s, t),
         NEW R \in SUBSET Words, IsFiniteSet(R)
  PROVE  Cardinality(WordsAt(s, R)) = Cardinality(WordsAt(t, R))
<1> DEFINE Same(S) == Cardinality(WordsAt(s, S)) = Cardinality(WordsAt(t, S))
           K == {k \in Nat : \A S \in SUBSET Words :
                   IsFiniteSet(S) /\ Cardinality(S) = k => Same(S)}
<1>1. Same({})
  BY DEF WordsAt
<1>2. \A w \in Words : Same({w})
  <2> TAKE w \in Words
  <2>1. /\ WordsAt(s, {w}) = {i \in DOMAIN s : s[i] = w}
        /\ WordsAt(t, {w}) = {i \in DOMAIN t : t[i] = w}
    BY DEF WordsAt
  <2> QED BY <2>1 DEF SameWords
<1>3. \A S, w : w \in Words /\ w \notin S /\ Same(S) => Same(S \cup {w})
  <2> SUFFICES ASSUME NEW S, NEW w, w \in Words, w \notin S, Same(S) PROVE Same(S \cup {w})
    OBVIOUS
  <2>1. /\ Cardinality(WordsAt(s, S \cup {w})) = Cardinality(WordsAt(s, S)) + Cardinality(WordsAt(s, {w}))
        /\ Cardinality(WordsAt(t, S \cup {w})) = Cardinality(WordsAt(t, S)) + Cardinality(WordsAt(t, {w}))
    BY WordsAdd
  <2>2. /\ Cardinality(WordsAt(s, S)) = Cardinality(WordsAt(t, S))
        /\ Cardinality(WordsAt(s, {w})) = Cardinality(WordsAt(t, {w}))
    BY <1>2
  <2> QED BY ONLY <2>1, <2>2
<1> HIDE DEF Same
<1>4. 0 \in K
  BY <1>1, FS_EmptySet
<1>5. ASSUME NEW k \in Nat, k \in K PROVE k + 1 \in K
  <2> SUFFICES ASSUME NEW S \in SUBSET Words, IsFiniteSet(S), Cardinality(S) = k + 1
               PROVE  Same(S)
    BY DEF K
  <2>1. S # {}
    BY FS_EmptySet
  <2>2. PICK w : w \in S
    BY <2>1
  <2>3. IsFiniteSet(S \ {w}) /\ Cardinality(S \ {w}) = k
    <3>1. IsFiniteSet(S \ {w}) /\ Cardinality(S \ {w}) = Cardinality(S) - 1
      BY <2>2, FS_RemoveElement
    <3> QED BY <3>1
  <2>4. S \ {w} \in SUBSET Words /\ w \in Words /\ w \notin S \ {w} /\ (S \ {w}) \cup {w} = S
    BY <2>2
  <2>5. Same(S \ {w})
    BY <1>5, <2>3, <2>4 DEF K
  <2>6. Same((S \ {w}) \cup {w})
    BY ONLY <1>3, <2>4, <2>5
  <2> QED BY <2>4, <2>6
<1>6. Cardinality(R) \in Nat
  BY FS_CardinalityType
<1> HIDE DEF K
<1>7. Cardinality(R) \in K
  <2>1. 0 .. Cardinality(R) \subseteq K
    <3>1. \A k \in 0 .. Cardinality(R) - 1 : k \in K => k + 1 \in K
      BY <1>5, <1>6
    <3> QED BY ONLY <1>4, <1>6, <3>1, UpTo
  <2> QED BY <1>6, <2>1
<1> QED BY <1>7 DEF K, Same

\* And of every other set of words.
LEMMA SameCounts ==
  ASSUME NEW s \in Texts, NEW t \in Texts, SameWords(s, t), NEW S \in SUBSET Words
  PROVE  Cardinality(WordsAt(s, S)) = Cardinality(WordsAt(t, S))
<1>1. PICK m \in 0 .. MaxWords : s \in [1 .. m -> Words]
  BY DEF Texts
<1>2. PICK n \in 0 .. MaxWords : t \in [1 .. n -> Words]
  BY DEF Texts
<1>3. /\ \A f : IsFiniteSet(1 .. m) /\ f \in Surjection(1 .. m, Range(f)) =>
                  IsFiniteSet(Range(f))
      /\ \A f : IsFiniteSet(1 .. n) /\ f \in Surjection(1 .. n, Range(f)) =>
                  IsFiniteSet(Range(f))
  BY FS_Surjection
<1>4. s \in Surjection(1 .. m, Range(s)) /\ t \in Surjection(1 .. n, Range(t))
  BY <1>1, <1>2 DEF Surjection, Range
<1>5. IsFiniteSet(1 .. m) /\ IsFiniteSet(1 .. n)
  BY FS_Interval
<1>6. IsFiniteSet(Range(s) \cup Range(t))
  BY <1>3, <1>4, <1>5, FS_Union
<1> DEFINE R == S \cap (Range(s) \cup Range(t))
<1>7. IsFiniteSet(R) /\ R \in SUBSET Words
  BY <1>6, FS_Intersection
<1>8. WordsAt(s, R) = WordsAt(s, S) /\ WordsAt(t, R) = WordsAt(t, S)
  BY <1>1, <1>2 DEF WordsAt, Range
<1> HIDE DEF R
<1>9. Cardinality(WordsAt(s, R)) = Cardinality(WordsAt(t, R))
  BY <1>7, SameCountsFinite
<1> QED BY <1>8, <1>9

\* What a text's vector is made of.
BucketWords(b, size, even) ==
  {w \in Words : digest[w].number % size = b /\ digest[w].even = even}

LEMMA EmbedIs ==
  ASSUME NEW text \in Texts, NEW size \in Nat
  PROVE  /\ Embed(text, size) =
              [b \in 0 .. size - 1 |-> Cardinality(WordsAt(text, BucketWords(b, size, TRUE)))
                                         - Cardinality(WordsAt(text, BucketWords(b, size, FALSE)))]
         /\ Embed(text, size) \in Vector(size)
<1>1. Embed(text, size) =
        [b \in 0 .. size - 1 |-> Cardinality(WordsAt(text, BucketWords(b, size, TRUE)))
                                   - Cardinality(WordsAt(text, BucketWords(b, size, FALSE)))]
  BY DEF Embed, WordsAt, BucketWords
<1>2. \A b \in 0 .. size - 1 : /\ Cardinality(WordsAt(text, BucketWords(b, size, TRUE))) \in Nat
                               /\ Cardinality(WordsAt(text, BucketWords(b, size, FALSE))) \in Nat
  BY WordsFinite
<1>3. \A b \in 0 .. size - 1 :
        Cardinality(WordsAt(text, BucketWords(b, size, TRUE)))
          - Cardinality(WordsAt(text, BucketWords(b, size, FALSE))) \in Int
  <2> TAKE b \in 0 .. size - 1
  <2> DEFINE x == Cardinality(WordsAt(text, BucketWords(b, size, TRUE)))
             y == Cardinality(WordsAt(text, BucketWords(b, size, FALSE)))
  <2>1. x \in Nat /\ y \in Nat
    BY <1>2
  <2> HIDE DEF x, y
  <2>2. x - y \in Int
    BY <2>1
  <2> QED BY ONLY <2>2 DEF x, y
<1>4. Embed(text, size) \in Vector(size)
  <2> DEFINE d(b) == Cardinality(WordsAt(text, BucketWords(b, size, TRUE)))
                       - Cardinality(WordsAt(text, BucketWords(b, size, FALSE)))
  <2>1. Embed(text, size) = [b \in 0 .. size - 1 |-> d(b)] /\ \A b \in 0 .. size - 1 : d(b) \in Int
    BY <1>1, <1>3
  <2> HIDE DEF d
  <2> QED BY <2>1 DEF Vector
<1> QED BY <1>1, <1>4

\* Texts with the same words have the same vector.
LEMMA SameVector ==
  ASSUME NEW s \in Texts, NEW t \in Texts, SameWords(s, t), NEW size \in Nat
  PROVE  Embed(s, size) = Embed(t, size)
<1>1. \A b, even : BucketWords(b, size, even) \in SUBSET Words
  BY DEF BucketWords
<1>2. \A b, even : Cardinality(WordsAt(s, BucketWords(b, size, even)))
                     = Cardinality(WordsAt(t, BucketWords(b, size, even)))
  BY <1>1, SameCounts
<1> DEFINE d(x, b) == Cardinality(WordsAt(x, BucketWords(b, size, TRUE)))
                        - Cardinality(WordsAt(x, BucketWords(b, size, FALSE)))
<1>3. /\ Embed(s, size) = [b \in 0 .. size - 1 |-> d(s, b)]
      /\ Embed(t, size) = [b \in 0 .. size - 1 |-> d(t, b)]
  BY EmbedIs
<1>4. \A b \in 0 .. size - 1 : d(s, b) = d(t, b)
  BY <1>2
<1> HIDE DEF d
<1> QED BY <1>3, <1>4

-----------------------------------------------------------------------------
(* What is recalled *)

\* What scores no less than a vector does with itself points where it points.
LEMMA AsGoodAsItself ==
  ASSUME NEW n \in Nat, NEW w \in Vector(n), NEW v \in Vector(n), ~IsZero(w),
         ~Higher(Cosine(w, w), Cosine(w, v))
  PROVE  SameDirection(v, w)
<1> DEFINE a == Dot(w, w)
           b == Dot(v, v)
           c == Dot(w, v)
           o == (IF c < 0 THEN -1 ELSE 1) * c * c
<1>1. a \in Int /\ b \in Int /\ c \in Int /\ a > 0 /\ Dot(v, w) = c
  BY DotInt, DotPositive
<1> HIDE DEF a, b, c
<1>2. a * a > 0 /\ a * a \in Int
  BY <1>1, Squares
<1>3. Cosine(w, w) = [over |-> a * a, under |-> a * a]
  <2>1. Cosine(w, w) = [over |-> (IF a < 0 THEN -1 ELSE 1) * a * a, under |-> a * a]
    BY DEF Cosine, a
  <2>2. (IF a < 0 THEN -1 ELSE 1) * a * a = a * a
    BY <1>1
  <2> QED BY <2>1, <2>2
<1>4. ~IsZero(v)
  <2> SUFFICES ASSUME IsZero(v) PROVE FALSE
    OBVIOUS
  <2>1. Cosine(w, v) = [over |-> 0, under |-> 1]
    BY DEF Cosine
  <2>2. ~((a * a) * 1 > 0 * (a * a))
    BY <1>3, <2>1 DEF Higher
  <2> QED BY <1>2, <2>2
<1>5. Cosine(w, v) = [over |-> o, under |-> a * b]
  BY <1>4 DEF Cosine, a, b, c
<1>6. ~((a * a) * (a * b) > o * (a * a))
  BY <1>3, <1>5 DEF Higher
<1>7. b > 0 /\ a * b > 0 /\ a * b \in Int /\ o \in Int
  <2>1. b > 0
    BY <1>4, DotPositive DEF b
  <2> QED BY <1>1, <2>1
<1>8. a * b <= o
  <2>1. (a * a) * (a * b) <= (a * a) * o
    <3>1. (a * a) * (a * b) \in Int /\ o * (a * a) \in Int /\ o * (a * a) = (a * a) * o
      BY <1>2, <1>7
    <3> QED BY ONLY <1>6, <3>1
  <2> QED BY ONLY <1>2, <1>7, <2>1, Cancels
<1>9. c > 0 /\ o = c * c
  <2>1. o > 0
    BY <1>7, <1>8
  <2>2. CASE c < 0
    <3>1. o = -(c * c) /\ c * c > 0 /\ c * c \in Int
      BY <1>1, <2>2, Squares
    <3> QED BY ONLY <2>1, <3>1
  <2>3. CASE ~(c < 0)
    <3>1. o = c * c
      BY <1>1, <2>3
    <3>2. c # 0
      BY <2>1, <3>1
    <3> QED BY <1>1, <2>3, <3>1, <3>2
  <2> QED BY <2>2, <2>3
<1>10. c * c <= a * b
  BY <1>7, CauchySchwarz DEF a, b, c
<1>11. c * c = b * a
  <2>1. c * c \in Int /\ a * b = b * a
    BY <1>1
  <2> QED BY <1>7, <1>8, <1>9, <1>10, <2>1
<1> QED BY <1>1, <1>9, <1>11 DEF SameDirection, a, b

\* An order of all the items has every one of them.
LEMMA OrdersAreWhole ==
  ASSUME NEW n \in Nat, NEW s \in [1 .. n -> 1 .. n],
         \A j, k \in 1 .. n : j < k => s[j] # s[k]
  PROVE  \A i \in 1 .. n : \E k \in 1 .. n : s[k] = i
<1>1. \A j, k \in 1 .. n : s[j] = s[k] => j = k
  <2> TAKE j, k \in 1 .. n
  <2>1. j \in Int /\ k \in Int /\ (j < k \/ k < j \/ j = k)
    OBVIOUS
  <2> QED BY <2>1
<1>2. s \in Injection(1 .. n, 1 .. n)
  BY <1>1 DEF Injection, IsInjective
<1>3. IsFiniteSet(1 .. n)
  BY FS_Interval
<1>4. s \in Surjection(1 .. n, 1 .. n)
  BY <1>2, <1>3, FS_Injection
<1> QED BY <1>4 DEF Surjection

\* What is stored: a text under its number, with its vector.
Stored == [id : Nat, text : Texts, vector : UNION {Vector(n) : n \in Nat}]

\* As much is recalled as was asked for and is there, and what says exactly what
\* is asked is among it.
LEMMA RecallsAreTrue ==
  ASSUME dimension \in Nat \ {0}, collection.size = dimension,
         NEW items, items = collection.items, items \in Seq(Stored),
         \A i \in DOMAIN items : items[i].vector = Embed(items[i].text, dimension),
         NEW query \in Texts, NEW topK \in Nat, NEW recalled \in Recalls(query, topK)
  PROVE  /\ Len(recalled) = (IF Len(items) < topK THEN Len(items) ELSE topK)
         /\ \A i \in DOMAIN items \ Range(recalled) :
              SameWords(items[i].text, query) =>
                \/ IsZero(items[i].vector)
                \/ \A a \in Range(recalled) :
                     SameDirection(items[a].vector, items[i].vector)
<1> DEFINE n == Len(items)
           q == Embed(query, dimension)
           score(i) == Cosine(q, items[i].vector)
<1>1. n \in Nat /\ DOMAIN items = 1 .. n
  OBVIOUS
<1>2. PICK s \in Rankings(query) :
        recalled = SubSeq(s, 1, IF Len(s) < topK THEN Len(s) ELSE topK)
  BY DEF Recalls
<1>3. /\ s \in [1 .. n -> 1 .. n]
      /\ \A j, k \in 1 .. n : j < k => s[j] # s[k] /\ ~Higher(score(s[k]), score(s[j]))
  BY <1>1, <1>2 DEF Rankings
<1> HIDE DEF score
<1> DEFINE m == IF n < topK THEN n ELSE topK
<1>4. s \in Seq(1 .. n) /\ Len(s) = n /\ m \in 0 .. n
  BY <1>1, <1>3
<1>5. recalled = SubSeq(s, 1, m)
  BY <1>2, <1>4
<1>6. Len(recalled) = m /\ DOMAIN recalled = 1 .. m /\ \A k \in 1 .. m : recalled[k] = s[k]
  BY <1>4, <1>5
<1>7. ASSUME NEW i \in DOMAIN items \ Range(recalled), SameWords(items[i].text, query),
             ~IsZero(items[i].vector), NEW a \in Range(recalled)
      PROVE  SameDirection(items[a].vector, items[i].vector)
  <2>1. i \in 1 .. n
    BY <1>1, <1>7
  <2>2. PICK k \in 1 .. n : s[k] = i
    <3>1. \A j, l \in 1 .. n : j < l => s[j] # s[l]
      BY <1>3
    <3>2. \A x \in 1 .. n : \E l \in 1 .. n : s[l] = x
      BY ONLY <1>1, <1>3, <3>1, OrdersAreWhole
    <3> QED BY <2>1, <3>2
  <2>3. PICK j \in 1 .. m : a = s[j]
    BY <1>6, <1>7 DEF Range
  <2>4. k \notin 1 .. m
    BY <1>6, <1>7, <2>2 DEF Range
  <2>5. j \in 1 .. n /\ j < k /\ a \in 1 .. n
    <3> HIDE DEF m, n
    <3>1. j \in 1 .. n /\ j < k
      BY ONLY <1>1, <1>4, <2>2, <2>3, <2>4
    <3> QED BY ONLY <1>3, <2>3, <3>1
  <2>6. ~Higher(score(i), score(a))
    BY <1>3, <2>2, <2>3, <2>5
  <2>7. /\ items[i] \in Stored /\ items[i].vector = Embed(items[i].text, dimension)
        /\ items[a] \in Stored /\ items[a].vector = Embed(items[a].text, dimension)
    BY <1>1, <2>1, <2>5
  <2>8. items[i].text \in Texts /\ items[a].text \in Texts
    BY <2>7 DEF Stored
  <2>9. items[i].vector = q
    BY <1>7, <2>7, <2>8, SameVector
  <2>10. q \in Vector(dimension) /\ items[a].vector \in Vector(dimension)
    <3>1. dimension \in Nat
      OBVIOUS
    <3>2. \A x \in Texts : Embed(x, dimension) \in Vector(dimension)
      BY ONLY <3>1, EmbedIs
    <3> QED BY <2>7, <2>8, <3>2
  <2>11. ~Higher(Cosine(q, q), Cosine(q, items[a].vector))
    BY <2>6, <2>9 DEF score
  <2>12. ~IsZero(q) /\ dimension \in Nat
    BY <1>7, <2>9
  <2> HIDE DEF q
  <2>13. SameDirection(items[a].vector, q)
    BY ONLY <2>10, <2>11, <2>12, AsGoodAsItself
  <2> QED BY <2>9, <2>13
<1> QED BY <1>6, <1>7

-----------------------------------------------------------------------------
(* The memory, step by step *)

MemoryTypeOK ==
  /\ dimension \in Nat \ {0} /\ storeCalls \in Nat
  /\ collection \in [size : Nat, items : Seq(Stored)]

\* Every item has its own number, of a call so far, and its text's vector in the
\* size of the collection; without a collection there is none.
ItemsInStep ==
  LET held == Range(collection.items)
  IN /\ IsInjective(collection.items)
     /\ collection.size = 0 => collection.items = <<>>
     /\ \A x \in held : x.id \in 1 .. storeCalls /\ x.vector = Embed(x.text, collection.size)
     /\ \A x, y \in held : x.id = y.id => x = y

\* What a caller was told is stored is there.
Remembering ==
  \A m \in remembered : \E x \in Range(collection.items) : x.id = m.id /\ x.text = m.text

MemoryInv == MemoryTypeOK /\ ItemsInStep /\ Remembering

LEMMA EmbedStays == digest' = digest => \A t, n : Embed(t, n)' = Embed(t, n)
<1> SUFFICES ASSUME digest' = digest, NEW t, NEW n PROVE Embed(t, n)' = Embed(t, n)
  OBVIOUS
<1> QED BY DEF Embed

\* Nothing is lost while the collection stays as it is.
LEMMA SameItemsKeep ==
  ASSUME MemoryInv, digest' = digest, dimension' \in Nat \ {0}, collection' = collection,
         storeCalls' \in Nat, storeCalls' >= storeCalls, remembered' \subseteq remembered
  PROVE  MemoryInv'
<1>1. MemoryTypeOK' /\ Remembering'
  BY DEF MemoryInv, MemoryTypeOK, Remembering
<1>2. 1 .. storeCalls \subseteq 1 .. storeCalls'
  BY DEF MemoryInv, MemoryTypeOK
<1>3. ItemsInStep'
  BY <1>2, EmbedStays DEF MemoryInv, ItemsInStep
<1> QED BY <1>1, <1>3 DEF MemoryInv

\* An empty collection holds what nobody was told of.
LEMMA EmptyKeeps ==
  ASSUME MemoryInv, NEW size \in Nat, collection' = Empty(size), dimension' \in Nat \ {0},
         storeCalls' \in Nat, remembered' = {}
  PROVE  MemoryInv'
<1>1. collection' = [size |-> size, items |-> <<>>]
  BY DEF Empty
<1>2. <<>> \in Seq(Stored) /\ Range(<<>>) = {} /\ IsInjective(<<>>)
  BY DEF Range, IsInjective
<1>3. MemoryTypeOK'
  BY <1>1, <1>2 DEF MemoryTypeOK
<1>4. ItemsInStep'
  BY <1>1, <1>2 DEF ItemsInStep
<1> QED BY <1>3, <1>4 DEF MemoryInv, Remembering

\* Nothing is remembered of a collection that is not there.
LEMMA NothingHeld == MemoryInv /\ collection.size = 0 => remembered = {}
<1>1. Range(<<>>) = {}
  BY DEF Range
<1> QED BY <1>1 DEF MemoryInv, ItemsInStep, Remembering

\* One more item, of which its caller may be told.
LEMMA AddedKeeps ==
  ASSUME MemoryInv, NEW text \in Texts, collection.size = dimension,
         NEW e, e = [id |-> storeCalls + 1, text |-> text, vector |-> Embed(text, dimension)],
         collection' = [collection EXCEPT !.items = Append(@, e)],
         storeCalls' = storeCalls + 1, dimension' = dimension, digest' = digest,
         remembered' \subseteq remembered \cup {[id |-> e.id, text |-> text]}
  PROVE  MemoryInv'
<1> DEFINE items == collection.items
<1>1. /\ dimension \in Nat \ {0} /\ storeCalls \in Nat /\ items \in Seq(Stored)
      /\ collection = [size |-> dimension, items |-> items]
      /\ IsInjective(items)
      /\ \A x \in Range(items) : x.id \in 1 .. storeCalls /\ x.vector = Embed(x.text, dimension)
      /\ \A x, y \in Range(items) : x.id = y.id => x = y
  BY DEF MemoryInv, MemoryTypeOK, ItemsInStep
<1>2. e \in Stored
  <2>1. Embed(text, dimension) \in UNION {Vector(n) : n \in Nat}
    BY <1>1, EmbedIs
  <2> QED BY <1>1, <2>1 DEF Stored
<1>3. e \notin Range(items) /\ \A x \in Range(items) : x.id # e.id
  <2>1. storeCalls + 1 \notin 1 .. storeCalls
    BY <1>1
  <2> QED BY <1>1, <2>1
<1>4. collection' = [size |-> dimension, items |-> Append(items, e)]
  BY <1>1
<1> DEFINE more == Append(items, e)
<1>5. /\ more \in Seq(Stored) /\ IsInjective(more) /\ Range(more) = Range(items) \cup {e}
  BY <1>1, <1>2, <1>3, AppendNew
<1> HIDE DEF items, more
<1>6. collection'.size = dimension /\ collection'.items = more
  BY <1>4 DEF more
<1>7. MemoryTypeOK'
  <2>1. collection' = [size |-> dimension, items |-> more]
    BY <1>4 DEF more
  <2>2. dimension' \in Nat \ {0} /\ storeCalls' \in Nat /\ dimension \in Nat
    BY <1>1
  <2>3. collection' \in [size : Nat, items : Seq(Stored)]
    BY ONLY <1>5, <2>1, <2>2
  <2> QED BY <2>2, <2>3 DEF MemoryTypeOK
<1>8. ItemsInStep'
  <2>1. \A x \in Range(more) : x.id \in 1 .. storeCalls + 1 /\ x.vector = Embed(x.text, dimension)
    <3>1. e.id \in 1 .. storeCalls + 1 /\ e.vector = Embed(e.text, dimension)
      BY <1>1
    <3>2. 1 .. storeCalls \subseteq 1 .. storeCalls + 1
      BY <1>1
    <3> QED BY <1>1, <1>5, <3>1, <3>2
  <2>2. \A x, y \in Range(more) : x.id = y.id => x = y
    BY <1>1, <1>3, <1>5
  <2>3. \A x \in Range(more) : x.vector = Embed(x.text, dimension)'
    BY <2>1, EmbedStays
  <2> QED BY <1>1, <1>5, <1>6, <2>1, <2>2, <2>3, EmbedStays DEF ItemsInStep
<1>9. Remembering'
  <2> SUFFICES ASSUME NEW m \in remembered'
               PROVE  \E x \in Range(more) : x.id = m.id /\ x.text = m.text
    BY <1>6 DEF Remembering
  <2>1. CASE m \in remembered
    BY <1>5, <2>1 DEF MemoryInv, Remembering, items
  <2>2. CASE m = [id |-> e.id, text |-> text]
    <3>1. e \in Range(more) /\ e.id = m.id /\ e.text = m.text
      BY <1>5, <2>2
    <3> QED BY <3>1
  <2> QED BY <2>1, <2>2
<1> QED BY <1>7, <1>8, <1>9 DEF MemoryInv

LEMMA StoringKeeps == \A text \in Texts : MemoryInv /\ Store(text) => MemoryInv'
<1> SUFFICES ASSUME NEW text \in Texts, MemoryInv, Store(text) PROVE MemoryInv'
  OBVIOUS
<1> DEFINE e == [id |-> storeCalls + 1, text |-> text, vector |-> Embed(text, dimension)]
           added == [collection EXCEPT !.items = Append(@, e)]
<1>1. /\ storeCalls' = storeCalls + 1 /\ dimension' = dimension /\ digest' = digest
      /\ dimension \in Nat \ {0} /\ storeCalls \in Nat
  BY DEF Store, MemoryInv, MemoryTypeOK
<1>2. \/ UNCHANGED <<collection, remembered>>
      \/ collection' = added /\ collection.size = dimension
           /\ remembered' \subseteq remembered \cup {[id |-> e.id, text |-> text]}
  BY DEF Store
<1>3. CASE UNCHANGED <<collection, remembered>>
  BY <1>1, <1>3, SameItemsKeep
<1>4. CASE collection' = added /\ collection.size = dimension
             /\ remembered' \subseteq remembered \cup {[id |-> e.id, text |-> text]}
  BY <1>1, <1>4, AddedKeeps
<1> QED BY <1>2, <1>3, <1>4

LEMMA DeleteKeeps == \A id \in 1 .. storeCalls : MemoryInv /\ Delete(id) => MemoryInv'
<1> SUFFICES ASSUME NEW id \in 1 .. storeCalls, MemoryInv, Delete(id) PROVE MemoryInv'
  OBVIOUS
<1>1. /\ storeCalls' = storeCalls /\ dimension' = dimension /\ digest' = digest
      /\ dimension \in Nat \ {0} /\ storeCalls \in Nat
      /\ remembered' = {m \in remembered : m.id # id}
  BY DEF Delete, MemoryInv, MemoryTypeOK
<1>2. CASE collection' = collection
  BY <1>1, <1>2, SameItemsKeep
<1>3. ASSUME NEW k \in DOMAIN collection.items, collection.items[k].id = id,
             collection' = [collection EXCEPT !.items = RemoveAt(@, k)]
      PROVE  MemoryInv'
  <2> DEFINE items == collection.items
             less == RemoveAt(items, k)
  <2>1. /\ items \in Seq(Stored) /\ collection \in [size : Nat, items : Seq(Stored)]
        /\ IsInjective(items) /\ (collection.size = 0 => items = <<>>)
        /\ \A x \in Range(items) : /\ x.id \in 1 .. storeCalls
                                   /\ x.vector = Embed(x.text, collection.size)
        /\ \A x, y \in Range(items) : x.id = y.id => x = y
    BY DEF MemoryInv, MemoryTypeOK, ItemsInStep
  <2>2. less \in Seq(Stored) /\ IsInjective(less) /\ Range(less) = Range(items) \ {items[k]}
    BY <1>3, <2>1, RemoveAtHas
  <2>3. collection'.size = collection.size /\ collection'.items = less
        /\ collection' \in [size : Nat, items : Seq(Stored)]
    BY <1>3, <2>1, <2>2
  <2>4. collection.size # 0
    BY DEF Delete
  <2>5. items[k].id = id
    BY <1>3
  <2> HIDE DEF items, less
  <2>6. MemoryTypeOK'
    BY <1>1, <2>3 DEF MemoryTypeOK
  <2>7. ItemsInStep'
    BY <1>1, <2>1, <2>2, <2>3, <2>4, EmbedStays DEF ItemsInStep
  <2>8. Remembering'
    <3> SUFFICES ASSUME NEW m \in remembered'
                 PROVE  \E x \in Range(less) : x.id = m.id /\ x.text = m.text
      BY <2>3 DEF Remembering
    <3>1. m \in remembered /\ m.id # id
      BY <1>1
    <3>2. PICK x \in Range(items) : x.id = m.id /\ x.text = m.text
      BY <3>1 DEF MemoryInv, Remembering, items
    <3> QED BY <2>2, <2>5, <3>1, <3>2
  <2> QED BY <2>6, <2>7, <2>8 DEF MemoryInv
<1> QED BY <1>2, <1>3 DEF Delete

LEMMA ClearKeeps == MemoryInv /\ Clear => MemoryInv'
<1> SUFFICES ASSUME MemoryInv, Clear PROVE MemoryInv'
  OBVIOUS
<1>1. /\ storeCalls' = storeCalls /\ dimension' = dimension /\ digest' = digest
      /\ dimension \in Nat \ {0} /\ storeCalls \in Nat
      /\ \/ remembered' = {} /\ collection' \in {Empty(dimension), Empty(0)}
         \/ UNCHANGED <<collection, remembered>>
  BY DEF Clear, MemoryInv, MemoryTypeOK
<1>2. 0 \in Nat /\ dimension \in Nat
  BY <1>1
<1>3. CASE remembered' = {} /\ collection' \in {Empty(dimension), Empty(0)}
  BY <1>1, <1>2, <1>3, EmptyKeeps
<1>4. CASE UNCHANGED <<collection, remembered>>
  BY <1>1, <1>4, SameItemsKeep
<1> QED BY <1>1, <1>3, <1>4

LEMMA NewProcessKeeps == MemoryInv /\ RestartMemory => MemoryInv'
<1> SUFFICES ASSUME MemoryInv, RestartMemory PROVE MemoryInv'
  OBVIOUS
<1>1. /\ storeCalls' = storeCalls /\ digest' = digest
      /\ dimension' \in Nat \ {0} /\ storeCalls \in Nat /\ dimension' \in Nat
  BY MemoryAssumption DEF RestartMemory, MemoryInv, MemoryTypeOK
<1>2. \/ collection' = Empty(dimension') /\ remembered' = {}
      \/ collection' = Ensured(collection) /\ remembered' = remembered
  BY DEF RestartMemory
<1>3. CASE collection' = Empty(dimension') /\ remembered' = {}
  BY <1>1, <1>3, EmptyKeeps
<1>4. CASE collection' = Ensured(collection) /\ remembered' = remembered
  <2>1. CASE collection.size = 0
    <3>1. collection' = Empty(dimension') /\ remembered' = {}
      BY <1>4, <2>1, NothingHeld DEF Ensured
    <3> QED BY <1>1, <3>1, EmptyKeeps
  <2>2. CASE collection.size # 0
    <3>1. collection' = collection
      BY <1>4, <2>2 DEF Ensured
    <3> QED BY <1>1, <1>4, <3>1, SameItemsKeep
  <2> QED BY <2>1, <2>2
<1> QED BY <1>2, <1>3, <1>4

LEMMA MemoryBegins == MemoryInit => MemoryInv
<1> SUFFICES ASSUME MemoryInit PROVE MemoryInv
  OBVIOUS
<1>1. /\ dimension \in Nat \ {0} /\ storeCalls = 0 /\ remembered = {}
      /\ collection = [size |-> dimension, items |-> <<>>]
  BY MemoryAssumption DEF MemoryInit, Empty
<1>2. <<>> \in Seq(Stored) /\ Range(<<>>) = {} /\ IsInjective(<<>>)
  BY DEF Range, IsInjective
<1>3. MemoryTypeOK
  BY <1>1, <1>2 DEF MemoryTypeOK
<1>4. ItemsInStep
  BY <1>1, <1>2 DEF ItemsInStep
<1> QED BY <1>1, <1>3, <1>4 DEF MemoryInv, Remembering

LEMMA MemoryKeeps == MemoryInv /\ [MemoryNext]_memoryVars => MemoryInv'
<1> SUFFICES ASSUME MemoryInv, [MemoryNext]_memoryVars PROVE MemoryInv'
  OBVIOUS
<1>1. CASE MemoryNext
  BY <1>1, StoringKeeps, DeleteKeeps, ClearKeeps, NewProcessKeeps DEF MemoryNext
<1>2. CASE UNCHANGED memoryVars
  BY <1>2, SameItemsKeep DEF MemoryInv, MemoryTypeOK, memoryVars
<1> QED BY <1>1, <1>2

LEMMA MemoryAlways == MemorySpec => []MemoryInv
<1> QED BY MemoryBegins, MemoryKeeps, PTL DEF MemorySpec

LEMMA MemoryTrueThen == MemoryInv => MemoryIsTrue
<1> SUFFICES ASSUME MemoryInv PROVE MemoryIsTrue
  OBVIOUS
<1> DEFINE items == collection.items
<1>1. /\ dimension \in Nat \ {0} /\ items \in Seq(Stored)
      /\ \A x \in Range(items) : x.vector = Embed(x.text, collection.size)
  BY DEF MemoryInv, MemoryTypeOK, ItemsInStep
<1>2. \A i \in DOMAIN items : items[i] \in Range(items)
  BY DEF Range
<1>3. \A m \in remembered : \E i \in DOMAIN items :
        items[i].id = m.id /\ items[i].text = m.text
  <2> TAKE m \in remembered
  <2>1. PICK x \in Range(items) : x.id = m.id /\ x.text = m.text
    BY DEF MemoryInv, Remembering
  <2>2. PICK i \in DOMAIN items : items[i] = x
    BY DEF Range
  <2> QED BY <2>1, <2>2
<1>4. ASSUME collection.size = dimension, NEW query \in Texts, NEW topK \in 1 .. MaxItems,
             NEW recalled \in Recalls(query, topK)
      PROVE  /\ Len(recalled) = (IF Len(items) < topK THEN Len(items) ELSE topK)
             /\ \A i \in DOMAIN items \ Range(recalled) :
                  SameWords(items[i].text, query) =>
                    \/ IsZero(items[i].vector)
                    \/ \A a \in Range(recalled) :
                         SameDirection(items[a].vector, items[i].vector)
  <2>1. topK \in Nat
    BY MemoryAssumption
  <2>2. \A i \in DOMAIN items : items[i].vector = Embed(items[i].text, dimension)
    BY <1>1, <1>2, <1>4
  <2> QED BY <1>1, <1>4, <2>1, <2>2, RecallsAreTrue
<1> QED BY <1>3, <1>4 DEF MemoryIsTrue

\* What a caller was told is stored is kept, over restarts in Qdrant and whatever
\* fails, and what says exactly what is asked is recalled.
THEOREM MemoryIsTrueHolds == MemorySpec => []MemoryIsTrue
<1> QED BY MemoryAlways, MemoryTrueThen, PTL
=============================================================================
