------------------------ MODULE GatewayServicesProofs ------------------------
(* Theorems about the limits of tool calls, the history of configuration      *)
(* changes, the provider instances, the circuit breaker and resource names,   *)
(* for every size of buckets, ring and directory, every number of calls and   *)
(* restarts, and every identifier.                                            *)
EXTENDS GatewayLimits, InstanceStore, SequenceTheorems, FiniteSetTheorems, TLAPS

------------------------------------------------------------------------------
(* The token buckets.                                                        *)

\* What a bucket has let through and what it holds never exceed what it was
\* given up to its last refill.
Bucket(b, through, max, rate) ==
  /\ b \in [tokens : Nat, last : Nat] /\ through \in Nat
  /\ b.last <= seconds
  /\ through + b.tokens <= max + rate * b.last

Tallies == [tokens : Nat, last : Nat]
LimitsTyped ==
  /\ seconds \in Nat /\ buckets \in [client : Tallies, global : Tallies]
  /\ admitted \in [client : Nat, global : Nat]
Spent ==
  /\ Bucket(buckets.client, admitted.client, ClientTokens, ClientRate)
  /\ Bucket(buckets.global, admitted.global, GlobalTokens, GlobalRate)

\* What a rate gives up to one instant, and from there to another.
LEMMA Grows ==
  ASSUME NEW rate \in Nat, NEW a \in Nat, NEW b \in Nat, a <= b
  PROVE  rate * b = rate * a + (b - a) * rate /\ rate * a <= rate * b /\ (b - a) * rate \in Nat /\ rate * a \in Nat /\ rate * b \in Nat
<1>1. PICK d \in Nat : b = a + d
  BY b = a + (b - a), b - a \in Nat
<1>2. rate * (a + d) = rate * a + rate * d
  BY <1>1
<1>3. rate * d \in Nat /\ rate * a \in Nat /\ b - a = d /\ d * rate = rate * d
  BY <1>1
<1> QED BY <1>1, <1>2, <1>3

\* One try_consume: the refill and, if there is one, the token that is taken.
LEMMA ConsumeSpends ==
  ASSUME seconds \in Nat, NEW max \in Nat, NEW rate \in Nat, NEW b, NEW through, Bucket(b, through, max, rate),
         NEW r, r = Refilled(b, max, rate)
  PROVE  /\ Consumes(r) => Bucket(Consumed(r), through + 1, max, rate)
         /\ ~ Consumes(r) => Bucket(Consumed(r), through, max, rate)
<1>1. /\ b.tokens \in Nat /\ b.last \in Nat /\ b.last <= seconds /\ through \in Nat
      /\ through + b.tokens <= max + rate * b.last
  BY DEF Bucket
<1>2. PICK g \in Nat : g = (seconds - b.last) * rate /\ rate * seconds = rate * b.last + g
  BY <1>1, Grows
<1>3. rate * b.last \in Nat /\ rate * seconds \in Nat
  BY <1>1, Grows
<1>4. r = [tokens |-> Least(max, b.tokens + g), last |-> seconds]
  BY <1>2 DEF Refilled
<1>5. PICK t \in Nat : t = Least(max, b.tokens + g) /\ t <= b.tokens + g
  BY <1>1, <1>2 DEF Least
<1>6. r = [tokens |-> t, last |-> seconds]
  BY <1>4, <1>5
<1>7. through + t <= max + rate * seconds
  BY <1>1, <1>2, <1>3, <1>5
<1>8. CASE t >= 1
  <2>1. Consumes(r) /\ Consumed(r) = [tokens |-> t - 1, last |-> seconds]
    BY <1>6, <1>8 DEF Consumes, Consumed
  <2>2. t - 1 \in Nat /\ through + 1 \in Nat /\ (through + 1) + (t - 1) = through + t
    BY <1>1, <1>8
  <2> QED BY <1>7, <2>1, <2>2 DEF Bucket
<1>9. CASE t = 0
  <2>1. ~ Consumes(r) /\ Consumed(r) = [tokens |-> t, last |-> seconds]
    BY <1>6, <1>9 DEF Consumes, Consumed
  <2> QED BY <1>1, <1>7, <2>1 DEF Bucket
<1> QED BY <1>5, <1>8, <1>9

LEMMA LimitsStep ==
  ASSUME LimitsTyped, Spent, [LimitsNext]_limitsVars PROVE LimitsTyped' /\ Spent'
<1>0. /\ ClientTokens \in Nat /\ ClientRate \in Nat /\ GlobalTokens \in Nat /\ GlobalRate \in Nat
      /\ seconds \in Nat /\ buckets \in [client : Tallies, global : Tallies] /\ admitted \in [client : Nat, global : Nat]
      /\ Bucket(buckets.client, admitted.client, ClientTokens, ClientRate)
      /\ Bucket(buckets.global, admitted.global, GlobalTokens, GlobalRate)
  BY LimitsAssumption DEF LimitsTyped, Spent
<1>1. ASSUME NEW c \in ToolCalls, ClientBucket(c) PROVE LimitsTyped' /\ Spent'
  <2>1. PICK r : r = Refilled(buckets.client, ClientTokens, ClientRate)
    OBVIOUS
  <2>2. /\ buckets' = [buckets EXCEPT !.client = Consumed(r)] /\ seconds' = seconds
        /\ admitted' = IF Consumes(r) THEN [admitted EXCEPT !.client = admitted.client + 1] ELSE admitted
    BY <1>1, <2>1 DEF ClientBucket
  <2>3. PICK t : t = (IF Consumes(r) THEN admitted.client + 1 ELSE admitted.client) /\ Bucket(Consumed(r), t, ClientTokens, ClientRate)
    BY <1>0, <2>1, ConsumeSpends
  <2>4. admitted' = [admitted EXCEPT !.client = t] /\ t \in Nat
    BY <1>0, <2>2, <2>3 DEF Bucket
  <2>5. PICK x \in Tallies : x = Consumed(r) /\ Bucket(x, t, ClientTokens, ClientRate)
    BY <2>3 DEF Bucket, Tallies
  <2>6. buckets' = [buckets EXCEPT !.client = x]
    BY <2>2, <2>5
  <2>7. /\ buckets'.client = x /\ buckets'.global = buckets.global
        /\ admitted'.client = t /\ admitted'.global = admitted.global
        /\ buckets' \in [client : Tallies, global : Tallies] /\ admitted' \in [client : Nat, global : Nat]
    BY <1>0, <2>4, <2>6
  <2> QED BY <1>0, <2>2, <2>5, <2>7 DEF LimitsTyped, Spent, Bucket
<1>2. ASSUME NEW c \in ToolCalls, GlobalBucket(c) PROVE LimitsTyped' /\ Spent'
  <2>1. PICK r : r = Refilled(buckets.global, GlobalTokens, GlobalRate)
    OBVIOUS
  <2>2. /\ buckets' = [buckets EXCEPT !.global = Consumed(r)] /\ seconds' = seconds
        /\ admitted' = IF Consumes(r) THEN [admitted EXCEPT !.global = admitted.global + 1] ELSE admitted
    BY <1>2, <2>1 DEF GlobalBucket
  <2>3. PICK t : t = (IF Consumes(r) THEN admitted.global + 1 ELSE admitted.global) /\ Bucket(Consumed(r), t, GlobalTokens, GlobalRate)
    BY <1>0, <2>1, ConsumeSpends
  <2>4. admitted' = [admitted EXCEPT !.global = t] /\ t \in Nat
    BY <1>0, <2>2, <2>3 DEF Bucket
  <2>5. PICK x \in Tallies : x = Consumed(r) /\ Bucket(x, t, GlobalTokens, GlobalRate)
    BY <2>3 DEF Bucket, Tallies
  <2>6. buckets' = [buckets EXCEPT !.global = x]
    BY <2>2, <2>5
  <2>7. /\ buckets'.global = x /\ buckets'.client = buckets.client
        /\ admitted'.global = t /\ admitted'.client = admitted.client
        /\ buckets' \in [client : Tallies, global : Tallies] /\ admitted' \in [client : Nat, global : Nat]
    BY <1>0, <2>4, <2>6
  <2> QED BY <1>0, <2>2, <2>5, <2>7 DEF LimitsTyped, Spent, Bucket
<1>3. CASE Second
  <2>1. seconds' = seconds + 1 /\ UNCHANGED <<buckets, admitted>>
    BY <1>3 DEF Second
  <2>2. buckets.client.last <= seconds' /\ buckets.global.last <= seconds'
    BY <1>0, <2>1 DEF Bucket
  <2> QED BY <1>0, <2>1, <2>2 DEF LimitsTyped, Spent, Bucket
<1>4. CASE buckets' = Full /\ seconds' = 0 /\ admitted' = [client |-> 0, global |-> 0]
  BY <1>0, <1>4 DEF LimitsTyped, Spent, Bucket, Full, Tallies
<1>5. CASE UNCHANGED limitVars
  BY <1>0, <1>5 DEF LimitsTyped, Spent, Bucket, limitVars
<1> QED BY <1>1, <1>2, <1>3, <1>4, <1>5
        DEF LimitsNext, HubRestart, set_config, DieInSetConfig, limitsVars, limitVars

\* Whatever the order of calls and seconds, try_consume lets through no more
\* calls of a client, and of the gateway, than a full bucket holds and the rate
\* gives in the time gone by: no interleaving refills a bucket twice for the
\* same seconds.
THEOREM CallsStayInBudget == LimitsSpec => []Budget
<1>1. LimitsInit => LimitsTyped /\ Spent
  BY LimitsAssumption DEF LimitsInit, LimitsTyped, Spent, Bucket, Full, Tallies
<1>2. LimitsTyped /\ Spent => Budget
  <2> SUFFICES ASSUME LimitsTyped, Spent PROVE Budget
    OBVIOUS
  <2>1. /\ ClientRate * buckets.client.last <= ClientRate * seconds /\ GlobalRate * buckets.global.last <= GlobalRate * seconds
        /\ ClientRate * seconds \in Nat /\ GlobalRate * seconds \in Nat
        /\ ClientRate * buckets.client.last \in Nat /\ GlobalRate * buckets.global.last \in Nat
    BY Grows, LimitsAssumption DEF LimitsTyped, Spent, Bucket
  <2> QED BY <2>1, LimitsAssumption DEF LimitsTyped, Spent, Bucket, Budget
<1> QED BY <1>1, <1>2, LimitsStep, PTL DEF LimitsSpec

------------------------------------------------------------------------------
(* The history of configuration changes.                                     *)

\* The end of a sequence grows with it.
LEMMA EndAppends ==
  ASSUME NEW S, NEW s \in Seq(S), NEW x \in S, NEW m \in 1..(Len(s) + 1)
  PROVE  SubSeq(Append(s, x), m, Len(s) + 1) = Append(SubSeq(s, m, Len(s)), x)
<1>1. Len(s) \in Nat /\ Append(s, x) \in Seq(S) /\ Len(Append(s, x)) = Len(s) + 1
  BY AppendProperties, LenProperties
<1>2. /\ \A i \in 1..Len(s) : Append(s, x)[i] = s[i] /\ s[i] \in S
      /\ Append(s, x)[Len(s) + 1] = x
  BY AppendProperties, ElementOfSeq
<1>3. \A i \in m..(Len(s) + 1) : Append(s, x)[i] \in S
  BY <1>1, <1>2
<1>4. PICK l \in Seq(S) : /\ l = SubSeq(Append(s, x), m, Len(s) + 1) /\ Len(l) = Len(s) + 2 - m
                         /\ \A i \in 1..Len(l) : l[i] = Append(s, x)[m + i - 1]
  <2> DEFINE l == SubSeq(Append(s, x), m, Len(s) + 1)
  <2>1. l \in Seq(S) /\ Len(l) = Len(s) + 2 - m /\ \A i \in 1..Len(l) : l[i] = Append(s, x)[m + i - 1]
    BY <1>1, <1>3, SubSeqProperties, SMTT(20)
  <2>2. l = SubSeq(Append(s, x), m, Len(s) + 1)
    OBVIOUS
  <2> HIDE DEF l
  <2> QED BY <2>1, <2>2
<1>5. PICK t \in Seq(S) : /\ t = SubSeq(s, m, Len(s)) /\ Len(t) = Len(s) + 1 - m
                         /\ \A i \in 1..Len(t) : t[i] = s[m + i - 1]
  <2> DEFINE t == SubSeq(s, m, Len(s))
  <2>1. t \in Seq(S) /\ Len(t) = Len(s) + 1 - m /\ \A i \in 1..Len(t) : t[i] = s[m + i - 1]
    BY <1>1, <1>2, SubSeqProperties
  <2>2. t = SubSeq(s, m, Len(s))
    OBVIOUS
  <2> HIDE DEF t
  <2> QED BY <2>1, <2>2
<1>6. /\ Append(t, x) \in Seq(S) /\ Len(Append(t, x)) = Len(t) + 1
      /\ \A i \in 1..Len(t) : Append(t, x)[i] = t[i]
      /\ Append(t, x)[Len(t) + 1] = x /\ Len(t) \in Nat
  BY AppendProperties, LenProperties
<1>7. Len(l) = Len(Append(t, x))
  BY <1>1, <1>4, <1>5, <1>6
<1>8. ASSUME NEW i \in 1..Len(l) PROVE l[i] = Append(t, x)[i]
  <2>1. CASE i \in 1..Len(t)
    <3>1. m + i - 1 \in 1..Len(s)
      BY <1>1, <1>5, <2>1
    <3> QED BY <1>2, <1>4, <1>5, <1>6, <2>1, <3>1
  <2>2. CASE i = Len(t) + 1
    <3>1. m + i - 1 = Len(s) + 1
      BY <1>1, <1>5, <2>2
    <3> QED BY <1>2, <1>4, <1>6, <2>2, <3>1
  <2>3. Len(l) = Len(t) + 1 /\ Len(t) \in Nat
    BY <1>6, <1>7
  <2>4. i \in 1..Len(t) \/ i = Len(t) + 1
    BY <2>3
  <2> QED BY <2>1, <2>2, <2>4
<1>9. l = Append(t, x)
  BY <1>4, <1>6, <1>7, <1>8, SeqEqual
<1> QED BY <1>4, <1>5, <1>9

HubTyped == table \in Seq(Keys) /\ since \in 0..Len(table)

\* set_config writes the row and the entry: the ring stays the table's end.
LEMMA EntryFollowsRow ==
  ASSUME HubTyped, HistoryIsTail, NEW key \in Keys, table' = Append(table, key),
         history' = Append(RingRoom(history), key), since' = since
  PROVE  HubTyped' /\ HistoryIsTail'
<1>1. PICK N \in Nat : /\ N = Len(table) /\ since \in Nat /\ since <= N
                      /\ MaxHistory \in Nat /\ MaxHistory >= 1
                      /\ table' \in Seq(Keys) /\ Len(table') = N + 1
  BY LenProperties, AppendProperties, LimitsAssumption DEF HubTyped
<1>2. PICK n \in 0..N : /\ n = Least(N - since, MaxHistory) /\ n <= MaxHistory
                       /\ history = SubSeq(table, N - n + 1, N)
  <2> DEFINE n == Least(N - since, MaxHistory)
  <2>1. n \in 0..N /\ n <= MaxHistory
    BY <1>1 DEF Least
  <2>2. n = Least(N - since, MaxHistory) /\ history = SubSeq(table, N - n + 1, N)
    BY <1>1 DEF HistoryIsTail
  <2> HIDE DEF n
  <2> QED BY <2>1, <2>2
<1>3. \A i \in (N - n + 1)..N : table[i] \in Keys
  BY <1>1, <1>2, ElementOfSeq DEF HubTyped
<1>4. Len(history) = n /\ history \in Seq(Keys)
  <2>1. N - n + 1 \in Int /\ N \in Int /\ (IF N - n + 1 <= N THEN N - (N - n + 1) + 1 ELSE 0) = n
    OBVIOUS
  <2> QED BY <1>2, <1>3, <2>1, SubSeqProperties
<1>5. CASE n < MaxHistory
  <2>1. RingRoom(history) = history
    <3>1. ~ (Len(history) >= MaxHistory)
      BY <1>1, <1>4, <1>5
    <3> QED BY <3>1 DEF RingRoom
  <2>2. Least((N + 1) - since, MaxHistory) = n + 1
    BY <1>1, <1>2, <1>5 DEF Least
  <2>3. history' = SubSeq(table', N - n + 1, N + 1)
    <3>1. N - n + 1 \in 1..(Len(table) + 1)
      BY <1>1
    <3>2. SubSeq(Append(table, key), N - n + 1, Len(table) + 1) = Append(SubSeq(table, N - n + 1, Len(table)), key)
      BY <3>1, EndAppends DEF HubTyped
    <3> QED BY <1>1, <1>2, <2>1, <3>2
  <2>4. (N + 1) - (n + 1) + 1 = N - n + 1
    BY <1>1, <1>2
  <2>5. HistoryIsTail'
    BY <1>1, <2>2, <2>3, <2>4 DEF HistoryIsTail
  <2> QED BY <1>1, <2>5 DEF HubTyped
<1>6. CASE n = MaxHistory
  <2>1. RingRoom(history) = Tail(history)
    BY <1>1, <1>4, <1>6 DEF RingRoom
  <2>2. Tail(history) = SubSeq(table, (N - n + 1) + 1, N)
    <3>1. N - n + 1 \in 1..Len(table) /\ N \in (N - n + 1)..Len(table)
      BY <1>1, <1>2, <1>6
    <3> QED BY <1>2, <3>1, HeadTailOfSubSeq DEF HubTyped
  <2>3. Least((N + 1) - since, MaxHistory) = n
    BY <1>1, <1>2, <1>6 DEF Least
  <2>4. (N - n + 1) + 1 \in 1..(N + 1) /\ (N + 1) - n + 1 = (N - n + 1) + 1
    BY <1>1, <1>2, <1>6
  <2>5. history' = SubSeq(table', (N - n + 1) + 1, N + 1)
    <3>1. (N - n + 1) + 1 \in 1..(Len(table) + 1)
      BY <1>1, <2>4
    <3>2. SubSeq(Append(table, key), (N - n + 1) + 1, Len(table) + 1) = Append(SubSeq(table, (N - n + 1) + 1, Len(table)), key)
      BY <3>1, EndAppends DEF HubTyped
    <3> QED BY <1>1, <2>1, <2>2, <3>2
  <2>6. HistoryIsTail'
    BY <1>1, <2>3, <2>4, <2>5 DEF HistoryIsTail
  <2> QED BY <1>1, <2>6 DEF HubTyped
<1> QED BY <1>1, <1>2, <1>5, <1>6

\* A process that starts has an empty ring.
LEMMA RingStartsEmpty ==
  ASSUME table' \in Seq(Keys), history' = <<>>, since' = Len(table') PROVE HubTyped' /\ HistoryIsTail'
<1>1. Len(table') \in Nat /\ Len(table') - since' = 0 /\ MaxHistory \in Nat
  BY LenProperties, LimitsAssumption
<1>2. Least(Len(table') - since', MaxHistory) = 0
  BY <1>1 DEF Least
<1>3. SubSeq(table', Len(table') + 1, Len(table')) = <<>>
  BY <1>1, SubSeqEmpty
<1>4. Len(table') - 0 + 1 = Len(table') + 1
  BY <1>1
<1> QED BY <1>1, <1>2, <1>3, <1>4 DEF HubTyped, HistoryIsTail

\* What sandbox_config_history shows is the end of the persisted history, for
\* every size of the ring, every number of changes and a process that may die
\* between the row and the entry.
THEOREM HistoryShowsTheEnd == LimitsSpec => []HistoryIsTail
<1>1. LimitsInit => HubTyped /\ HistoryIsTail
  <2> SUFFICES ASSUME LimitsInit PROVE HubTyped /\ HistoryIsTail
    OBVIOUS
  <2>1. table = <<>> /\ history = <<>> /\ since = 0 /\ table \in Seq(Keys) /\ Len(table) = 0
    BY EmptySeq DEF LimitsInit
  <2>2. Least(Len(table) - since, MaxHistory) = 0 /\ Len(table) - 0 + 1 = 1
    BY <2>1, LimitsAssumption DEF Least
  <2>3. SubSeq(table, 1, 0) = <<>>
    BY SubSeqEmpty
  <2> QED BY <2>1, <2>2, <2>3 DEF HubTyped, HistoryIsTail
<1>2. HubTyped /\ HistoryIsTail /\ [LimitsNext]_limitsVars => HubTyped' /\ HistoryIsTail'
  <2> SUFFICES ASSUME HubTyped, HistoryIsTail, [LimitsNext]_limitsVars PROVE HubTyped' /\ HistoryIsTail'
    OBVIOUS
  <2>1. ASSUME NEW key \in Keys, set_config(key), ~ UNCHANGED hubVars PROVE HubTyped' /\ HistoryIsTail'
    BY <2>1, EntryFollowsRow DEF set_config, hubVars
  <2>2. ASSUME NEW key \in Keys, DieInSetConfig(key) PROVE HubTyped' /\ HistoryIsTail'
    <3>1. table' \in Seq(Keys) /\ history' = <<>> /\ since' = Len(table')
      BY <2>2, AppendProperties DEF DieInSetConfig, HubTyped
    <3> QED BY <3>1, RingStartsEmpty
  <2>3. CASE HubRestart
    BY <2>3, RingStartsEmpty DEF HubRestart, HubTyped
  <2>4. CASE UNCHANGED hubVars
    BY <2>4 DEF hubVars, HubTyped, HistoryIsTail
  <2> QED BY <2>1, <2>2, <2>3, <2>4 DEF LimitsNext, Second, ClientBucket, GlobalBucket, limitsVars
<1> QED BY <1>1, <1>2, PTL DEF LimitsSpec
------------------------------------------------------------------------------
(* The provider instances and their files.                                   *)

Instances == [id : InstanceIds, name : Names \ Unsafe, status : Statuses]
Files == Instances \cup {NoFile, Empty, Torn}
Doings == {Free} \cup [pc : {"write", "remove"}, of : Instances, linked : BOOLEAN]

\* Call c is about to write, or to remove, the file of n.
Works(c, p, n) == doing[c].pc = p /\ doing[c].of.name = n

\* An instance some part of the program has: memory, a call under way, a file.
Has(o) ==
  \/ o \in objects \/ \E n \in Names : directory[n] = o
  \/ \E c \in StoreCalls : doing[c].pc \in {"write", "remove"} /\ doing[c].of = o

StoreTyped ==
  /\ objects \subseteq Instances /\ doing \in [StoreCalls -> Doings]
  /\ directory \in [Names -> Files] /\ complete \in [Names -> Instances \cup {NoFile}]
\* A file lies under the name of the instance in it.
FilesTrue == \A n \in Names : directory[n] \in Instances => directory[n].name = n
\* An identifier in the program was given out, and stands for one name: stale
\* copies in memory or in a call differ from the file in their status only.
OneName ==
  /\ \A a \in Instances : Has(a) => a.id \in used
  /\ \A a, b \in Instances : Has(a) /\ Has(b) /\ a.id = b.id => a.name = b.name
\* What the calls on one name owe each other: outside a race, a file nobody writes
\* holds what was saved last; a save is alone with the file it has emptied; and the
\* file that a delete is about to remove holds the instance it has found, or is gone.
Kept(n) ==
  /\ (\A c \in StoreCalls : ~ Works(c, "write", n)) => directory[n] = complete[n]
  /\ \A c \in StoreCalls : Works(c, "write", n) =>
       /\ doing[c].linked /\ directory[n] = Empty
       /\ \A d \in StoreCalls : d # c => ~ Works(d, "write", n) /\ ~ Works(d, "remove", n)
  /\ \A c \in StoreCalls : Works(c, "remove", n) =>
       \/ directory[n] = NoFile
       \/ directory[n] \in Instances /\ directory[n].id = doing[c].of.id
Undisturbed == \A n \in Names : n \notin raced => Kept(n)
StoreSound == StoreTyped /\ FilesTrue /\ OneName /\ Undisturbed

LEMMA MarksAreNoInstances ==
  /\ NoFile \notin Instances /\ Empty \notin Instances /\ Torn \notin Instances
  /\ NoFile # Torn /\ NoFile # Empty /\ Empty # Torn
<1>1. NoFile.id = "absent" /\ Torn.id = "torn" /\ Empty.id = "empty"
  BY DEF NoFile, Torn, Empty
<1>2. \A o \in Instances : o.id \in InstanceIds
  BY DEF Instances
<1> QED BY <1>1, <1>2, StoreAssumption

LEMMA CallsOnName ==
  ASSUME StoreTyped, NEW n \in Names
  PROVE  /\ (On(n, {"write"}) = {}) <=> \A c \in StoreCalls : ~ Works(c, "write", n)
         /\ (On(n, {"write", "remove"}) = {}) <=>
              \A c \in StoreCalls : ~ Works(c, "write", n) /\ ~ Works(c, "remove", n)
         /\ \A c \in StoreCalls : c \in On(n, {"write"}) <=> Works(c, "write", n)
BY DEF On, Works, instance_path

\* What a call under way is at work on.
LEMMA CallTyped ==
  ASSUME StoreTyped, NEW c \in StoreCalls, doing[c].pc \in {"write", "remove"}
  PROVE  /\ doing[c].of \in Instances /\ doing[c].of.name \in Names /\ doing[c].linked \in BOOLEAN
         /\ Has(doing[c].of)
<1>1. doing[c] \in Doings /\ doing[c] # Free
  BY DEF StoreTyped, Free
<1> QED BY <1>1 DEF Doings, Instances, Has

\* What is known of a name stays true where a step changes nothing.
LEMMA KeptSame ==
  ASSUME NEW n \in Names, Kept(n), directory'[n] = directory[n], complete'[n] = complete[n],
         \A c \in StoreCalls : /\ Works(c, "write", n)' => Works(c, "write", n) /\ doing'[c].linked = doing[c].linked
                               /\ Works(c, "write", n) => Works(c, "write", n)'
                               /\ Works(c, "remove", n)' => Works(c, "remove", n) /\ doing'[c].of = doing[c].of
  PROVE  Kept(n)'
BY ZenonT(30) DEF Kept

\* A step that gives no name to an identifier keeps the names apart.
LEMMA NamesKept ==
  ASSUME OneName, used \subseteq used',
         \A a \in Instances : Has(a)' => \E b \in Instances : Has(b) /\ b.id = a.id /\ b.name = a.name
  PROVE  OneName'
BY DEF OneName

\* An instance with another status is the same instance.
LEMMA StatusOnly ==
  ASSUME NEW o \in Instances, NEW st \in Statuses, NEW m, m = [o EXCEPT !.status = st]
  PROVE  m \in Instances /\ m.id = o.id /\ m.name = o.name
BY DEF Instances

LEMMA FilesUntouched ==
  ASSUME StoreSound, UNCHANGED <<directory, doing, complete, raced>>
  PROVE  FilesTrue' /\ Undisturbed'
BY DEF StoreSound, FilesTrue, Undisturbed, Kept, Works

LEMMA StatusStep ==
  ASSUME StoreSound, NEW o \in objects, NEW st \in Statuses,
         objects' = (objects \ {o}) \cup {[o EXCEPT !.status = st]},
         UNCHANGED <<directory, used, doing, complete, raced>>
  PROVE  StoreSound'
<1>1. PICK m \in Instances : m = [o EXCEPT !.status = st] /\ m.id = o.id /\ m.name = o.name /\ o \in Instances
  BY StatusOnly DEF StoreSound, StoreTyped
<1>2. objects' \subseteq Instances /\ \A a \in objects' : a \in objects \/ a = m
  BY <1>1 DEF StoreSound, StoreTyped
<1>3. ASSUME NEW a \in Instances, Has(a)' PROVE \E b \in Instances : Has(b) /\ b.id = a.id /\ b.name = a.name
  BY <1>1, <1>2, <1>3 DEF Has
<1>4. OneName'
  BY <1>3, NamesKept DEF StoreSound
<1> QED BY <1>2, <1>4, FilesUntouched DEF StoreSound, StoreTyped

LEMMA NewStep ==
  ASSUME StoreSound, NEW i \in InstanceIds, NEW n \in Names, New(i, n) PROVE StoreSound'
<1> DEFINE o == [id |-> i, name |-> n, status |-> "loading"]
<1>1. o \in Instances /\ o.id = i /\ objects' = objects \cup {o}
      /\ i \notin used /\ used' = used \cup {i} /\ UNCHANGED <<directory, doing, complete, raced>>
  BY DEF New, Instances, Statuses, is_valid_name
<1> HIDE DEF o
<1>2. \A a \in Instances : Has(a)' => Has(a) \/ a = o
  BY <1>1 DEF Has
<1>3. \A a \in Instances : Has(a) => a.id # i /\ a.id \in used
  BY <1>1 DEF StoreSound, OneName
<1>4. \A a \in Instances : Has(a)' => a.id \in used'
  BY <1>1, <1>2, <1>3
<1>5. \A a, b \in Instances : Has(a)' /\ Has(b)' /\ a.id = b.id => a.name = b.name
  BY <1>1, <1>2, <1>3 DEF StoreSound, OneName
<1> QED BY <1>1, <1>4, <1>5, FilesUntouched DEF StoreSound, StoreTyped, OneName

LEMMA SaveOpensStep ==
  ASSUME StoreSound, NEW c \in StoreCalls, NEW o \in objects, SaveOpens(c, o) PROVE StoreSound'
<1>1. /\ o \in Instances /\ o.name \in Names /\ doing[c] = Free
      /\ doing' = [doing EXCEPT ![c] = [pc |-> "write", of |-> o, linked |-> TRUE]]
      /\ directory' = [directory EXCEPT ![o.name] = Empty] /\ UNCHANGED <<objects, used, complete>>
  BY DEF StoreSound, StoreTyped, SaveOpens, instance_path, Instances
<1>2. /\ doing' \in [StoreCalls -> Doings] /\ doing'[c].pc = "write" /\ doing'[c].of = o /\ doing'[c].linked
      /\ \A d \in StoreCalls : d # c => doing'[d] = doing[d]
      /\ \A n : ~ Works(c, "write", n) /\ ~ Works(c, "remove", n) /\ ~ Works(c, "remove", n)'
      /\ \A n : Works(c, "write", n)' <=> n = o.name
  BY <1>1 DEF StoreSound, StoreTyped, Doings, Free, Works
<1>3. directory' \in [Names -> Files] /\ \A n \in Names : IF n = o.name THEN directory'[n] = Empty ELSE directory'[n] = directory[n]
  BY <1>1 DEF StoreSound, StoreTyped, Files
<1>4. FilesTrue'
  BY <1>3, MarksAreNoInstances DEF StoreSound, FilesTrue
<1>5. ASSUME NEW a \in Instances, Has(a)' PROVE Has(a)
  BY <1>1, <1>2, <1>3, <1>5, MarksAreNoInstances DEF Has
<1>6. OneName'
  BY <1>1, <1>5, NamesKept DEF StoreSound
<1>7. \A d \in StoreCalls : d # c => \A n : /\ Works(d, "write", n)' <=> Works(d, "write", n)
                                            /\ Works(d, "remove", n)' <=> Works(d, "remove", n)
  BY <1>2 DEF Works
<1>8. ASSUME NEW n \in Names, n \notin raced' PROVE Kept(n)'
  <2>1. CASE n # o.name
    <3>1. n \notin raced
      BY <1>8, <2>1 DEF SaveOpens, instance_path
    <3>2. \A d \in StoreCalls : /\ Works(d, "write", n)' => Works(d, "write", n) /\ doing'[d].linked = doing[d].linked
                                /\ Works(d, "write", n) => Works(d, "write", n)'
                                /\ Works(d, "remove", n)' => Works(d, "remove", n) /\ doing'[d].of = doing[d].of
      BY <1>2, <1>7, <2>1
    <3> QED BY <1>1, <1>3, <2>1, <3>1, <3>2, KeptSame DEF StoreSound, Undisturbed
  <2>2. CASE n = o.name
    <3>1. On(n, {"write", "remove"}) = {}
      BY <1>8, <2>2 DEF SaveOpens, instance_path
    <3>2. \A d \in StoreCalls : ~ Works(d, "write", n) /\ ~ Works(d, "remove", n)
      BY <3>1, CallsOnName DEF StoreSound
    <3> QED BY <1>2, <1>3, <1>7, <2>2, <3>2 DEF Kept
  <2> QED BY <2>1, <2>2
<1> QED BY <1>1, <1>2, <1>3, <1>4, <1>6, <1>8 DEF StoreSound, StoreTyped, Undisturbed

\* The call c ends and no other call changes.
LEMMA CallEnds ==
  ASSUME StoreSound, NEW c \in StoreCalls, doing' = [doing EXCEPT ![c] = Free]
  PROVE  /\ doing' \in [StoreCalls -> Doings]
         /\ \A d \in StoreCalls : d # c => doing'[d] = doing[d]
         /\ \A n : ~ Works(c, "write", n)' /\ ~ Works(c, "remove", n)'
         /\ \A d \in StoreCalls : d # c => \A n : /\ Works(d, "write", n)' <=> Works(d, "write", n)
                                                  /\ Works(d, "remove", n)' <=> Works(d, "remove", n)
         /\ \A d \in StoreCalls : doing'[d].pc \in {"write", "remove"} => doing'[d] = doing[d]
BY DEF StoreSound, StoreTyped, Doings, Free, Works

LEMMA SaveWritesStep ==
  ASSUME StoreSound, NEW c \in StoreCalls, SaveWrites(c) PROVE StoreSound'
<1>1. PICK o \in Instances : doing[c].of = o /\ o.name \in Names /\ Works(c, "write", o.name) /\ Has(o)
  BY CallTyped DEF StoreSound, SaveWrites, Works
<1>2. /\ \/ ~ doing[c].linked /\ UNCHANGED directory
         \/ doing[c].linked /\ directory' = [directory EXCEPT ![o.name] = o]
         \/ directory[o.name] # Empty /\ directory' = [directory EXCEPT ![o.name] = Torn]
      /\ complete' = [complete EXCEPT ![o.name] = o] /\ doing' = [doing EXCEPT ![c] = Free]
      /\ UNCHANGED <<objects, used, raced>>
  BY <1>1 DEF SaveWrites, instance_path
<1>3. /\ directory' \in [Names -> Files] /\ complete' \in [Names -> Instances \cup {NoFile}]
      /\ \A n \in Names : n # o.name => directory'[n] = directory[n] /\ complete'[n] = complete[n]
      /\ directory'[o.name] \in {o, Torn, directory[o.name]} /\ complete'[o.name] = o
  BY <1>1, <1>2 DEF StoreSound, StoreTyped, Files
<1>4. FilesTrue'
  BY <1>1, <1>3, MarksAreNoInstances DEF StoreSound, FilesTrue
<1>5. ASSUME NEW a \in Instances, Has(a)' PROVE Has(a)
  <2>1. CASE \E n \in Names : directory'[n] = a
    BY <1>1, <1>3, <2>1, MarksAreNoInstances DEF Has
  <2> QED BY <1>2, <1>5, <2>1, CallEnds DEF Has
<1>6. OneName'
  BY <1>2, <1>5, NamesKept DEF StoreSound
<1>7. ASSUME NEW n \in Names, n \notin raced' PROVE Kept(n)'
  <2>1. Kept(n)
    BY <1>2, <1>7 DEF StoreSound, Undisturbed
  <2>2. CASE n # o.name
    <3>1. ~ Works(c, "write", n) /\ ~ Works(c, "remove", n)
      BY <1>1, <2>2 DEF Works
    <3>2. \A d \in StoreCalls : /\ Works(d, "write", n)' => Works(d, "write", n) /\ doing'[d].linked = doing[d].linked
                                /\ Works(d, "write", n) => Works(d, "write", n)'
                                /\ Works(d, "remove", n)' => Works(d, "remove", n) /\ doing'[d].of = doing[d].of
      BY <1>2, <3>1, CallEnds
    <3> QED BY <1>3, <2>1, <2>2, <3>2, KeptSame
  <2>3. CASE n = o.name
    <3>1. /\ doing[c].linked /\ directory[n] = Empty
          /\ \A d \in StoreCalls : d # c => ~ Works(d, "write", n) /\ ~ Works(d, "remove", n)
      BY <1>1, <2>1, <2>3 DEF Kept
    <3>2. directory' = [directory EXCEPT ![o.name] = o]
      BY <1>2, <2>3, <3>1
    <3>3. directory'[n] = o /\ complete'[n] = o
      BY <1>3, <2>3, <3>2 DEF StoreSound, StoreTyped
    <3>4. \A d \in StoreCalls : ~ Works(d, "write", n)' /\ ~ Works(d, "remove", n)'
      BY <1>2, <3>1, CallEnds
    <3> QED BY <3>3, <3>4 DEF Kept
  <2> QED BY <2>2, <2>3
<1> QED BY <1>2, <1>3, <1>4, <1>6, <1>7, CallEnds DEF StoreSound, StoreTyped, Undisturbed

LEMMA SaveFailsStep ==
  ASSUME StoreSound, NEW c \in StoreCalls, SaveFails(c) PROVE StoreSound'
<1>1. PICK o \in Instances : doing[c].of = o /\ o.name \in Names /\ Works(c, "write", o.name)
  BY CallTyped DEF StoreSound, SaveFails, Works
<1>2. /\ directory' = [directory EXCEPT ![o.name] = Torn] \/ UNCHANGED directory
      /\ raced' = raced \cup {o.name} /\ doing' = [doing EXCEPT ![c] = Free]
      /\ UNCHANGED <<objects, used, complete>>
  BY <1>1 DEF SaveFails, instance_path
<1>3. /\ directory' \in [Names -> Files]
      /\ \A n \in Names : directory'[n] = directory[n] \/ (n = o.name /\ directory'[n] = Torn)
  BY <1>1, <1>2 DEF StoreSound, StoreTyped, Files
<1>4. FilesTrue'
  BY <1>3, MarksAreNoInstances DEF StoreSound, FilesTrue
<1>5. ASSUME NEW a \in Instances, Has(a)' PROVE Has(a)
  BY <1>2, <1>3, <1>5, CallEnds, MarksAreNoInstances DEF Has
<1>6. OneName'
  BY <1>2, <1>5, NamesKept DEF StoreSound
<1>7. ASSUME NEW n \in Names, n \notin raced' PROVE Kept(n)'
  <2>1. n # o.name /\ Kept(n) /\ ~ Works(c, "write", n) /\ ~ Works(c, "remove", n)
    BY <1>1, <1>2, <1>7 DEF StoreSound, Undisturbed, Works
  <2>2. \A d \in StoreCalls : /\ Works(d, "write", n)' => Works(d, "write", n) /\ doing'[d].linked = doing[d].linked
                              /\ Works(d, "write", n) => Works(d, "write", n)'
                              /\ Works(d, "remove", n)' => Works(d, "remove", n) /\ doing'[d].of = doing[d].of
    BY <1>2, <2>1, CallEnds
  <2> QED BY <1>2, <1>3, <2>1, <2>2, KeptSame
<1> QED BY <1>2, <1>3, <1>4, <1>6, <1>7, CallEnds DEF StoreSound, StoreTyped, Undisturbed

LEMMA ListedAreInstances ==
  ASSUME StoreSound, NEW o \in list_all_instances
  PROVE  o \in Instances /\ o.name \in Names /\ o.name \notin Unsafe /\ directory[o.name] = o
<1>1. PICK n \in Names : directory[n] = o /\ o \in Instances
  BY DEF list_all_instances, StoreSound, StoreTyped, Files
<1>2. o.name = n
  BY <1>1 DEF StoreSound, FilesTrue
<1> QED BY <1>1, <1>2 DEF Instances

LEMMA DeleteListsStep ==
  ASSUME StoreSound, NEW c \in StoreCalls, NEW i \in used, DeleteLists(c, i) PROVE StoreSound'
<1>1. PICK o \in find_by_id(i) : doing' = [doing EXCEPT ![c] = [pc |-> "remove", of |-> o, linked |-> FALSE]]
  BY DEF DeleteLists
<1>2. o \in Instances /\ o.name \in Names /\ directory[o.name] = o /\ Has(o)
  BY ListedAreInstances DEF find_by_id, Has
<1>3. doing[c] = Free /\ UNCHANGED <<objects, directory, used, complete, raced>>
  BY DEF DeleteLists
<1>4. /\ doing' \in [StoreCalls -> Doings] /\ doing'[c].pc = "remove" /\ doing'[c].of = o
      /\ \A d \in StoreCalls : d # c => doing'[d] = doing[d]
      /\ \A n : ~ Works(c, "write", n) /\ ~ Works(c, "write", n)' /\ ~ Works(c, "remove", n)
      /\ \A n : Works(c, "remove", n)' <=> n = o.name
  BY <1>1, <1>2, <1>3 DEF StoreSound, StoreTyped, Doings, Free, Works
<1>5. \A d \in StoreCalls : d # c => \A n : /\ Works(d, "write", n)' <=> Works(d, "write", n)
                                            /\ Works(d, "remove", n)' <=> Works(d, "remove", n)
  BY <1>4 DEF Works
<1>6. ASSUME NEW a \in Instances, Has(a)' PROVE Has(a)
  BY <1>2, <1>3, <1>4, <1>6 DEF Has
<1>7. OneName'
  BY <1>3, <1>6, NamesKept DEF StoreSound
<1>8. ASSUME NEW n \in Names, n \notin raced' PROVE Kept(n)'
  <2>1. Kept(n)
    BY <1>3, <1>8 DEF StoreSound, Undisturbed
  <2>2. CASE n # o.name
    BY <1>3, <1>4, <1>5, <2>1, <2>2, KeptSame
  <2>3. CASE n = o.name
    <3>1. directory'[n] \in Instances /\ directory'[n] = o /\ directory'[n] = directory[n] /\ complete'[n] = complete[n]
      BY <1>2, <1>3, <2>3
    <3>2. \A d \in StoreCalls : ~ Works(d, "write", n)
      BY <2>1, <3>1, MarksAreNoInstances DEF Kept
    <3>3. \A d \in StoreCalls : ~ Works(d, "write", n)'
      BY <1>4, <1>5, <3>2
    <3>4. ASSUME NEW d \in StoreCalls, Works(d, "remove", n)'
          PROVE  directory'[n] = NoFile \/ (directory'[n] \in Instances /\ directory'[n].id = doing'[d].of.id)
      <4>1. CASE d = c
        BY <1>4, <3>1, <4>1
      <4>2. CASE d # c
        <5>1. Works(d, "remove", n) /\ doing'[d] = doing[d]
          BY <1>4, <1>5, <3>4, <4>2
        <5> QED BY <2>1, <3>1, <5>1 DEF Kept
      <4> QED BY <4>1, <4>2
    <3>5. directory'[n] = complete'[n]
      BY <2>1, <3>1, <3>2 DEF Kept
    <3> QED BY <3>3, <3>4, <3>5 DEF Kept
  <2> QED BY <2>2, <2>3
<1> QED BY <1>3, <1>4, <1>7, <1>8 DEF StoreSound, StoreTyped, FilesTrue, Undisturbed

LEMMA DeleteRemovesStep ==
  ASSUME StoreSound, NEW c \in StoreCalls, DeleteRemoves(c) PROVE StoreSound'
<1>1. PICK o \in Instances : doing[c].of = o /\ o.name \in Names /\ Works(c, "remove", o.name)
  BY CallTyped DEF StoreSound, DeleteRemoves, Works
<1>2. UNCHANGED <<objects, used, raced>>
  BY DEF DeleteRemoves
<1>3. CASE doing' = [doing EXCEPT ![c] = Free] /\ UNCHANGED <<directory, complete>>
  <2>1. ASSUME NEW a \in Instances, Has(a)' PROVE Has(a)
    BY <1>2, <1>3, <2>1, CallEnds DEF Has
  <2>2. OneName'
    BY <1>2, <2>1, NamesKept DEF StoreSound
  <2>3. ASSUME NEW n \in Names, n \notin raced' PROVE Kept(n)'
    <3>1. Kept(n) /\ ~ Works(c, "write", n)
      BY <1>1, <1>2, <2>3 DEF StoreSound, Undisturbed, Works
    <3>2. \A d \in StoreCalls : /\ Works(d, "write", n)' => Works(d, "write", n) /\ doing'[d].linked = doing[d].linked
                                /\ Works(d, "write", n) => Works(d, "write", n)'
                                /\ Works(d, "remove", n)' => Works(d, "remove", n) /\ doing'[d].of = doing[d].of
      BY <1>3, <3>1, CallEnds
    <3> QED BY <1>3, <3>1, <3>2, KeptSame
  <2> QED BY <1>2, <1>3, <2>2, <2>3, CallEnds DEF StoreSound, StoreTyped, FilesTrue, Undisturbed
<1>4. CASE /\ directory' = [directory EXCEPT ![o.name] = NoFile]
           /\ complete' = [complete EXCEPT ![o.name] = IF complete[o.name].id = o.id THEN NoFile ELSE complete[o.name]]
           /\ doing' = [d \in StoreCalls |->
                IF d = c THEN Free
                ELSE IF d \in On(o.name, {"write"}) THEN [doing[d] EXCEPT !.linked = FALSE] ELSE doing[d]]
  <2>1. ASSUME NEW d \in StoreCalls
        PROVE  /\ doing'[d] \in Doings
               /\ d # c => doing'[d].pc = doing[d].pc /\ (doing[d].pc # "free" => doing'[d].of = doing[d].of)
               /\ d = c => doing'[d].pc = "free"
               /\ d # c /\ ~ Works(d, "write", o.name) => doing'[d] = doing[d]
    <3>1. CASE d = c
      BY <1>4, <3>1 DEF Doings, Free
    <3>2. CASE d # c /\ ~ Works(d, "write", o.name)
      BY <1>1, <1>4, <3>2, CallsOnName DEF StoreSound, StoreTyped
    <3>3. CASE d # c /\ Works(d, "write", o.name)
      <4>1. doing'[d] = [doing[d] EXCEPT !.linked = FALSE]
        BY <1>1, <1>4, <3>3, CallsOnName DEF StoreSound
      <4>2. doing[d] \in [pc : {"write", "remove"}, of : Instances, linked : BOOLEAN]
        BY <3>3 DEF StoreSound, StoreTyped, Doings, Works, Free
      <4> QED BY <3>3, <4>1, <4>2 DEF Doings
    <3> QED BY <3>1, <3>2, <3>3
  <2>2. /\ doing' \in [StoreCalls -> Doings] /\ directory' \in [Names -> Files]
        /\ complete' \in [Names -> Instances \cup {NoFile}]
        /\ \A n \in Names : n # o.name => directory'[n] = directory[n] /\ complete'[n] = complete[n]
        /\ directory'[o.name] = NoFile
        /\ complete'[o.name] = IF complete[o.name].id = o.id THEN NoFile ELSE complete[o.name]
    <3>1. doing' = [d \in StoreCalls |-> doing'[d]]
      BY <1>4
    <3>2. doing' \in [StoreCalls -> Doings]
      BY <2>1, <3>1
    <3> QED BY <1>1, <1>4, <3>2 DEF StoreSound, StoreTyped, Files
  <2>3. FilesTrue'
    BY <2>2, MarksAreNoInstances DEF StoreSound, FilesTrue
  <2>4. ASSUME NEW a \in Instances, Has(a)' PROVE Has(a)
    <3>1. CASE \E n \in Names : directory'[n] = a
      BY <2>2, <3>1, MarksAreNoInstances DEF Has
    <3>2. CASE \E d \in StoreCalls : doing'[d].pc \in {"write", "remove"} /\ doing'[d].of = a
      <4>1. PICK d \in StoreCalls : doing'[d].pc \in {"write", "remove"} /\ doing'[d].of = a
        BY <3>2
      <4>2. d # c /\ doing[d].pc \in {"write", "remove"} /\ doing[d].of = a
        BY <2>1, <4>1
      <4> QED BY <4>2 DEF Has
    <3> QED BY <1>2, <2>4, <3>1, <3>2 DEF Has
  <2>5. OneName'
    BY <1>2, <2>4, NamesKept DEF StoreSound
  <2>6. \A d \in StoreCalls : /\ \A n : Works(d, "write", n)' => Works(d, "write", n)
                              /\ \A n : Works(d, "remove", n)' => Works(d, "remove", n) /\ d # c
                              /\ \A n : d # c /\ Works(d, "write", n) => Works(d, "write", n)'
    BY <2>1 DEF Works
  <2>7. ASSUME NEW n \in Names, n \notin raced' PROVE Kept(n)'
    <3>1. Kept(n)
      BY <1>2, <2>7 DEF StoreSound, Undisturbed
    <3>2. CASE n # o.name
      <4>1. \A d \in StoreCalls : /\ Works(d, "write", n)' => Works(d, "write", n) /\ doing'[d].linked = doing[d].linked
                                  /\ Works(d, "write", n) => Works(d, "write", n)'
                                  /\ Works(d, "remove", n)' => Works(d, "remove", n) /\ doing'[d].of = doing[d].of
        <5>1. ASSUME NEW d \in StoreCalls, Works(d, "write", n) \/ Works(d, "remove", n)
              PROVE  ~ Works(d, "write", o.name)
          BY <3>2, <5>1 DEF Works
        <5>2. ~ Works(c, "write", n)
          BY <1>1 DEF Works
        <5> QED BY <2>1, <2>6, <5>1, <5>2 DEF Works
      <4> QED BY <2>2, <3>1, <3>2, <4>1, KeptSame
    <3>3. CASE n = o.name
      <4>1. \A d \in StoreCalls : ~ Works(d, "write", n)
        <5>1. ASSUME NEW d \in StoreCalls, Works(d, "write", n) PROVE FALSE
          <6>1. d # c
            BY <1>1, <5>1 DEF Works
          <6> QED BY <1>1, <3>1, <3>3, <5>1, <6>1 DEF Kept
        <5> QED BY <5>1
      <4>2. directory[n] = complete[n] /\ (directory[n] = NoFile \/ directory[n].id = o.id)
        BY <1>1, <3>1, <3>3, <4>1 DEF Kept
      <4>3. directory'[n] = NoFile /\ complete'[n] = NoFile
        BY <2>2, <3>3, <4>2
      <4>4. \A d \in StoreCalls : ~ Works(d, "write", n)'
        BY <2>6, <4>1
      <4> QED BY <4>3, <4>4 DEF Kept
    <3> QED BY <3>2, <3>3
  <2> QED BY <1>2, <2>2, <2>3, <2>5, <2>7 DEF StoreSound, StoreTyped, Undisturbed
<1> QED BY <1>1, <1>3, <1>4 DEF DeleteRemoves, instance_path

LEMMA StoreRestartStep == ASSUME StoreSound, StoreRestart PROVE StoreSound'
<1>1. /\ objects' = list_all_instances /\ doing' = [c \in StoreCalls |-> Free]
      /\ raced' = raced \cup {n \in Names : On(n, {"write"}) # {}} /\ UNCHANGED <<directory, used, complete>>
  BY DEF StoreRestart
<1>2. \A a \in objects' : a \in Instances /\ a.name \in Names /\ directory[a.name] = a
  BY <1>1, ListedAreInstances
<1>3. /\ doing' \in [StoreCalls -> Doings] /\ \A c \in StoreCalls : doing'[c].pc = "free"
      /\ \A c \in StoreCalls, n \in Names : ~ Works(c, "write", n)' /\ ~ Works(c, "remove", n)'
  BY <1>1 DEF Doings, Free, Works
<1>4. ASSUME NEW a \in Instances, Has(a)' PROVE Has(a)
  BY <1>1, <1>2, <1>3, <1>4, MarksAreNoInstances DEF Has
<1>5. OneName'
  BY <1>1, <1>4, NamesKept DEF StoreSound
<1>6. ASSUME NEW n \in Names, n \notin raced' PROVE Kept(n)'
  <2>1. n \notin raced /\ On(n, {"write"}) = {}
    BY <1>1, <1>6
  <2>2. directory[n] = complete[n]
    BY <2>1, CallsOnName DEF StoreSound, Undisturbed, Kept
  <2> QED BY <1>1, <1>3, <2>2 DEF Kept
<1> QED BY <1>1, <1>2, <1>3, <1>5, <1>6 DEF StoreSound, StoreTyped, FilesTrue, Undisturbed

LEMMA StoreStep == ASSUME StoreSound, [StoreNext]_storeVars PROVE StoreSound'
<1>1. ASSUME NEW o \in objects, NEW to \in Statuses, Mark(o, to) PROVE StoreSound'
  BY <1>1, StatusStep DEF Mark
<1>2. ASSUME NEW o \in objects, mark_failed(o) PROVE StoreSound'
  <2>1. "offline" \in Statuses
    BY DEF Statuses
  <2> QED BY <1>2, <2>1, StatusStep DEF mark_failed
<1>3. CASE UNCHANGED storeVars
  BY <1>3, FilesUntouched DEF storeVars, StoreSound, StoreTyped, OneName, Has
<1> QED BY <1>1, <1>2, <1>3, NewStep, SaveOpensStep, SaveWritesStep, SaveFailsStep, DeleteListsStep, DeleteRemovesStep,
           StoreRestartStep DEF StoreNext

\* With any number of instances, and of saves and deletes that overlap as they please
\* or are cut off at any point: a name whose last save was neither cut off nor beside
\* another call on that name gives back what was saved last and not deleted since, an
\* identifier is in one file at most, and no file has an unsafe name (save, delete,
\* find_by_id, find_by_name).
THEOREM InstancesReadBack == StoreSpec => []StoreAgrees
<1>1. StoreInit => StoreSound
  <2> SUFFICES ASSUME StoreInit PROVE StoreSound
    OBVIOUS
  <2>1. \A c \in StoreCalls : doing[c] = Free /\ doing[c].pc = "free"
    BY DEF StoreInit, Free
  <2>2. StoreTyped /\ FilesTrue
    BY MarksAreNoInstances DEF StoreInit, StoreTyped, FilesTrue, Files, Doings
  <2>3. \A a \in Instances : ~ Has(a)
    BY <2>1, MarksAreNoInstances DEF StoreInit, Has
  <2>4. OneName
    BY <2>3 DEF OneName
  <2>5. Undisturbed
    BY <2>1 DEF StoreInit, Undisturbed, Kept, Works
  <2> QED BY <2>2, <2>4, <2>5 DEF StoreSound
<1>2. StoreSound => StoreAgrees
  <2> SUFFICES ASSUME StoreSound, NEW i \in InstanceIds
               PROVE  /\ Cardinality(find_by_id(i)) <= 1
                      /\ \A o \in find_by_id(i) : find_by_name(o.name) = o /\ is_valid_name(o.name)
    <3>1. ASSUME StoreSound, NEW n \in Names \ raced, On(n, {"write"}) = {} PROVE directory[n] = complete[n]
      BY <3>1, CallsOnName DEF StoreSound, Undisturbed, Kept
    <3> QED BY <3>1 DEF StoreAgrees
  <2>1. \A o \in find_by_id(i) : o \in list_all_instances /\ o.id = i
    BY DEF find_by_id
  <2>2. \A o \in find_by_id(i) : /\ o \in Instances /\ o.name \in Names /\ o.name \notin Unsafe
                                 /\ directory[o.name] = o /\ Has(o)
    BY <2>1, ListedAreInstances DEF Has
  <2>3. \A a, b \in find_by_id(i) : a = b
    BY <2>1, <2>2 DEF StoreSound, OneName
  <2>4. CASE find_by_id(i) = {}
    BY <2>4, FS_EmptySet
  <2>5. ASSUME NEW o \in find_by_id(i) PROVE Cardinality(find_by_id(i)) <= 1
    <3>1. find_by_id(i) = {o}
      BY <2>3
    <3>2. Cardinality({o}) = 1
      BY FS_Singleton
    <3> QED BY <3>1, <3>2
  <2> QED BY <2>2, <2>4, <2>5 DEF find_by_name, is_valid_name
<1> QED BY <1>1, <1>2, StoreStep, PTL DEF StoreSpec

------------------------------------------------------------------------------
(* The circuit breaker of a worker.                                          *)

CONSTANTS Callers, Threshold
VARIABLES failures, until, command, worker
Breaker == INSTANCE CircuitBreaker WITH call <- command

Steps == {"idle", "busy", "store", "clear", "count", "act"}
BreakerTyped ==
  /\ command \in [Callers -> [pc : Steps, state : {"closed", "open", "half"}, n : Int]]
  /\ failures \in Int /\ until \in {"none", "ahead", "past"}

\* The commands whose results are still being recorded, as successes or as failures.
Recording(pcs) == {c \in Callers : command[c].pc \in pcs}

\* The worker only fails, its last success is recorded, and the circuit is not closed.
IsCutOff == worker = "failing" /\ Recording({"store", "clear"}) = {} /\ until # "none"

\* The worker only answers, its last failure is recorded, and the circuit is closed.
IsBack == worker = "healthy" /\ Recording({"count", "act"}) = {} /\ until = "none"

\* What one access of record_success or record_failure does to the commands.
LEMMA BreakerMoves ==
  ASSUME BreakerTyped, Threshold \in Int, NEW c \in Callers, Breaker!Admit(c) \/ Breaker!Record(c)
  PROVE  /\ BreakerTyped' /\ worker' = worker
         /\ \A d \in Callers \ {c} : command'[d] = command[d]
         /\ \/ command[c].pc = "idle" /\ command'[c].pc = "busy" /\ until' = until
            \/ command[c].pc = "busy" /\ command'[c].pc = "store" /\ worker # "failing" /\ until' = until
            \/ command[c].pc = "store" /\ command'[c].pc = "clear" /\ until' = until
            \/ command[c].pc = "clear" /\ command'[c].pc = "idle" /\ until' = "none"
            \/ command[c].pc = "busy" /\ command'[c].pc = "count" /\ worker # "healthy" /\ until' = until
            \/ command[c].pc = "count" /\ command'[c].pc = "act" /\ until' = until
            \/ command[c].pc = "act" /\ command'[c].pc = "idle" /\ until' \in {until, "ahead"}
<1>1. CASE Breaker!Admit(c)
  BY <1>1 DEF BreakerTyped, Steps, Breaker!Admit, Breaker!Goto
<1>2. CASE Breaker!Succeed(c)
  BY <1>2 DEF BreakerTyped, Steps, Breaker!Succeed, Breaker!Goto
<1>3. CASE Breaker!StoreZero(c)
  BY <1>3 DEF BreakerTyped, Steps, Breaker!StoreZero, Breaker!Goto
<1>4. CASE Breaker!ClearUntil(c)
  BY <1>4 DEF BreakerTyped, Steps, Breaker!ClearUntil, Breaker!Goto
<1>5. CASE Breaker!Fail(c)
  BY <1>5, ZenonT(60) DEF BreakerTyped, Steps, Breaker!Fail, Breaker!CircuitState
<1>6. CASE Breaker!Count(c)
  <2>1. PICK n \in Int : n = Breaker!Cap(failures + 1)
    BY DEF BreakerTyped, Breaker!Cap
  <2>2. /\ command[c].pc = "count" /\ failures' = n
        /\ command' = [command EXCEPT ![c].pc = "act", ![c].n = n] /\ UNCHANGED <<until, worker>>
    BY <1>6, <2>1 DEF Breaker!Count
  <2> QED BY <2>2 DEF BreakerTyped, Steps
<1>7. CASE Breaker!Act(c)
  BY <1>7 DEF BreakerTyped, Steps, Breaker!Act, Breaker!Idle
<1> QED BY <1>1, <1>2, <1>3, <1>4, <1>5, <1>6, <1>7 DEF Breaker!Record

LEMMA BreakerStep ==
  ASSUME BreakerTyped, Threshold \in Int, [Breaker!Next]_(Breaker!breakerVars)
  PROVE  BreakerTyped' /\ (IsCutOff => IsCutOff') /\ (IsBack => IsBack')
<1>1. CASE Breaker!Expire
  BY <1>1 DEF Breaker!Expire, BreakerTyped, IsCutOff, IsBack, Recording
<1>2. CASE Breaker!Settle
  BY <1>2 DEF Breaker!Settle, BreakerTyped, IsCutOff, IsBack, Recording
<1>3. ASSUME NEW c \in Callers, Breaker!Admit(c) \/ Breaker!Record(c)
      PROVE  BreakerTyped' /\ (IsCutOff => IsCutOff') /\ (IsBack => IsBack')
  <2>1. ASSUME IsCutOff PROVE IsCutOff'
    BY <1>3, <2>1, BreakerMoves DEF IsCutOff, Recording
  <2>2. ASSUME IsBack PROVE IsBack'
    BY <1>3, <2>2, BreakerMoves DEF IsBack, Recording
  <2> QED BY <1>3, <2>1, <2>2, BreakerMoves
<1>4. CASE UNCHANGED Breaker!breakerVars
  BY <1>4 DEF Breaker!breakerVars, BreakerTyped, IsCutOff, IsBack, Recording
<1> QED BY <1>1, <1>2, <1>3, <1>4 DEF Breaker!Next

\* The part of CutOff and Recovers that is safety, for any number of commands at once and
\* any threshold: a worker that only fails, once its circuit has opened and no success is
\* still being recorded, never gets it closed again; one that only answers, once closed and
\* no failure is still being recorded, never gets it opened again (record_success and
\* record_failure, whose accesses to the count and the instant other commands may cross).
THEOREM BreakerStaysDecided ==
  ASSUME Threshold \in Int
  PROVE  Breaker!Spec => [](IsCutOff => []IsCutOff) /\ [](IsBack => []IsBack)
<1>1. Breaker!Init => BreakerTyped
  BY DEF Breaker!Init, Breaker!Idle, BreakerTyped, Steps
<1> QED BY <1>1, BreakerStep, PTL DEF Breaker!Spec

------------------------------------------------------------------------------
(* Resource names and artifact locations.                                    *)

Brn == INSTANCE ResourceNames

LEMMA FactoryNames ==
  ASSUME NEW type \in Brn!Types PROVE Brn!NamespaceOf[type] \in Brn!Namespaces
BY DEF Brn!Types, Brn!NamespaceOf, Brn!Namespaces

\* Three parts and those of an identifier.
LEMMA PartsOfName ==
  ASSUME NEW S, NEW x, NEW y, NEW z, NEW q \in Seq(S), NEW w, w = <<x, y, z>> \o q
  PROVE  /\ Len(w) = 3 + Len(q) /\ w[1] = x /\ w[2] = y /\ w[3] = z
         /\ Len(q) = 1 => w[4] = q[1]
<1>1. PICK T : S \subseteq T /\ x \in T /\ y \in T /\ z \in T
  <2>1. S \subseteq S \cup {x, y, z} /\ x \in S \cup {x, y, z} /\ y \in S \cup {x, y, z} /\ z \in S \cup {x, y, z}
    OBVIOUS
  <2> QED BY <2>1
<1>2. PICK s : s = <<x, y, z>>
  OBVIOUS
<1>3. s \in Seq(T) /\ Len(s) = 3 /\ s[1] = x /\ s[2] = y /\ s[3] = z
  BY <1>1, <1>2
<1>4. q \in Seq(T) /\ Len(q) \in Nat
  BY <1>1, SeqMonotonic, LenProperties
<1>5. /\ Len(s \o q) = Len(s) + Len(q)
      /\ \A i \in 1 .. Len(s) + Len(q) : (s \o q)[i] = IF i <= Len(s) THEN s[i] ELSE q[i - Len(s)]
  BY <1>3, <1>4, ConcatProperties
<1>6. w = s \o q
  BY <1>2
<1> HIDE <1>2
<1>7. /\ Len(w) = 3 + Len(q)
      /\ \A i \in 1 .. 3 + Len(q) : w[i] = IF i <= 3 THEN s[i] ELSE q[i - 3]
  BY <1>3, <1>5, <1>6
<1>8. \A n \in Nat : /\ 1 \in 1 .. 3 + n /\ 2 \in 1 .. 3 + n /\ 3 \in 1 .. 3 + n
                     /\ n = 1 => 4 \in 1 .. 3 + n /\ 4 - 3 = 1
  OBVIOUS
<1>9. w[1] = s[1] /\ w[2] = s[2] /\ w[3] = s[3] /\ (Len(q) = 1 => w[4] = q[1])
  BY <1>4, <1>7, <1>8
<1> QED BY <1>3, <1>7, <1>9

LEMMA OnePart ==
  ASSUME NEW S, NEW q \in Seq(S), Len(q) = 1 PROVE q = <<q[1]>>
<1>1. q[1] \in S
  BY ElementOfSeq
<1>2. <<q[1]>> \in Seq(S) /\ Len(<<q[1]>>) = 1
  BY <1>1
<1> QED BY <1>1, <1>2, SeqEqual

\* Whatever a factory names, an identifier of one nonempty part is read back, with the
\* capabilities it asks for, and every other one is refused by the parser, for all
\* identifiers (to_string and parse of brn.rs).
THEOREM NamesReadBack ==
  ASSUME NEW type \in Brn!Types, NEW S, NEW parts \in Seq(S), NEW padded \in BOOLEAN
  PROVE  Brn!NameReadBack(Brn!Factory(type, Brn!Text(parts, padded)))
<1>1. PICK ns, T, q, b : /\ Brn!Factory(type, Brn!Text(parts, padded)) =
                            [namespace |-> ns, type |-> type, id |-> Brn!Text(q, b)]
                         /\ ns \in Brn!Namespaces /\ q \in Seq(T) /\ b \in BOOLEAN
  <2>1. <<"default">> \in Seq({"default"})
    OBVIOUS
  <2>2. CASE type \in {"pool", "config"}
    BY <2>1, <2>2, FactoryNames DEF Brn!Factory, Brn!Default
  <2>3. CASE type \notin {"pool", "config"}
    BY <2>3, FactoryNames DEF Brn!Factory
  <2> QED BY <2>2, <2>3
<1> DEFINE name == [namespace |-> ns, type |-> type, id |-> Brn!Text(q, b)]
<1>2. name.id.parts = q /\ name.id.padded = b /\ Len(q) \in Nat
  BY <1>1, LenProperties DEF Brn!Text
<1>3. PICK w : w = <<"brn", ns, type>> \o q
  OBVIOUS
<1>9. /\ Len(w) = 3 + Len(q) /\ w[1] = "brn" /\ w[2] = ns /\ w[3] = type
      /\ Len(q) = 1 => w[4] = q[1]
  BY <1>1, <1>3, PartsOfName
<1>10. Len(q) = 1 <=> Len(w) = 4
  <2>1. \A n \in Nat : n = 1 <=> 3 + n = 4
    OBVIOUS
  <2> QED BY <1>2, <1>9, <2>1, Zenon
<1>11. w[1] = "brn" /\ w[2] \in Brn!Namespaces /\ w[3] \in Brn!Types
  BY <1>1, <1>9, Zenon
<1>4. Brn!to_string(name) = Brn!Text(w, b)
  BY <1>2, <1>3 DEF Brn!to_string
<1>5. PICK read : read = Brn!parse_brn(Brn!to_string(name))
  OBVIOUS
<1>6. Brn!Text(w, b).parts = w
  BY DEF Brn!Text
<1>7. CASE Len(q) = 1 /\ q[1] # ""
  <2>1. read = [namespace |-> ns, type |-> type, id |-> Brn!Text(<<q[1]>>, FALSE)]
    <3>1. Len(w) = 4 /\ w[4] = q[1] /\ w[4] # ""
      BY <1>7, <1>9, <1>10, Zenon
    <3>2. read = [namespace |-> w[2], type |-> w[3], id |-> Brn!Text(<<w[4]>>, FALSE)]
      BY <1>4, <1>5, <1>6, <1>11, <3>1 DEF Brn!parse_brn
    <3> QED BY <1>9, <3>1, <3>2, Zenon
  <2>2. q = <<q[1]>>
    BY <1>1, <1>7, OnePart
  <2>3. read = [name EXCEPT !.id.padded = FALSE]
    <3>1. read = [namespace |-> ns, type |-> type, id |-> Brn!Text(q, FALSE)]
      BY <2>1, <2>2, Zenon
    <3>2. \A c, v : [Brn!Text(q, c) EXCEPT !.padded = v] = Brn!Text(q, v)
      BY DEF Brn!Text
    <3>3. \A t : [name EXCEPT !.id = t] = [namespace |-> ns, type |-> type, id |-> t]
      OBVIOUS
    <3> QED BY <3>1, <3>2, <3>3
  <2>4. read.namespace = name.namespace /\ read.type = name.type
    BY <2>1
  <2> HIDE DEF name
  <2>5. \A a, cs : Brn!authorize(cs, read, a) = Brn!authorize(cs, name, a)
    BY <2>4 DEF Brn!authorize, Brn!required_capabilities
  <2>6. Brn!NameReadBack(name)
    BY <1>2, <1>5, <1>7, <2>3, <2>5 DEF Brn!NameReadBack
  <2> QED BY <1>1, <2>6 DEF name
<1>8. CASE ~ (Len(q) = 1 /\ q[1] # "")
  <2>1. Len(w) # 4 \/ w[4] = ""
    BY <1>8, <1>9, <1>10, Zenon
  <2>2. PICK e : read = Brn!Error(e)
    <3>1. CASE Len(w) # 4
      <4>1. read = Brn!Error("InvalidFormat")
        BY <1>4, <1>5, <1>6, <3>1 DEF Brn!parse_brn
      <4> QED BY <4>1
    <3>2. CASE Len(w) = 4 /\ w[4] = ""
      <4>1. read = Brn!Error("MissingResourceId")
        BY <1>4, <1>5, <1>6, <1>11, <3>2 DEF Brn!parse_brn
      <4> QED BY <4>1
    <3> QED BY <2>1, <3>1, <3>2
  <2>3. "error" \in DOMAIN read
    BY <2>2 DEF Brn!Error
  <2> HIDE DEF name
  <2>4. Brn!NameReadBack(name)
    BY <1>2, <1>5, <1>8, <2>3 DEF Brn!NameReadBack
  <2> QED BY <1>1, <2>4 DEF name
<1> QED BY <1>7, <1>8

\* For every place and checksum: an artifact location survives the way to the new type
\* and back, and what is lost on the way through a binary is only that it is in the image.
THEOREM LocationsReadBack ==
  ASSUME NEW kind \in {"Local", "Remote", "PreBakedInImage"}, NEW place, NEW checksum
  PROVE  Brn!LocationReadBack(Brn!Location(kind, place, checksum))
<1> DEFINE l == Brn!Location(kind, place, checksum)
           new == Brn!FromArtifactLocation(l)
           ref == Brn!ToBinaryRef(new)
           back == Brn!FromBinaryRef(ref)
           Name(k) == [Local |-> "Local", Remote |-> "Remote", PreBakedInImage |-> "PreBaked"][k]
<1>1. PICK sum : l = [kind |-> kind, place |-> place, checksum |-> sum]
  BY DEF Brn!Location
<1>2. new = [kind |-> Name(kind), place |-> place, checksum |-> sum]
  BY <1>1 DEF Brn!FromArtifactLocation, Brn!Converted
<1> HIDE DEF l
<1>3. Brn!ToArtifactLocation(new) = l
  BY <1>1, <1>2 DEF Brn!ToArtifactLocation, Brn!Converted
<1>4. ref = [kind |-> IF kind = "Remote" THEN "Remote" ELSE "Local", place |-> place, checksum |-> sum]
  BY <1>2 DEF Brn!ToBinaryRef, Brn!Converted
<1> HIDE DEF new
<1>5. back = ref
  BY <1>4 DEF Brn!FromBinaryRef, Brn!Converted
<1> HIDE DEF ref, back
<1>6. new.kind # "PreBaked" => back = new
  BY <1>2, <1>4, <1>5
<1>7. /\ Brn!LocationPath(back) = Brn!LocationPath(new) /\ Brn!LocationUrl(back) = Brn!LocationUrl(new)
      /\ back.checksum = new.checksum
  BY <1>2, <1>4, <1>5 DEF Brn!LocationPath, Brn!LocationUrl
<1> QED BY <1>3, <1>6, <1>7 DEF Brn!LocationReadBack, l, new, ref, back
==============================================================================
