--------------------------- MODULE ProcessorProofs ---------------------------
(***************************************************************************)
(* Theorems about RdpCommands, for any number of masters, any commands and *)
(* any memory, and about Exceptions, for any programs and any pages.       *)
(***************************************************************************)
EXTENDS RdpCommands, Exceptions, SequenceTheorems, WellFoundedInduction, TLAPS

(***************************************************************************)
(* Induction as facts about sets of numbers.                               *)
(***************************************************************************)
LEMMA LeastNumber ==
  ASSUME NEW S, S \subseteq Nat, S # {}
  PROVE  \E n \in S : \A m \in S : n <= m
<1>1. PICK n \in S : \A m \in S : ~ (<<m, n>> \in OpToRel(<, Nat))
  BY NatLessThanWellFounded, WFMin
<1>2. \A m \in S : ~ (m < n)
  BY <1>1 DEF OpToRel
<1>3. QED
  BY <1>2

\* Induction for a set of numbers below a bound.
LEMMA UpTo ==
  ASSUME NEW N \in Nat, NEW S, 0 \in S, \A k \in S : k \in 0..(N - 1) => k + 1 \in S
  PROVE  N \in S
<1> DEFINE missing == {k \in 0..N : k \notin S}
<1>1. SUFFICES ASSUME N \notin S PROVE FALSE
  OBVIOUS
<1>2. PICK k \in missing : \A m \in missing : k <= m
  <2>1. missing \subseteq Nat /\ N \in missing
    BY <1>1
  <2>2. QED
    BY <2>1, LeastNumber
<1>3. k \in 0..N /\ k \notin S /\ k # 0
  BY <1>2
<1>4. k - 1 \in 0..(N - 1) /\ k - 1 \notin missing
  BY <1>2, <1>3
<1>5. k - 1 \in S
  BY <1>4
<1>6. QED
  BY <1>3, <1>4, <1>5

(***************************************************************************)
(* What FlattenSeq does.                                                   *)
(***************************************************************************)
\* FlattenSeq is defined by recursion on the number of sequences.
LEMMA Flattening ==
  ASSUME NEW S, NEW s \in Seq(Seq(S)), s # <<>>
  PROVE  \E f \in [1..Len(s) -> Seq(S)] :
           /\ FlattenSeq(s) = f[Len(s)]
           /\ \A i \in 1..Len(s) : f[i] = IF i = 1 THEN s[i] ELSE f[i - 1] \o s[i]
<1> DEFINE n == Len(s)
           Joined(f, i) == IF i = 1 THEN s[i] ELSE f[i - 1] \o s[i]
           Whole(f) == f = [i \in 1..n |-> Joined(f, i)]
           Solves(k) == \E f \in [1..n -> Seq(S)] : \A i \in 1..k : f[i] = Joined(f, i)
           K == {k \in 0..n : Solves(k)}
<1>1. n \in Nat \ {0} /\ \A i \in 1..n : s[i] \in Seq(S)
  BY EmptySeq, ElementOfSeq
<1>2. 0 \in K
  <2>1. [i \in 1..n |-> <<>>] \in [1..n -> Seq(S)]
    BY EmptySeq
  <2>2. QED
    BY <1>1, <2>1
<1>3. ASSUME NEW k \in K, k \in 0..(n - 1) PROVE k + 1 \in K
  <2>1. PICK f \in [1..n -> Seq(S)] : \A i \in 1..k : f[i] = Joined(f, i)
    BY <1>3
  <2> DEFINE g == [f EXCEPT ![k + 1] = Joined(f, k + 1)]
  <2>2. k \in Nat /\ k + 1 \in 1..n /\ (k # 0 => k \in 1..n) /\ (k + 1) - 1 = k
    <3> HIDE DEF n, K
    <3>1. QED
      BY <1>1, <1>3
  <2>3. Joined(f, k + 1) \in Seq(S)
    <3>1. s[k + 1] \in Seq(S) /\ (k # 0 => f[k] \in Seq(S))
      BY <1>1, <2>2
    <3>2. k # 0 => f[k] \o s[k + 1] \in Seq(S)
      BY <3>1, ConcatProperties
    <3>3. QED
      BY <2>2, <3>1, <3>2
  <2>4. g \in [1..n -> Seq(S)]
    BY <2>3
  <2>5. \A i \in 1..(k + 1) : Joined(g, i) = Joined(f, i)
    BY <1>3, <2>2
  <2>6. \A i \in 1..(k + 1) : g[i] = Joined(f, i)
    BY <1>3, <2>1, <2>2
  <2>7. \A i \in 1..(k + 1) : g[i] = Joined(g, i)
    BY <2>5, <2>6
  <2>8. k + 1 \in 0..n
    BY <1>1, <1>3
  <2> HIDE DEF g, Joined
  <2>9. QED
    BY <2>4, <2>7, <2>8
<1>4. n \in K
  <2> HIDE DEF K, n
  <2>1. QED
    BY <1>1, <1>2, <1>3, UpTo
<1>5. PICK f \in [1..n -> Seq(S)] : \A i \in 1..n : f[i] = Joined(f, i)
  BY <1>4
<1> DEFINE chosen == CHOOSE g : Whole(g)
<1>6. FlattenSeq(s) = chosen[n]
  BY <1>1 DEF FlattenSeq
<1>7. Whole(chosen)
  <2>1. Whole(f)
    BY <1>5
  <2>2. QED
    BY <2>1
<1> HIDE DEF chosen
<1>8. \A i \in 1..n : chosen[i] = Joined(chosen, i)
  BY <1>7
<1>9. chosen = [i \in 1..n |-> Joined(chosen, i)]
  BY <1>7
<1> DEFINE T == {k \in 0..n : \A i \in 1..k : chosen[i] = f[i]}
<1>10. 0 \in T
  BY <1>1
<1>11. ASSUME NEW k \in T, k \in 0..(n - 1) PROVE k + 1 \in T
  <2>1. k \in Nat /\ k + 1 \in 1..n /\ k + 1 \in 0..n /\ (k # 0 => k \in 1..k) /\ (k + 1) - 1 = k
    <3> HIDE DEF n, T
    <3>1. QED
      BY <1>1, <1>11
  <2>2. k # 0 => chosen[k] = f[k]
    BY <1>11, <2>1
  <2>3. chosen[k + 1] = Joined(chosen, k + 1) /\ f[k + 1] = Joined(f, k + 1)
    BY <1>5, <1>8, <2>1
  <2>4. chosen[k + 1] = f[k + 1]
    BY <2>1, <2>2, <2>3
  <2>5. \A i \in 1..(k + 1) : i \in 1..k \/ i = k + 1
    BY <2>1
  <2>6. \A i \in 1..k : chosen[i] = f[i]
    BY <1>11
  <2> HIDE DEF n
  <2>7. QED
    BY <2>1, <2>4, <2>5, <2>6
<1>12. n \in T
  <2> HIDE DEF T, n
  <2>1. QED
    BY <1>1, <1>10, <1>11, UpTo
<1>13. chosen[n] = f[n]
  BY <1>1, <1>12
<1>14. QED
  BY <1>5, <1>6, <1>13

LEMMA FlattenAppend ==
  ASSUME NEW S, NEW s \in Seq(Seq(S)), NEW e \in Seq(S)
  PROVE  /\ FlattenSeq(<<>>) = <<>> /\ FlattenSeq(s) \in Seq(S)
         /\ FlattenSeq(Append(s, e)) = FlattenSeq(s) \o e
<1> DEFINE n == Len(s)
           t == Append(s, e)
<1>1. n \in Nat /\ (s # <<>> => n # 0)
  BY LenProperties, EmptySeq
<1>2. t \in Seq(Seq(S)) /\ t # <<>> /\ Len(t) = n + 1 /\ (\A i \in 1..n : t[i] = s[i]) /\ t[n + 1] = e
  BY AppendProperties
<1>3. FlattenSeq(<<>>) = <<>>
  BY EmptySeq DEF FlattenSeq
<1> HIDE DEF n, t
<1>4. PICK g \in [1..Len(t) -> Seq(S)] :
        /\ FlattenSeq(t) = g[Len(t)]
        /\ \A i \in 1..Len(t) : g[i] = IF i = 1 THEN t[i] ELSE g[i - 1] \o t[i]
  BY <1>2, Flattening
<1>5. CASE s = <<>>
  <2>1. n = 0
    BY <1>5 DEF n
  <2>2. FlattenSeq(t) = e
    BY <1>2, <1>4, <2>1
  <2>3. FlattenSeq(s) = <<>>
    BY <1>3, <1>5
  <2>4. QED
    BY <1>3, <2>2, <2>3, ConcatEmptySeq, EmptySeq DEF t
<1>6. CASE s # <<>>
  <2>1. PICK f \in [1..n -> Seq(S)] :
          /\ FlattenSeq(s) = f[n]
          /\ \A i \in 1..n : f[i] = IF i = 1 THEN s[i] ELSE f[i - 1] \o s[i]
    BY <1>6, Flattening DEF n
  <2> DEFINE T == {k \in 0..n : \A i \in 1..k : g[i] = f[i]}
  <2>2. 0 \in T
    BY <1>1
  <2>3. ASSUME NEW k \in T, k \in 0..(n - 1) PROVE k + 1 \in T
    <3>1. /\ k \in Nat /\ k + 1 \in 1..n /\ k + 1 \in 0..n /\ k + 1 \in 1..Len(t)
          /\ (k # 0 => k \in 1..k) /\ (k + 1) - 1 = k
      BY <1>1, <1>2, <2>3
    <3>2. k # 0 => g[k] = f[k]
      BY <2>3, <3>1
    <3>3. t[k + 1] = s[k + 1]
      BY <1>2, <3>1
    <3>4. /\ g[k + 1] = IF k + 1 = 1 THEN t[k + 1] ELSE g[(k + 1) - 1] \o t[k + 1]
          /\ f[k + 1] = IF k + 1 = 1 THEN s[k + 1] ELSE f[(k + 1) - 1] \o s[k + 1]
      BY <1>4, <2>1, <3>1
    <3>5. g[k + 1] = f[k + 1]
      BY <3>1, <3>2, <3>3, <3>4
    <3>6. \A i \in 1..(k + 1) : i \in 1..k \/ i = k + 1
      BY <3>1
    <3>7. QED
      BY <2>3, <3>1, <3>5, <3>6
  <2>4. n \in T
    <3> HIDE DEF T
    <3>1. QED
      BY <1>1, <2>2, <2>3, UpTo
  <2>5. n \in 1..n /\ n + 1 \in 1..Len(t) /\ n + 1 # 1
    BY <1>1, <1>2, <1>6
  <2>6. g[n] = f[n]
    BY <2>4, <2>5
  <2>7. g[n + 1] = g[n] \o e
    <3>1. g[n + 1] = IF n + 1 = 1 THEN t[n + 1] ELSE g[(n + 1) - 1] \o t[n + 1]
      BY <1>4, <2>5
    <3>2. (n + 1) - 1 = n
      BY <1>1
    <3>3. QED
      BY <1>2, <2>5, <3>1, <3>2
  <2>8. QED
    BY <1>2, <1>3, <1>4, <2>1, <2>5, <2>6, <2>7 DEF t
<1>7. QED
  BY <1>5, <1>6

LEMMA FlattenConcat ==
  ASSUME NEW S, NEW s, NEW t, s \in Seq(Seq(S)), t \in Seq(Seq(S))
  PROVE  FlattenSeq(s \o t) = FlattenSeq(s) \o FlattenSeq(t)
<1> DEFINE n == Len(t)
           upto(k) == SubSeq(t, 1, k)
           T == {k \in 0..n : FlattenSeq(s \o upto(k)) = FlattenSeq(s) \o FlattenSeq(upto(k))}
<1>1. n \in Nat /\ \A i \in 1..n : t[i] \in Seq(S)
  BY LenProperties, ElementOfSeq
<1>2. \A k \in 0..n : upto(k) \in Seq(Seq(S))
  BY <1>1, SubSeqProperties
<1>3. \A a, b, c \in Seq(S) : (a \o b) \o c = a \o (b \o c)
  BY ONLY ConcatAssociative
<1>4. \A a, b, c \in Seq(Seq(S)) : (a \o b) \o c = a \o (b \o c)
  BY ONLY ConcatAssociative
<1>5. 0 \in T
  <2>1. upto(0) = <<>> /\ s \o <<>> = s
    BY SubSeqEmpty, ConcatEmptySeq
  <2>2. FlattenSeq(<<>>) = <<>> /\ FlattenSeq(s) \in Seq(S)
    BY FlattenAppend, EmptySeq
  <2>3. FlattenSeq(s) \o <<>> = FlattenSeq(s)
    BY <2>2, ConcatEmptySeq
  <2>4. 0 \in 0..n
    BY <1>1
  <2> HIDE DEF upto, n
  <2>5. FlattenSeq(s \o upto(0)) = FlattenSeq(s) \o FlattenSeq(upto(0))
    BY <2>1, <2>2, <2>3
  <2>6. QED
    BY <2>4, <2>5
<1>6. ASSUME NEW k \in T, k \in 0..(n - 1) PROVE k + 1 \in T
  <2>1. upto(k) \in Seq(Seq(S)) /\ k + 1 \in 1..n /\ t[k + 1] \in Seq(S) /\ k + 1 \in 0..n /\ 1 \in 1..n
    BY <1>1, <1>2, <1>6
  <2>2. upto(k + 1) = Append(upto(k), t[k + 1])
    <3>1. upto(k + 1) = SubSeq(t, 1, (k + 1) - 1) \o <<t[k + 1]>>
      BY <2>1, SubSeqRecursiveSecond
    <3>2. (k + 1) - 1 = k
      BY <1>6
    <3>3. QED
      BY <2>1, <3>1, <3>2, AppendIsConcat
  <2> HIDE DEF upto
  <2>3. FlattenSeq(upto(k + 1)) = FlattenSeq(upto(k)) \o t[k + 1]
    BY <2>1, <2>2, FlattenAppend
  <2>4. s \o upto(k) \in Seq(Seq(S))
    BY <2>1, ConcatProperties
  <2>5. s \o upto(k + 1) = Append(s \o upto(k), t[k + 1])
    <3>1. <<t[k + 1]>> \in Seq(Seq(S))
      BY <2>1
    <3>2. s \o (upto(k) \o <<t[k + 1]>>) = (s \o upto(k)) \o <<t[k + 1]>>
      <4>1. s \in Seq(Seq(S)) /\ upto(k) \in Seq(Seq(S))
        BY <2>1
      <4>2. QED
        BY <1>4, <3>1, <4>1
    <3>3. QED
      BY <2>1, <2>2, <2>4, <3>2, AppendIsConcat
  <2>6. FlattenSeq(s \o upto(k + 1)) = FlattenSeq(s \o upto(k)) \o t[k + 1]
    BY <2>1, <2>4, <2>5, FlattenAppend
  <2>7. FlattenSeq(s \o upto(k)) = FlattenSeq(s) \o FlattenSeq(upto(k))
    BY <1>6
  <2>8. FlattenSeq(s) \in Seq(S) /\ FlattenSeq(upto(k)) \in Seq(S)
    BY <2>1, FlattenAppend
  <2>9. (FlattenSeq(s) \o FlattenSeq(upto(k))) \o t[k + 1] = FlattenSeq(s) \o (FlattenSeq(upto(k)) \o t[k + 1])
    <3>1. t[k + 1] \in Seq(S)
      BY <2>1
    <3>2. QED
      BY <1>3, <2>8, <3>1
  <2>10. QED
    BY <2>1, <2>3, <2>6, <2>7, <2>9
<1>7. n \in T
  <2> HIDE DEF T, n
  <2>1. QED
    BY <1>1, <1>5, <1>6, UpTo
<1>8. upto(n) = t
  BY SubSeqFull
<1>9. QED
  BY <1>7, <1>8

--------------------------------------------------------------------------------
(***************************************************************************)
(* RdpCommands.                                                            *)
(***************************************************************************)
\* The part of the type invariant the argument needs.
Typed ==
  /\ dpc \in [start : Addresses, end : Ends, current : Ends, start_valid : BOOLEAN,
              freeze : BOOLEAN, pipe_busy : BOOLEAN, start_gclk : BOOLEAN]
  /\ semaphore_held \in BOOLEAN
  /\ inside \subseteq Masters
  /\ plan \in [Masters -> Addresses \cup {NoStart}]
  /\ aborted \in BOOLEAN
  /\ given_up \in Seq(Int)

\* The semaphore lets one in at a time.
Exclusive ==
  /\ inside # {} => semaphore_held
  /\ \A m, n \in inside : m = n

\* A start that waits for its end is the one its master wrote.
StartIsPlanned ==
  /\ \A m \in Masters : m \notin inside => plan[m] = NoStart
  /\ dpc.start_valid <=> \E m \in inside : plan[m] # NoStart
  /\ \A m \in inside : plan[m] # NoStart => plan[m] = dpc.start

Inv ==
  /\ Typed
  /\ Exclusive
  /\ StartIsPlanned
  /\ dpc.current <= dpc.end
  /\ ListsAreRead

-----------------------------------------------------------------------------
\* An extent of which the end is not behind the start is empty.
LEMMA ExtentEmpty ==
  ASSUME NEW a \in Int, NEW b \in Int, b <= a
  PROVE  Extent(a, b) = <<>>
  BY DEF Extent

LEMMA ExtentTyped ==
  ASSUME NEW a \in Int, NEW b \in Int
  PROVE  Extent(a, b) \in Seq(Int)
<1>1. CASE b > a
  BY <1>1 DEF Extent
<1>2. CASE b <= a
  <2>1. Extent(a, b) = <<>> /\ <<>> \in Seq(Int)
    BY <1>2, ExtentEmpty, EmptySeq
  <2>2. QED
    BY <2>1
<1>3. QED
  BY <1>1, <1>2

\* Two extents, of which the second starts where the first ends, are one.
LEMMA ExtentConcat ==
  ASSUME NEW a \in Int, NEW b \in Int, NEW c \in Int, a <= b, b <= c
  PROVE  Extent(a, b) \o Extent(b, c) = Extent(a, c)
<1> DEFINE s == Extent(a, b)
           t == Extent(b, c)
           u == Extent(a, c)
<1>1. s \in Seq(Int) /\ Len(s) = b - a /\ (\A k \in 1..(b - a) : s[k] = a + k - 1)
  BY DEF Extent
<1>2. t \in Seq(Int) /\ Len(t) = c - b /\ (\A k \in 1..(c - b) : t[k] = b + k - 1)
  BY DEF Extent
<1>3. u \in Seq(Int) /\ Len(u) = c - a /\ (\A k \in 1..(c - a) : u[k] = a + k - 1)
  BY DEF Extent
<1> HIDE DEF s, t, u
<1>4. s \o t \in Seq(Int) /\ Len(s \o t) = c - a
  BY <1>1, <1>2, ConcatProperties
<1>5. ASSUME NEW k \in 1..(c - a) PROVE (s \o t)[k] = u[k]
  <2>1. (s \o t)[k] = IF k <= b - a THEN s[k] ELSE t[k - (b - a)]
    <3>1. k \in 1..(Len(s) + Len(t))
      BY <1>1, <1>2
    <3>2. (s \o t)[k] = IF k <= Len(s) THEN s[k] ELSE t[k - Len(s)]
      BY <1>1, <1>2, <3>1, ConcatProperties
    <3> QED
      BY <1>1, <3>2
  <2>2. CASE k <= b - a
    BY <1>1, <1>3, <2>1, <2>2
  <2>3. CASE k > b - a
    <3>1. k - (b - a) \in 1..(c - b)
      <4>1. k \in Int /\ k >= 1 /\ k <= c - a
        OBVIOUS
      <4> QED
        BY <2>3, <4>1
    <3>2. t[k - (b - a)] = b + (k - (b - a)) - 1
      BY <1>2, <3>1
    <3> QED
      BY <1>3, <2>1, <2>3, <3>2
  <2>4. k <= b - a \/ k > b - a
    OBVIOUS
  <2> QED
    BY <2>2, <2>3, <2>4
<1>6. s \o t = u
  BY <1>3, <1>4, <1>5, SeqEqual
<1> QED
  BY <1>6 DEF s, t, u

\* What rdp_run_command leaves when the program asks for what the registers say.
LEMMA RunsWhatIsAsked ==
  ASSUME NEW d, NEW wanted,
         d \in [start : Addresses, end : Ends, current : Ends, start_valid : BOOLEAN,
                freeze : BOOLEAN, pipe_busy : BOOLEAN, start_gclk : BOOLEAN],
         d.current <= d.end,
         given_up' \in Seq(Int),
         wanted = given_up' \o Extent(d.current, d.end),
         RdpRunCommand(d, wanted)
  PROVE  /\ dpc' \in [start : Addresses, end : Ends, current : Ends, start_valid : BOOLEAN,
                      freeze : BOOLEAN, pipe_busy : BOOLEAN, start_gclk : BOOLEAN]
         /\ dpc'.current <= dpc'.end
         /\ dpc'.start = d.start
         /\ dpc'.start_valid = d.start_valid
         /\ dpc'.freeze = d.freeze
         /\ asked' = given_up' \o Extent(dpc'.current, dpc'.end)
         /\ dpc'.freeze \/ asked' = given_up'
<1> DEFINE list == Extent(d.current, d.end)
<1>0. d.current \in Int /\ d.end \in Int
  BY RdpCommandsAssumption DEF Ends
<1>a. given_up' \o <<>> = given_up'
  BY ConcatEmptySeq
<1>1. CASE d.freeze /\ dpc' = d /\ asked' = wanted
  BY <1>1
<1>2. CASE ~d.freeze /\ list = <<>> /\ asked' = wanted
           /\ dpc' = [d EXCEPT !.pipe_busy = TRUE, !.start_gclk = TRUE]
  BY <1>a, <1>2
<1>3. ASSUME NEW working \in BOOLEAN, ~d.freeze, asked' = given_up',
             dpc' = [d EXCEPT !.pipe_busy = working, !.start_gclk = working,
                              !.current = d.end]
      PROVE  /\ dpc' \in [start : Addresses, end : Ends, current : Ends,
                          start_valid : BOOLEAN, freeze : BOOLEAN, pipe_busy : BOOLEAN,
                          start_gclk : BOOLEAN]
             /\ dpc'.current <= dpc'.end
             /\ dpc'.start = d.start
             /\ dpc'.start_valid = d.start_valid
             /\ dpc'.freeze = d.freeze
             /\ asked' = given_up' \o Extent(dpc'.current, dpc'.end)
             /\ dpc'.freeze \/ asked' = given_up'
  <2>1. Extent(d.end, d.end) = <<>>
    BY <1>0, ExtentEmpty
  <2>2. dpc' \in [start : Addresses, end : Ends, current : Ends,
                  start_valid : BOOLEAN, freeze : BOOLEAN, pipe_busy : BOOLEAN,
                  start_gclk : BOOLEAN]
    BY <1>3
  <2>3. /\ dpc'.current = d.end /\ dpc'.end = d.end /\ dpc'.start = d.start
        /\ dpc'.start_valid = d.start_valid /\ dpc'.freeze = d.freeze
    BY <1>3
  <2> QED
    BY <1>0, <1>a, <1>3, <2>1, <2>2, <2>3
<1>4. CASE ~d.freeze /\ list # <<>> /\ asked' = given_up'
           /\ \E dwords \in [DOMAIN list -> Commands] :
                LET commands == RunFrom(unprocessed \o dwords)
                    busy     == [d EXCEPT !.pipe_busy = TRUE, !.start_gclk = TRUE]
                IN  dpc' = [busy EXCEPT !.current    = d.end,
                                        !.pipe_busy  = ~Syncs(commands),
                                        !.start_gclk = ~Syncs(commands)]
  <2>1. PICK dwords \in [DOMAIN list -> Commands] :
          LET commands == RunFrom(unprocessed \o dwords)
              busy     == [d EXCEPT !.pipe_busy = TRUE, !.start_gclk = TRUE]
          IN  dpc' = [busy EXCEPT !.current    = d.end,
                                  !.pipe_busy  = ~Syncs(commands),
                                  !.start_gclk = ~Syncs(commands)]
    BY <1>4
  <2> DEFINE working == ~Syncs(RunFrom(unprocessed \o dwords))
  <2>2. working \in BOOLEAN
    BY DEF Syncs
  <2>3. dpc' = [[d EXCEPT !.pipe_busy = TRUE, !.start_gclk = TRUE]
                  EXCEPT !.current = d.end, !.pipe_busy = working, !.start_gclk = working]
    BY <2>1
  <2> HIDE DEF working
  <2>4. dpc' = [d EXCEPT !.pipe_busy = working, !.start_gclk = working, !.current = d.end]
    BY <2>2, <2>3
  <2> QED
    BY <1>3, <1>4, <2>2, <2>4
<1> QED
  BY <1>1, <1>2, <1>4 DEF RdpRunCommand

-----------------------------------------------------------------------------
LEMMA InitInv == Init => Inv
<1> SUFFICES ASSUME Init PROVE Inv
  OBVIOUS
<1>1. Extent(0, 0) = <<>>
  BY ExtentEmpty
<1>2. 0 \in Addresses /\ 0 \in Ends
  BY RdpCommandsAssumption DEF Addresses, Ends
<1>a. <<>> \in Seq(Int) /\ <<>> \o <<>> = <<>>
  BY EmptySeq, ConcatEmptySeq
<1>3. Typed
  BY <1>a, <1>2 DEF Init, Typed
<1>4. Exclusive /\ StartIsPlanned
  BY DEF Init, Exclusive, StartIsPlanned, NoStart
<1>5. dpc.current <= dpc.end /\ ListsAreRead
  BY <1>a, <1>1 DEF Init, ListsAreRead
<1> QED
  BY <1>3, <1>4, <1>5 DEF Inv

\* The write of an end: the list is the start its master wrote, or the list before
\* moved on.
LEMMA WriteEndKeepsInv ==
  ASSUME Inv, NEW m \in Masters, NEW e \in Ends, WriteEnd(m, e)
  PROVE  Inv'
<1> DEFINE d      == EndWritten(e)
           start  == IF plan[m] = NoStart THEN dpc.end ELSE plan[m]
           wanted == asked \o Extent(start, e)
<1>1. /\ dpc.current \in Int /\ dpc.end \in Int /\ e \in Int
      /\ dpc.current <= dpc.end
      /\ plan[m] # NoStart => plan[m] \in Addresses /\ plan[m] \in Int /\ plan[m] <= e
      /\ plan[m] = NoStart => dpc.end <= e
  BY RdpCommandsAssumption DEF Inv, Typed, WriteEnd, Addresses, Ends
<1>2. /\ m \in inside
      /\ dpc.start_valid <=> plan[m] # NoStart
      /\ plan[m] # NoStart => dpc.start = plan[m]
  BY DEF Inv, Exclusive, StartIsPlanned, WriteEnd
<1>3. /\ d \in [start : Addresses, end : Ends, current : Ends, start_valid : BOOLEAN,
                freeze : BOOLEAN, pipe_busy : BOOLEAN, start_gclk : BOOLEAN]
      /\ d.start = dpc.start /\ d.end = e /\ ~d.start_valid /\ d.freeze = dpc.freeze
      /\ d.current = IF plan[m] = NoStart THEN dpc.current ELSE plan[m]
  <2>1. \A a \in Addresses : a \in Ends
    BY RdpCommandsAssumption DEF Addresses, Ends
  <2>2. d \in [start : Addresses, end : Ends, current : Ends, start_valid : BOOLEAN,
               freeze : BOOLEAN, pipe_busy : BOOLEAN, start_gclk : BOOLEAN]
    BY <2>1 DEF Inv, Typed, EndWritten
  <2>3. d.start = dpc.start /\ d.end = e /\ ~d.start_valid /\ d.freeze = dpc.freeze
    BY DEF Inv, Typed, EndWritten
  <2>4. d.current = IF dpc.start_valid THEN dpc.start ELSE dpc.current
    BY DEF Inv, Typed, EndWritten
  <2> QED
    BY <1>2, <2>2, <2>3, <2>4
<1> HIDE DEF d
<1>4. d.current <= d.end
  BY <1>1, <1>3
<1>a. /\ given_up' = IF plan[m] # NoStart /\ (dpc.freeze \/ aborted) THEN asked ELSE given_up
      /\ asked = given_up \o Extent(dpc.current, dpc.end)
      /\ dpc.freeze \/ aborted \/ asked = given_up
      /\ given_up \in Seq(Int)
  BY DEF WriteEnd, Inv, ListsAreRead, Typed
<1>b. /\ Extent(dpc.current, dpc.end) \in Seq(Int)
      /\ plan[m] = NoStart => Extent(dpc.end, e) \in Seq(Int)
  BY <1>1, ExtentTyped
<1>c. asked \in Seq(Int)
  BY <1>a, <1>b, ConcatProperties
<1>d. given_up' \in Seq(Int)
  BY <1>a, <1>c
<1>5. wanted = given_up' \o Extent(d.current, d.end)
  <2>1. CASE plan[m] = NoStart
    <3>1. Extent(dpc.current, dpc.end) \o Extent(dpc.end, e) = Extent(dpc.current, e)
      BY <1>1, <2>1, ExtentConcat
    <3>2. asked \o Extent(dpc.end, e) = given_up \o Extent(dpc.current, e)
      <4>1. (given_up \o Extent(dpc.current, dpc.end)) \o Extent(dpc.end, e)
              = given_up \o (Extent(dpc.current, dpc.end) \o Extent(dpc.end, e))
        <5> DEFINE x == Extent(dpc.current, dpc.end)
                   y == Extent(dpc.end, e)
        <5>1. given_up \in Seq(Int) /\ x \in Seq(Int) /\ y \in Seq(Int)
          BY <1>a, <1>b, <2>1
        <5> HIDE DEF x, y
        <5>2. (given_up \o x) \o y = given_up \o (x \o y)
          BY <5>1, ConcatAssociative
        <5>3. QED
          BY <5>2 DEF x, y
      <4>2. QED
        BY <1>a, <3>1, <4>1
    <3> QED
      BY <1>3, <1>a, <2>1, <3>2
  <2>2. CASE plan[m] # NoStart
    <3>1. asked = given_up'
      BY <1>a, <2>2
    <3> QED
      BY <1>3, <2>2, <3>1
  <2> QED
    BY <2>1, <2>2
<1> HIDE DEF wanted
<1>6. RdpRunCommand(d, wanted)
  BY DEF WriteEnd, d, start, wanted
<1>7. /\ dpc' \in [start : Addresses, end : Ends, current : Ends, start_valid : BOOLEAN,
                   freeze : BOOLEAN, pipe_busy : BOOLEAN, start_gclk : BOOLEAN]
      /\ dpc'.current <= dpc'.end
      /\ ~dpc'.start_valid
      /\ asked' = given_up' \o Extent(dpc'.current, dpc'.end)
      /\ dpc'.freeze \/ asked' = given_up'
  BY <1>3, <1>4, <1>5, <1>6, <1>d, RunsWhatIsAsked
<1>8. /\ plan' = [plan EXCEPT ![m] = NoStart]
      /\ aborted' = FALSE
      /\ UNCHANGED <<semaphore_held, inside>>
  BY DEF WriteEnd
<1>9. Typed'
  BY <1>7, <1>8, <1>d DEF Inv, Typed
<1>10. Exclusive'
  BY <1>8 DEF Inv, Exclusive
<1>11. StartIsPlanned'
  BY <1>2, <1>7, <1>8 DEF Inv, Typed, Exclusive, StartIsPlanned
<1>12. ListsAreRead'
  BY <1>7 DEF ListsAreRead
<1> QED
  BY <1>7, <1>9, <1>10, <1>11, <1>12 DEF Inv

\* A write to the status: what waits is run when the RDP is unfrozen.
LEMMA WriteStatusKeepsInv ==
  ASSUME Inv, NEW c \in BOOLEAN, NEW s \in BOOLEAN, NEW p \in BOOLEAN, WriteStatus(c, s, p)
  PROVE  Inv'
<1> DEFINE d == StatusWritten(c, s, p)
<1>1. /\ d \in [start : Addresses, end : Ends, current : Ends, start_valid : BOOLEAN,
                freeze : BOOLEAN, pipe_busy : BOOLEAN, start_gclk : BOOLEAN]
      /\ d.start = dpc.start /\ d.end = dpc.end /\ d.current = dpc.current
      /\ d.start_valid = dpc.start_valid
      /\ ~c => d.freeze = (dpc.freeze \/ s)
  BY DEF Inv, Typed, StatusWritten
<1> HIDE DEF d
<1>2. d.current <= d.end /\ asked = given_up \o Extent(d.current, d.end)
  BY <1>1 DEF Inv, ListsAreRead
<1>3. UNCHANGED <<protocol, given_up>> /\ aborted' = (aborted /\ (d.freeze \/ ~c))
  BY DEF WriteStatus, d
<1>4. /\ dpc' \in [start : Addresses, end : Ends, current : Ends, start_valid : BOOLEAN,
                   freeze : BOOLEAN, pipe_busy : BOOLEAN, start_gclk : BOOLEAN]
      /\ dpc'.current <= dpc'.end
      /\ dpc'.start = dpc.start /\ dpc'.start_valid = dpc.start_valid
      /\ asked' = given_up' \o Extent(dpc'.current, dpc'.end)
      /\ dpc'.freeze \/ aborted' \/ asked' = given_up'
  <2>1. CASE c
    <3>1. RdpRunCommand(d, asked)
      BY <2>1 DEF WriteStatus, d
    <3>2. given_up' \in Seq(Int) /\ asked = given_up' \o Extent(d.current, d.end)
      BY <1>2, <1>3 DEF Inv, Typed
    <3> QED
      BY <1>1, <1>2, <3>1, <3>2, RunsWhatIsAsked
  <2>2. CASE ~c
    <3>1. dpc' = d /\ asked' = asked
      BY <2>2 DEF WriteStatus, d
    <3>2. dpc.freeze \/ aborted \/ asked = given_up
      BY DEF Inv, ListsAreRead
    <3>3. dpc'.freeze \/ aborted' \/ asked' = given_up'
      BY <1>1, <1>3, <2>2, <3>1, <3>2
    <3> QED
      BY <1>1, <1>2, <1>3, <3>1, <3>3
  <2> QED
    BY <2>1, <2>2
<1>5. Typed'
  BY <1>3, <1>4 DEF Inv, Typed, protocol
<1>6. Exclusive' /\ StartIsPlanned'
  BY <1>3, <1>4 DEF Inv, Exclusive, StartIsPlanned, protocol
<1> QED
  BY <1>4, <1>5, <1>6 DEF Inv, ListsAreRead

LEMMA NextKeepsInv == Inv /\ [Next]_vars => Inv'
<1> SUFFICES ASSUME Inv, [Next]_vars PROVE Inv'
  OBVIOUS
<1> USE DEF NoStart
<1>1. ASSUME NEW m \in Masters, AcquireSemaphore(m) PROVE Inv'
  <2>1. UNCHANGED <<plan, dpc, asked, given_up, aborted>>
    BY <1>1 DEF AcquireSemaphore, registers, history
  <2>2. Typed' /\ Exclusive' /\ StartIsPlanned'
    BY <1>1, <2>1 DEF AcquireSemaphore, Inv, Typed, Exclusive, StartIsPlanned
  <2> QED
    BY <2>1, <2>2 DEF Inv, ListsAreRead
<1>2. ASSUME NEW m \in Masters, ReleaseSemaphore(m) PROVE Inv'
  <2>1. UNCHANGED <<plan, dpc, asked, given_up, aborted>>
    BY <1>2 DEF ReleaseSemaphore, registers, history
  <2>2. Typed' /\ Exclusive' /\ StartIsPlanned'
    BY <1>2, <2>1 DEF ReleaseSemaphore, Inv, Typed, Exclusive, StartIsPlanned
  <2> QED
    BY <2>1, <2>2 DEF Inv, ListsAreRead
<1>3. ASSUME NEW m \in Masters, NEW a \in Addresses, WriteStart(m, a) PROVE Inv'
  <2>1. /\ m \in inside
        /\ plan' = [plan EXCEPT ![m] = IF @ = NoStart THEN a ELSE @]
        /\ dpc' = [dpc EXCEPT !.start = IF dpc.start_valid THEN @ ELSE a,
                              !.start_valid = TRUE]
        /\ UNCHANGED <<semaphore_held, inside, asked, given_up, aborted>>
    BY <1>3 DEF WriteStart, history
  <2>2. a # NoStart
    BY RdpCommandsAssumption DEF Addresses
  <2>3. Typed'
    BY <2>1 DEF Inv, Typed
  <2>4. Exclusive' /\ StartIsPlanned'
    BY <2>1, <2>2 DEF Inv, Typed, Exclusive, StartIsPlanned
  <2>5. dpc'.current = dpc.current /\ dpc'.end = dpc.end /\ dpc'.freeze = dpc.freeze
    BY <2>1 DEF Inv, Typed
  <2> QED
    BY <2>1, <2>3, <2>4, <2>5 DEF Inv, ListsAreRead
<1>4. ASSUME NEW m \in Masters, NEW e \in Ends, WriteEnd(m, e) PROVE Inv'
  BY <1>4, WriteEndKeepsInv
<1>5. ASSUME NEW c \in BOOLEAN, NEW s \in BOOLEAN, NEW p \in BOOLEAN, WriteStatus(c, s, p)
      PROVE  Inv'
  BY <1>5, WriteStatusKeepsInv
<1>6. CASE LowerInterrupt
  BY <1>6 DEF LowerInterrupt, protocol, history,
              Inv, Typed, Exclusive, StartIsPlanned, ListsAreRead
<1>7. CASE ResetSystem
  <2>1. /\ dpc' = [dpc EXCEPT !.start_valid = FALSE, !.freeze = FALSE,
                              !.pipe_busy = FALSE, !.start_gclk = FALSE]
        /\ inside' = {} /\ plan' = [m \in Masters |-> NoStart]
        /\ aborted' = (aborted \/ asked # given_up)
        /\ UNCHANGED <<semaphore_held, asked, given_up>>
    BY <1>7 DEF ResetSystem
  <2>2. Typed' /\ Exclusive' /\ StartIsPlanned'
    BY <2>1 DEF Inv, Typed, Exclusive, StartIsPlanned
  <2>3. dpc'.current = dpc.current /\ dpc'.end = dpc.end
    BY <2>1 DEF Inv, Typed
  <2> QED
    BY <2>1, <2>2, <2>3 DEF Inv, ListsAreRead
<1>8. CASE UNCHANGED vars
  BY <1>8 DEF vars, registers, protocol, history,
              Inv, Typed, Exclusive, StartIsPlanned, ListsAreRead
<1> QED
  BY <1>1, <1>2, <1>3, <1>4, <1>5, <1>6, <1>7, <1>8 DEF Next

\* The registers and the semaphore have their types.
THEOREM RegistersAreTyped == Spec => []Typed
<1>1. Inv => Typed
  BY DEF Inv
<1> QED
  BY InitInv, NextKeepsInv, <1>1, PTL DEF Spec

-----------------------------------------------------------------------------
\* Whoever writes the registers, and however their writes and those to the status are
\* interleaved: a list is read whole and in order, unless another is begun while it
\* waits at a frozen RDP or after a reset (rdp.c:342-356).
THEOREM ListsAreReadOrGivenUp == Spec => []ListsAreRead
<1>1. Inv => ListsAreRead
  BY DEF Inv
<1> QED
  BY InitInv, NextKeepsInv, <1>1, PTL DEF Spec

-----------------------------------------------------------------------------
\* The loop of process_rdp_list stops where no whole command begins.
Stops(buffer, i) == i > Len(buffer) \/ i + Length[buffer[i]] - 1 > Len(buffer)
CommandAt(buffer, i) == SubSeq(buffer, i, i + Length[buffer[i]] - 1)
RunAt(buffer, run, i) ==
  IF Stops(buffer, i) THEN <<>> ELSE <<CommandAt(buffer, i)>> \o run[i + Length[buffer[i]]]

LEMMA GoesOn ==
  ASSUME NEW buffer \in Seq(Commands), NEW i \in 1..(Len(buffer) + 1), ~ Stops(buffer, i)
  PROVE  /\ Len(buffer) \in Nat /\ i \in 1..Len(buffer) /\ Length[buffer[i]] \in Nat \ {0}
         /\ i + Length[buffer[i]] \in (i + 1)..(Len(buffer) + 1)
         /\ CommandAt(buffer, i) \in Seq(Commands) /\ CommandAt(buffer, i) # <<>>
         /\ Len(CommandAt(buffer, i)) = Length[Head(CommandAt(buffer, i))]
<1>1. Len(buffer) \in Nat /\ i \in 1..Len(buffer)
  BY LenProperties DEF Stops
<1>2. buffer[i] \in Commands /\ Length[buffer[i]] \in Nat \ {0}
  BY <1>1, ElementOfSeq, RdpCommandsAssumption
<1> DEFINE n == Length[buffer[i]]
<1>3. i + n \in (i + 1)..(Len(buffer) + 1)
  BY <1>1, <1>2 DEF Stops
<1> HIDE DEF n
<1>4. i + n - 1 \in i..Len(buffer) /\ n \in Nat \ {0}
  BY <1>1, <1>2, <1>3 DEF n
<1>5. /\ SubSeq(buffer, i, i + n - 1) \in Seq(Commands)
      /\ Len(SubSeq(buffer, i, i + n - 1)) = n
  <2>1. \A j \in i..(i + n - 1) : buffer[j] \in Commands
    BY <1>1, <1>4, ElementOfSeq
  <2>2. i \in Int /\ i + n - 1 \in Int /\ i <= i + n - 1 /\ (i + n - 1) - i + 1 = n
    BY <1>1, <1>4
  <2>3. QED
    BY <2>1, <2>2, SubSeqProperties
<1>6. Head(SubSeq(buffer, i, i + n - 1)) = buffer[i]
  BY <1>1, <1>4, HeadTailOfSubSeq
<1>7. SubSeq(buffer, i, i + n - 1) # <<>>
  BY <1>4, <1>5
<1>8. QED
  BY <1>1, <1>2, <1>3, <1>5, <1>6, <1>7 DEF n, CommandAt

LEMMA Running ==
  ASSUME NEW buffer \in Seq(Commands)
  PROVE  \E run : /\ RunFrom(buffer) = run[1]
                  /\ \A i \in 1..(Len(buffer) + 1) : run[i] = RunAt(buffer, run, i)
<1> DEFINE n == Len(buffer)
           T == Seq(Seq(Commands))
           Whole(run) == run = [i \in 1..(n + 1) |-> RunAt(buffer, run, i)]
           Solves(k) == \E run \in [1..(n + 1) -> T] :
                          \A i \in (n + 2 - k)..(n + 1) : run[i] = RunAt(buffer, run, i)
           K == {k \in 0..(n + 1) : Solves(k)}
<1>1. n \in Nat
  BY LenProperties
<1>2. 0 \in K
  <2>1. [i \in 1..(n + 1) |-> <<>>] \in [1..(n + 1) -> T]
    BY EmptySeq
  <2>2. \A i \in (n + 2 - 0)..(n + 1) : FALSE
    BY <1>1
  <2>3. 0 \in 0..(n + 1)
    BY <1>1
  <2> HIDE DEF n, T
  <2>4. QED
    BY <2>1, <2>2, <2>3
<1>3. ASSUME NEW k \in K, k \in 0..n PROVE k + 1 \in K
  <2>1. PICK run \in [1..(n + 1) -> T] : \A i \in (n + 2 - k)..(n + 1) : run[i] = RunAt(buffer, run, i)
    BY <1>3
  <2> DEFINE v == n + 1 - k
             more == [run EXCEPT ![v] = RunAt(buffer, run, v)]
  <2>2. v \in 1..(n + 1) /\ k + 1 \in 0..(n + 1) /\ n + 2 - (k + 1) = v /\ n + 2 - k = v + 1 /\ v \in Int
    <3> HIDE DEF n, K
    <3>1. QED
      BY <1>1, <1>3
  <2> HIDE DEF v
  <2>3. RunAt(buffer, run, v) \in T
    <3>1. CASE Stops(buffer, v)
      BY <3>1, EmptySeq DEF RunAt
    <3>2. CASE ~ Stops(buffer, v)
      <4>1. v + Length[buffer[v]] \in 1..(n + 1) /\ CommandAt(buffer, v) \in Seq(Commands)
        BY <2>2, <3>2, GoesOn
      <4>2. <<CommandAt(buffer, v)>> \in T /\ run[v + Length[buffer[v]]] \in T
        BY <4>1
      <4>3. QED
        BY <3>2, <4>2, ConcatProperties DEF RunAt
    <3>3. QED
      BY <3>1, <3>2
  <2>4. more \in [1..(n + 1) -> T]
    BY <2>2, <2>3
  <2>5. \A i \in v..(n + 1) : RunAt(buffer, more, i) = RunAt(buffer, run, i)
    <3> SUFFICES ASSUME NEW i \in v..(n + 1) PROVE RunAt(buffer, more, i) = RunAt(buffer, run, i)
      OBVIOUS
    <3>1. i \in 1..(n + 1) /\ i >= v
      <4> HIDE DEF n
      <4>1. QED
        BY <1>1, <2>2
    <3>2. CASE Stops(buffer, i)
      BY <3>2 DEF RunAt
    <3>3. CASE ~ Stops(buffer, i)
      <4>1. i + Length[buffer[i]] \in (i + 1)..(n + 1)
        BY <3>1, <3>3, GoesOn
      <4>2. i + Length[buffer[i]] \in 1..(n + 1) /\ i + Length[buffer[i]] # v
        <5> DEFINE j == i + Length[buffer[i]]
        <5> HIDE DEF j
        <5>1. j \in (i + 1)..(n + 1)
          BY <4>1 DEF j
        <5> HIDE DEF n
        <5>2. j \in 1..(n + 1) /\ j # v
          BY <1>1, <2>2, <3>1, <5>1
        <5>3. QED
          BY <5>2 DEF j
      <4>3. more[i + Length[buffer[i]]] = run[i + Length[buffer[i]]]
        BY <4>2
      <4> HIDE DEF more
      <4>4. QED
        BY <3>3, <4>3 DEF RunAt
    <3>4. QED
      BY <3>2, <3>3
  <2>6. \A i \in v..(n + 1) : more[i] = RunAt(buffer, run, i)
    <3> SUFFICES ASSUME NEW i \in v..(n + 1) PROVE more[i] = RunAt(buffer, run, i)
      OBVIOUS
    <3>1. i \in 1..(n + 1) /\ (i = v \/ i \in (n + 2 - k)..(n + 1))
      <4> HIDE DEF n
      <4>1. QED
        BY <1>1, <2>2
    <3>2. QED
      BY <2>1, <3>1
  <2> HIDE DEF more, n
  <2>7. Solves(k + 1)
    BY <2>2, <2>4, <2>5, <2>6
  <2>8. QED
    BY <2>2, <2>7
<1>4. n + 1 \in K
  <2> HIDE DEF K, n
  <2>1. n + 1 \in Nat /\ (n + 1) - 1 = n
    BY <1>1
  <2>2. QED
    BY <1>2, <1>3, <2>1, UpTo
<1>5. PICK run \in [1..(n + 1) -> T] : \A i \in 1..(n + 1) : run[i] = RunAt(buffer, run, i)
  <2>1. PICK run \in [1..(n + 1) -> T] : \A i \in (n + 2 - (n + 1))..(n + 1) : run[i] = RunAt(buffer, run, i)
    BY <1>4
  <2>2. n + 2 - (n + 1) = 1
    BY <1>1
  <2> HIDE DEF n
  <2>3. QED
    BY <2>1, <2>2
<1> DEFINE chosen == CHOOSE f : Whole(f)
<1>6. RunFrom(buffer) = chosen[1]
  BY DEF RunFrom, RunAt, Stops, CommandAt
<1>7. Whole(run)
  BY <1>5
<1>8. Whole(chosen)
  BY <1>7
<1> HIDE DEF chosen
<1>9. QED
  BY <1>6, <1>8

LEMMA FlattenOne ==
  ASSUME NEW S, NEW e \in Seq(S)
  PROVE  FlattenSeq(<<e>>) = e
<1>1. <<>> \in Seq(Seq(S))
  BY EmptySeq
<1>2. Append(<<>>, e) = <<e>>
  OBVIOUS
<1>3. FlattenSeq(Append(<<>>, e)) = FlattenSeq(<<>>) \o e /\ FlattenSeq(<<>>) = <<>>
  BY <1>1, FlattenAppend
<1>4. QED
  BY <1>2, <1>3, ConcatEmptySeq

\* A command with all its dwords.
IsWhole(command) == command # <<>> /\ Len(command) = Length[Head(command)]
AllWhole(commands) == \A j \in DOMAIN commands : IsWhole(commands[j])

LEMMA WholeConcat ==
  ASSUME NEW S, NEW s \in Seq(S), NEW t \in Seq(S), AllWhole(s), AllWhole(t)
  PROVE  AllWhole(s \o t)
<1>1. SUFFICES ASSUME NEW j \in DOMAIN (s \o t) PROVE IsWhole((s \o t)[j])
  BY DEF AllWhole
<1>2. /\ Len(s) \in Nat /\ Len(t) \in Nat /\ DOMAIN s = 1..Len(s) /\ DOMAIN t = 1..Len(t)
      /\ DOMAIN (s \o t) = 1..(Len(s) + Len(t))
  BY LenProperties, ConcatProperties
<1>3. (s \o t)[j] = IF j <= Len(s) THEN s[j] ELSE t[j - Len(s)]
  BY <1>1, <1>2, ConcatProperties
<1>4. CASE j <= Len(s)
  BY <1>1, <1>2, <1>3, <1>4 DEF AllWhole
<1>5. CASE ~ (j <= Len(s))
  <2>1. j - Len(s) \in 1..Len(t)
    BY <1>1, <1>2, <1>5
  <2>2. QED
    BY <1>2, <1>3, <1>5, <2>1 DEF AllWhole
<1>6. QED
  BY <1>4, <1>5

\* The commands from i on are whole, and end where no whole command begins.
RunsToTheRest(buffer, commands, i) ==
  /\ commands \in Seq(Seq(Commands))
  /\ AllWhole(commands)
  /\ \E m \in i..(Len(buffer) + 1) :
       Stops(buffer, m) /\ FlattenSeq(commands) = SubSeq(buffer, i, m - 1)

LEMMA StopsThere ==
  ASSUME NEW buffer \in Seq(Commands), NEW i \in 1..(Len(buffer) + 1), Stops(buffer, i)
  PROVE  RunsToTheRest(buffer, <<>>, i)
<1>1. <<>> \in Seq(Seq(Commands)) /\ AllWhole(<<>>)
  BY EmptySeq DEF AllWhole
<1>2. FlattenSeq(<<>>) = <<>>
  BY FlattenAppend, EmptySeq
<1>3. SubSeq(buffer, i, i - 1) = <<>>
  BY SubSeqEmpty
<1>4. i \in i..(Len(buffer) + 1)
  BY LenProperties
<1>5. QED
  BY <1>1, <1>2, <1>3, <1>4 DEF RunsToTheRest

LEMMA OneMore ==
  ASSUME NEW buffer \in Seq(Commands), NEW i \in 1..(Len(buffer) + 1), ~ Stops(buffer, i),
         NEW commands, RunsToTheRest(buffer, commands, i + Length[buffer[i]])
  PROVE  RunsToTheRest(buffer, <<CommandAt(buffer, i)>> \o commands, i)
<1> DEFINE n == Len(buffer)
           l == i + Length[buffer[i]]
           c == CommandAt(buffer, i)
<1>1. /\ n \in Nat /\ i \in 1..n /\ l \in (i + 1)..(n + 1)
      /\ c \in Seq(Commands) /\ IsWhole(c)
  BY GoesOn DEF IsWhole
<1>2. c = SubSeq(buffer, i, l - 1)
  <2>1. Length[buffer[i]] \in Nat
    BY GoesOn
  <2>2. i + Length[buffer[i]] - 1 = l - 1
    BY <2>1
  <2>3. QED
    BY <2>2 DEF CommandAt
<1>3. PICK m \in l..(n + 1) : Stops(buffer, m) /\ FlattenSeq(commands) = SubSeq(buffer, l, m - 1)
  BY DEF RunsToTheRest
<1>4. commands \in Seq(Seq(Commands)) /\ AllWhole(commands)
  BY DEF RunsToTheRest
<1> HIDE DEF n, l, c
<1>5. <<c>> \in Seq(Seq(Commands)) /\ AllWhole(<<c>>)
  BY <1>1 DEF AllWhole
<1>6. <<c>> \o commands \in Seq(Seq(Commands))
  BY <1>4, <1>5, ConcatProperties
<1>7. AllWhole(<<c>> \o commands)
  BY <1>4, <1>5, WholeConcat
<1>8. FlattenSeq(<<c>> \o commands) = c \o SubSeq(buffer, l, m - 1)
  <2>1. FlattenSeq(<<c>> \o commands) = FlattenSeq(<<c>>) \o FlattenSeq(commands)
    <3> DEFINE one == <<c>>
    <3>1. one \in Seq(Seq(Commands))
      BY <1>5
    <3> HIDE DEF one
    <3>2. FlattenSeq(one \o commands) = FlattenSeq(one) \o FlattenSeq(commands)
      BY <1>4, <3>1, FlattenConcat
    <3>3. QED
      BY <3>2 DEF one
  <2>2. FlattenSeq(<<c>>) = c
    BY <1>1, FlattenOne
  <2>3. QED
    BY <1>3, <2>1, <2>2
<1>9. i \in 1..(n + 1) /\ l - 1 \in (i - 1)..n /\ m - 1 \in (l - 1)..n /\ (l - 1) + 1 = l /\ m \in i..(n + 1)
  BY <1>1, <1>3
<1>10. SubSeq(buffer, i, l - 1) \o SubSeq(buffer, (l - 1) + 1, m - 1) = SubSeq(buffer, i, m - 1)
  BY <1>9, ConcatAdjacentSubSeq DEF n
<1>11. FlattenSeq(<<c>> \o commands) = SubSeq(buffer, i, m - 1)
  BY <1>2, <1>8, <1>9, <1>10
<1>12. QED
  BY <1>3, <1>6, <1>7, <1>9, <1>11 DEF RunsToTheRest, n, c

\* What is run of a buffer are whole commands, and what is left is a part of one.
LEMMA WhatIsRun ==
  ASSUME NEW buffer \in Seq(Commands)
  PROVE  /\ RunFrom(buffer) \in Seq(Seq(Commands))
         /\ AllWhole(RunFrom(buffer))
         /\ Rest(buffer, RunFrom(buffer)) \in Seq(Commands)
         /\ FlattenSeq(RunFrom(buffer)) \o Rest(buffer, RunFrom(buffer)) = buffer
         /\ \/ Rest(buffer, RunFrom(buffer)) = <<>>
            \/ Len(Rest(buffer, RunFrom(buffer))) < Length[Head(Rest(buffer, RunFrom(buffer)))]
<1> DEFINE n == Len(buffer)
           Good(i, commands) == RunsToTheRest(buffer, commands, i)
<1>1. n \in Nat
  BY LenProperties
<1>2. PICK run : /\ RunFrom(buffer) = run[1]
                 /\ \A i \in 1..(n + 1) : run[i] = RunAt(buffer, run, i)
  BY Running
<1>3. ASSUME NEW i \in 1..(n + 1), \A j \in (i + 1)..(n + 1) : Good(j, run[j])
      PROVE  Good(i, run[i])
  <2>1. CASE Stops(buffer, i)
    BY <1>2, <2>1, StopsThere DEF RunAt
  <2>2. CASE ~ Stops(buffer, i)
    <3>1. i + Length[buffer[i]] \in (i + 1)..(n + 1)
      BY <2>2, GoesOn
    <3>2. Good(i + Length[buffer[i]], run[i + Length[buffer[i]]])
      BY <1>3, <3>1
    <3>3. run[i] = <<CommandAt(buffer, i)>> \o run[i + Length[buffer[i]]]
      BY <1>2, <2>2 DEF RunAt
    <3>4. QED
      BY <2>2, <3>2, <3>3, OneMore
  <2>3. QED
    BY <2>1, <2>2
<1> DEFINE T == {k \in 0..n : \A i \in (n + 1 - k)..(n + 1) : Good(i, run[i])}
<1> HIDE DEF Good, n
<1>4. 0 \in T
  <2>1. Good(n + 1, run[n + 1])
    <3>1. n + 1 \in 1..(n + 1) /\ \A j \in ((n + 1) + 1)..(n + 1) : FALSE
      BY <1>1
    <3>2. QED
      BY <1>3, <3>1
  <2>2. \A i \in (n + 1 - 0)..(n + 1) : i = n + 1
    BY <1>1
  <2>3. 0 \in 0..n
    BY <1>1
  <2>4. QED
    BY <2>1, <2>2, <2>3
<1>5. ASSUME NEW k \in T, k \in 0..(n - 1) PROVE k + 1 \in T
  <2>1. \A i \in (n + 1 - k)..(n + 1) : Good(i, run[i])
    BY <1>5
  <2>2. /\ n - k \in 1..(n + 1) /\ (n - k) + 1 = n + 1 - k /\ n + 1 - (k + 1) = n - k /\ k + 1 \in 0..n
        /\ \A i \in (n - k)..(n + 1) : i = n - k \/ i \in (n + 1 - k)..(n + 1)
    <3> HIDE DEF T
    <3>1. QED
      BY <1>1, <1>5
  <2>3. Good(n - k, run[n - k])
    BY <1>3, <2>1, <2>2
  <2>4. \A i \in (n - k)..(n + 1) : Good(i, run[i])
    BY <2>1, <2>2, <2>3
  <2>5. QED
    BY <2>2, <2>4
<1>6. n \in T
  <2> HIDE DEF T
  <2>1. QED
    BY <1>1, <1>4, <1>5, UpTo
<1>7. RunsToTheRest(buffer, RunFrom(buffer), 1)
  <2>1. 1 \in (n + 1 - n)..(n + 1)
    BY <1>1
  <2>2. Good(1, run[1])
    BY <1>6, <2>1
  <2>3. QED
    BY <1>2, <2>2 DEF Good
<1>8. PICK m \in 1..(n + 1) : Stops(buffer, m) /\ FlattenSeq(RunFrom(buffer)) = SubSeq(buffer, 1, m - 1)
  BY <1>7 DEF RunsToTheRest, n
<1>9. Len(SubSeq(buffer, 1, m - 1)) = m - 1
  <2>1. \A j \in 1..(m - 1) : buffer[j] \in Commands
    BY <1>1, <1>8, ElementOfSeq DEF n
  <2>2. 1 \in Int /\ m - 1 \in Int /\ (IF 1 <= m - 1 THEN (m - 1) - 1 + 1 ELSE 0) = m - 1
    BY <1>1, <1>8
  <2>3. QED
    BY <2>1, <2>2, SubSeqProperties
<1>10. Rest(buffer, RunFrom(buffer)) = SubSeq(buffer, m, n)
  BY <1>1, <1>8, <1>9 DEF Rest, n
<1>11. SubSeq(buffer, m, n) \in Seq(Commands) /\ Len(SubSeq(buffer, m, n)) = n - m + 1
  <2>1. \A j \in m..n : buffer[j] \in Commands
    BY <1>1, <1>8, ElementOfSeq DEF n
  <2>2. m \in Int /\ n \in Int /\ (IF m <= n THEN n - m + 1 ELSE 0) = n - m + 1
    BY <1>1, <1>8
  <2>3. QED
    BY <2>1, <2>2, SubSeqProperties
<1>12. SubSeq(buffer, 1, m - 1) \o SubSeq(buffer, m, n) = buffer
  <2>1. 1 \in 1..(n + 1) /\ m - 1 \in (1 - 1)..n /\ n \in (m - 1)..n /\ (m - 1) + 1 = m
    BY <1>1, <1>8
  <2>2. SubSeq(buffer, 1, m - 1) \o SubSeq(buffer, (m - 1) + 1, n) = SubSeq(buffer, 1, n)
    BY <2>1, ConcatAdjacentSubSeq DEF n
  <2>3. QED
    BY <2>1, <2>2, SubSeqFull DEF n
<1>13. SubSeq(buffer, m, n) = <<>> \/ Len(SubSeq(buffer, m, n)) < Length[Head(SubSeq(buffer, m, n))]
  <2>1. CASE m > n
    BY <1>1, <1>8, <2>1, SubSeqEmpty
  <2>2. CASE ~ (m > n)
    <3>1. m \in 1..n /\ n \in m..n
      BY <1>1, <1>8, <2>2
    <3>2. Head(SubSeq(buffer, m, n)) = buffer[m] /\ buffer[m] \in Commands
      BY <3>1, HeadTailOfSubSeq, ElementOfSeq DEF n
    <3>3. m + Length[buffer[m]] - 1 > n /\ Length[buffer[m]] \in Nat
      BY <1>8, <2>2, <3>2, RdpCommandsAssumption DEF Stops, n
    <3>4. n - m + 1 < Length[buffer[m]]
      BY <1>1, <3>1, <3>3
    <3>5. QED
      BY <1>11, <3>2, <3>4
  <2>3. QED
    BY <2>1, <2>2
<1>14. QED
  BY <1>7, <1>8, <1>10, <1>11, <1>12, <1>13 DEF RunsToTheRest

LEMMA PrefixOfConcat ==
  ASSUME NEW S, NEW s \in Seq(S), NEW t \in Seq(S)
  PROVE  IsPrefix(s, s \o t)
<1>1. Len(s) \in Nat /\ Len(t) \in Nat /\ Len(s \o t) = Len(s) + Len(t)
  BY LenProperties, ConcatProperties
<1>2. SubSeq(s, 1, Len(s)) = SubSeq(s \o t, 1, Len(s))
  <2>1. CASE Len(s) = 0
    BY <2>1, SubSeqEmpty
  <2>2. CASE Len(s) # 0
    <3>1. 1 \in 1..Len(s) /\ Len(s) \in 1..Len(s)
      BY <1>1, <2>2
    <3>2. QED
      BY <3>1, SubSeqOfConcat1
  <2>3. QED
    BY <2>1, <2>2
<1>3. QED
  BY <1>1, <1>2 DEF IsPrefix

\* What has been read is the commands run and a part of the next one.
Streamed ==
  /\ unprocessed \in Seq(Commands)
  /\ fetched \in Seq(Commands)
  /\ executed \in Seq(Seq(Commands))
  /\ AllWhole(executed)
  /\ LeftoverIsPartial

\* In such a state the commands are those of the stream.
LEMMA StreamedIsUpToDate == Streamed => Stream!IsUpToDate
<1> SUFFICES ASSUME Streamed PROVE Stream!IsUpToDate
  OBVIOUS
<1> DEFINE all == FlattenSeq(executed)
<1>1. /\ all \in Seq(Commands) /\ fetched = all \o unprocessed
      /\ unprocessed \in Seq(Commands)
  BY FlattenAppend DEF Streamed, LeftoverIsPartial
<1> HIDE DEF all
<1>2. IsPrefix(all, fetched)
  BY <1>1, PrefixOfConcat
<1>3. SubSeq(fetched, Len(all) + 1, Len(fetched)) = unprocessed
  <2>1. /\ Len(all) \in Nat /\ Len(unprocessed) \in Nat
        /\ Len(fetched) = Len(all) + Len(unprocessed)
    BY <1>1, LenProperties, ConcatProperties
  <2>2. CASE unprocessed = <<>>
    <3>1. Len(fetched) < Len(all) + 1
      BY <2>1, <2>2, EmptySeq
    <3>2. QED
      BY <2>1, <2>2, <3>1, SubSeqEmpty
  <2>3. CASE unprocessed # <<>>
    <3>1. Len(unprocessed) # 0
      BY <1>1, <2>3, EmptySeq
    <3>2. /\ Len(all) + 1 \in (Len(all) + 1)..(Len(all) + Len(unprocessed))
          /\ Len(fetched) \in (Len(all) + 1)..(Len(all) + Len(unprocessed))
          /\ (Len(all) + 1) - Len(all) = 1 /\ Len(fetched) - Len(all) = Len(unprocessed)
      BY <2>1, <3>1
    <3>3. SubSeq(fetched, Len(all) + 1, Len(fetched)) = SubSeq(unprocessed, 1, Len(unprocessed))
      BY <1>1, <3>2, SubSeqOfConcat2
    <3>4. QED
      BY <1>1, <3>3, SubSeqFull
  <2>4. QED
    BY <2>2, <2>3
<1>4. Stream!IsPartial(unprocessed)
  BY DEF Streamed, LeftoverIsPartial, Stream!IsPartial
<1>5. \A i \in DOMAIN executed : Stream!IsWhole(executed[i])
  BY DEF Streamed, AllWhole, IsWhole, Stream!IsWhole
<1>6. QED
  BY <1>2, <1>3, <1>4, <1>5 DEF all, Stream!IsUpToDate, Stream!IsPrefix, IsPrefix, Stream!FlattenSeq, FlattenSeq

\* A run of rdp_run_command feeds the stream, or leaves it alone.
LEMMA RunFeedsTheStream ==
  ASSUME Streamed, NEW d, NEW wanted, d.current \in Int, d.end \in Int,
         RdpRunCommand(d, wanted)
  PROVE  /\ Streamed'
         /\ \/ UNCHANGED <<fetched, executed>>
            \/ IsStrictPrefix(fetched, fetched') /\ IsPrefix(executed, executed')
<1> DEFINE list == Extent(d.current, d.end)
<1>1. CASE UNCHANGED <<unprocessed, fetched, executed>>
  BY <1>1 DEF Streamed, LeftoverIsPartial
<1>2. ASSUME NEW dwords \in [DOMAIN list -> Commands], list # <<>>,
             unprocessed' = Rest(unprocessed \o dwords, RunFrom(unprocessed \o dwords)),
             fetched' = fetched \o dwords,
             executed' = executed \o RunFrom(unprocessed \o dwords)
      PROVE  /\ Streamed'
             /\ IsStrictPrefix(fetched, fetched') /\ IsPrefix(executed, executed')
  <2>1. dwords \in Seq(Commands) /\ dwords # <<>>
    <3> DEFINE n == IF d.end > d.current THEN d.end - d.current ELSE 0
    <3>1. n \in Nat /\ DOMAIN list = 1..n /\ (n = 0 => list = <<>>)
      BY DEF Extent
    <3> HIDE DEF n, list
    <3>2. dwords \in [1..n -> Commands] /\ n # 0
      BY <1>2, <3>1
    <3>3. QED
      BY <3>1, <3>2
  <2> DEFINE buffer   == unprocessed \o dwords
             commands == RunFrom(buffer)
  <2>2. buffer \in Seq(Commands)
    BY <2>1, ConcatProperties DEF Streamed
  <2> HIDE DEF buffer
  <2>3. /\ commands \in Seq(Seq(Commands)) /\ AllWhole(commands)
        /\ Rest(buffer, commands) \in Seq(Commands)
        /\ FlattenSeq(commands) \o Rest(buffer, commands) = buffer
        /\ \/ Rest(buffer, commands) = <<>>
           \/ Len(Rest(buffer, commands)) < Length[Head(Rest(buffer, commands))]
    BY <2>2, WhatIsRun
  <2>4. unprocessed' = Rest(buffer, commands) /\ executed' = executed \o commands
    BY <1>2 DEF buffer
  <2> HIDE DEF commands
  <2>5. executed' \in Seq(Seq(Commands)) /\ AllWhole(executed')
    <3>1. executed \in Seq(Seq(Commands)) /\ AllWhole(executed)
      BY DEF Streamed
    <3>2. QED
      BY <2>3, <2>4, <3>1, ConcatProperties, WholeConcat
  <2>6. fetched' \in Seq(Commands)
    BY <1>2, <2>1, ConcatProperties DEF Streamed
  <2>7. fetched' = FlattenSeq(executed') \o unprocessed'
    <3> DEFINE a == FlattenSeq(executed)
               b == FlattenSeq(commands)
               r == Rest(buffer, commands)
    <3>1. FlattenSeq(executed') = a \o b
      BY <2>3, <2>4, FlattenConcat DEF Streamed
    <3>2. a \in Seq(Commands) /\ b \in Seq(Commands) /\ r \in Seq(Commands)
      BY <2>3, FlattenAppend DEF Streamed
    <3>3. fetched = a \o unprocessed /\ unprocessed \in Seq(Commands)
      BY DEF Streamed, LeftoverIsPartial
    <3>4. b \o r = unprocessed \o dwords /\ unprocessed' = r
      BY <2>3, <2>4 DEF buffer
    <3> HIDE DEF a, b, r
    <3>5. (a \o b) \o r = a \o (b \o r)
      BY ONLY <3>2, ConcatAssociative
    <3>6. (a \o unprocessed) \o dwords = a \o (unprocessed \o dwords)
      BY ONLY <2>1, <3>2, <3>3, ConcatAssociative
    <3>7. QED
      BY <1>2, <3>1, <3>3, <3>4, <3>5, <3>6
  <2>8. LeftoverIsPartial'
    BY <2>3, <2>4, <2>7 DEF LeftoverIsPartial
  <2>9. Streamed'
    BY <2>3, <2>4, <2>5, <2>6, <2>8 DEF Streamed, AllWhole, IsWhole
  <2>10. IsPrefix(executed, executed')
    BY <2>3, <2>4, PrefixOfConcat DEF Streamed
  <2>11. IsPrefix(fetched, fetched')
    BY <1>2, <2>1, PrefixOfConcat DEF Streamed
  <2>12. fetched' # fetched
    BY <1>2, <2>1, ConcatEqualIffEmpty DEF Streamed
  <2>13. QED
    BY <2>9, <2>10, <2>11, <2>12 DEF IsStrictPrefix
<1>3. QED
  BY <1>1, <1>2 DEF RdpRunCommand

LEMMA InitStreamed == Init => Streamed /\ Stream!Init
<1> SUFFICES ASSUME Init PROVE Streamed /\ Stream!Init
  OBVIOUS
<1>1. unprocessed = <<>> /\ fetched = <<>> /\ executed = <<>>
  BY DEF Init
<1>2. FlattenSeq(<<>>) = <<>>
  BY FlattenAppend, EmptySeq
<1>3. <<>> \o <<>> = <<>>
  BY EmptySeq, ConcatEmptySeq
<1>4. unprocessed \in Seq(Commands) /\ fetched \in Seq(Commands) /\ executed \in Seq(Seq(Commands))
  BY <1>1, EmptySeq
<1>5. AllWhole(executed)
  BY <1>1 DEF AllWhole
<1>6. QED
  BY <1>1, <1>2, <1>3, <1>4, <1>5 DEF Streamed, LeftoverIsPartial, Stream!Init

\* A step feeds the stream or leaves it alone.
LEMMA NextFeedsTheStream ==
  ASSUME Inv, Streamed, [Next]_vars
  PROVE  /\ Streamed'
         /\ \/ UNCHANGED <<fetched, executed>>
            \/ IsStrictPrefix(fetched, fetched') /\ IsPrefix(executed, executed')
<1> DEFINE Goal == /\ Streamed'
                   /\ \/ UNCHANGED <<fetched, executed>>
                      \/ IsStrictPrefix(fetched, fetched') /\ IsPrefix(executed, executed')
<1>1. CASE UNCHANGED <<unprocessed, fetched, executed>>
  BY <1>1 DEF Streamed, LeftoverIsPartial
<1>2. /\ dpc \in [start : Addresses, end : Ends, current : Ends, start_valid : BOOLEAN,
                  freeze : BOOLEAN, pipe_busy : BOOLEAN, start_gclk : BOOLEAN]
      /\ Addresses \subseteq Int /\ Ends \subseteq Int
  BY RdpCommandsAssumption DEF Inv, Typed, Addresses, Ends
<1>3. ASSUME NEW m \in Masters, NEW e \in Ends, WriteEnd(m, e) PROVE Goal
  <2>1. EndWritten(e).current \in Int /\ EndWritten(e).end \in Int
    BY <1>2 DEF EndWritten
  <2>2. PICK wanted : RdpRunCommand(EndWritten(e), wanted)
    BY <1>3 DEF WriteEnd
  <2>3. QED
    BY <2>1, <2>2, RunFeedsTheStream
<1>4. ASSUME NEW c \in BOOLEAN, NEW s \in BOOLEAN, NEW p \in BOOLEAN, WriteStatus(c, s, p)
      PROVE  Goal
  <2>1. StatusWritten(c, s, p).current \in Int /\ StatusWritten(c, s, p).end \in Int
    BY <1>2 DEF StatusWritten
  <2>2. \/ RdpRunCommand(StatusWritten(c, s, p), asked)
        \/ UNCHANGED <<unprocessed, fetched, executed>>
    BY <1>4 DEF WriteStatus
  <2>3. QED
    BY <1>1, <2>1, <2>2, RunFeedsTheStream
<1>5. ASSUME NEW m \in Masters, AcquireSemaphore(m) \/ ReleaseSemaphore(m) PROVE Goal
  BY <1>1, <1>5 DEF AcquireSemaphore, ReleaseSemaphore, registers, history
<1>6. ASSUME NEW m \in Masters, NEW a \in Addresses, WriteStart(m, a) PROVE Goal
  BY <1>1, <1>6 DEF WriteStart, history
<1>7. CASE LowerInterrupt \/ ResetSystem \/ UNCHANGED vars
  BY <1>1, <1>7 DEF LowerInterrupt, ResetSystem, vars, registers, history
<1>8. QED
  BY <1>3, <1>4, <1>5, <1>6, <1>7 DEF Next

\* Only a part of one command is left for the next run, and nothing that was read is
\* lost or run twice.
THEOREM OnlyAPartIsLeft == Spec => []LeftoverIsPartial
<1>1. Inv /\ Streamed /\ [Next]_vars => (Inv /\ Streamed)'
  BY NextKeepsInv, NextFeedsTheStream
<1>2. Inv /\ Streamed => LeftoverIsPartial
  BY DEF Streamed
<1>3. QED
  BY InitInv, InitStreamed, <1>1, <1>2, PTL DEF Spec

\* However a list is cut into pieces, the commands run are those of the one stream of
\* everything that was read: RdpCommands implements CommandStream.
THEOREM ListsAreOneStream == Spec => CutsMakeNoDifference
<1>1. Inv /\ Streamed /\ [Next]_vars => (Inv /\ Streamed)'
  BY NextKeepsInv, NextFeedsTheStream
<1>2. Inv /\ Streamed /\ [Next]_vars /\ Streamed' /\ Stream!IsUpToDate'
        => [Stream!Next]_<<fetched, executed>>
  BY NextFeedsTheStream
     DEF Stream!Next, Stream!Feed, Stream!IsPrefix, Stream!IsStrictPrefix, IsPrefix, IsStrictPrefix
<1>3. QED
  BY InitInv, InitStreamed, StreamedIsUpToDate, <1>1, <1>2, PTL
     DEF Spec, CutsMakeNoDifference, Stream!Spec

--------------------------------------------------------------------------------
(***************************************************************************)
(* Exceptions.                                                             *)
(***************************************************************************)

(***************************************************************************)
(* Settle is defined by recursion towards the end of the program.          *)
(***************************************************************************)
Targets == Int \X Int
SettleFrom(program, data, from, w) ==
  IF program[w].op \notin Jumps THEN <<w, w + 1>>
  ELSE IF program[w].op # "jump" => data = program[w].when THEN <<w + 1, program[w].to>>
  ELSE IF program[w].op = "branch" THEN <<w + 1, w + 2>>
  ELSE from[w + 2]

LEMMA SettleExists ==
  ASSUME NEW program \in Programs, NEW data
  PROVE  \E from : from = [w \in UserWords |-> SettleFrom(program, data, from, w)]
<1> DEFINE Solves(k) == \E from \in [UserWords -> Targets] :
              \A w \in (NumWords - k)..(NumWords - 1) : from[w] = SettleFrom(program, data, from, w)
           S == {k \in 0..NumWords : Solves(k)}
<1>0. NumWords \in Nat \ {0, 1} /\ program \in [UserWords -> Instructions] /\ WellFormed(program)
  BY ExceptionConstants
<1>1. \A w \in UserWords : program[w].op = "likely" => w + 2 \in UserWords
  BY <1>0 DEF WellFormed, UserWords, Jumps
<1>2. \A w \in UserWords : program[w].op \in {"jump", "branch", "likely"} => program[w].to \in Int
  BY <1>0 DEF Instructions, UserWords
<1>3. 0 \in S
  <2>1. [w \in UserWords |-> <<0, 0>>] \in [UserWords -> Targets]
    BY DEF Targets
  <2>2. \A w \in (NumWords - 0)..(NumWords - 1) : FALSE
    BY <1>0
  <2>3. 0 \in 0..NumWords
    BY <1>0
  <2>4. QED
    BY <2>1, <2>2, <2>3
<1>4. ASSUME NEW k \in S, k \in 0..(NumWords - 1) PROVE k + 1 \in S
  <2>1. PICK from \in [UserWords -> Targets] :
          \A w \in (NumWords - k)..(NumWords - 1) : from[w] = SettleFrom(program, data, from, w)
    BY <1>4
  <2> DEFINE v == NumWords - k - 1
             more == [from EXCEPT ![v] = SettleFrom(program, data, from, v)]
  <2>2. v \in UserWords
    BY <1>0, <1>4 DEF UserWords
  <2>3. SettleFrom(program, data, from, v) \in Targets
    BY <1>1, <1>2, <2>2 DEF SettleFrom, Targets, Jumps, UserWords
  <2>4. more \in [UserWords -> Targets]
    BY <2>3
  <2>5. \A w \in v..(NumWords - 1) : more[w] = SettleFrom(program, data, from, w)
    BY <1>0, <1>4, <2>1, <2>2, <2>4 DEF UserWords
  <2>6. \A w \in v..(NumWords - 1) : SettleFrom(program, data, more, w) = SettleFrom(program, data, from, w)
    <3> SUFFICES ASSUME NEW w \in v..(NumWords - 1)
                 PROVE  SettleFrom(program, data, more, w) = SettleFrom(program, data, from, w)
      OBVIOUS
    <3>1. w \in UserWords
      BY <1>0, <1>4 DEF UserWords
    <3>2. CASE program[w].op = "likely"
      <4>1. w + 2 \in UserWords /\ w + 2 # v
        BY <1>0, <1>1, <1>4, <3>1, <3>2 DEF UserWords
      <4>2. more[w + 2] = from[w + 2]
        BY <4>1
      <4>3. QED
        BY <4>2 DEF SettleFrom
    <3>3. CASE program[w].op # "likely"
      BY <3>3 DEF SettleFrom, Jumps
    <3>4. QED
      BY <3>2, <3>3
  <2>7. (NumWords - (k + 1)) = v /\ k + 1 \in 0..NumWords
    BY <1>0, <1>4
  <2>8. QED
    BY <2>4, <2>5, <2>6, <2>7
<1>5. NumWords \in S
  <2> HIDE DEF S
  <2>1. QED
    BY <1>0, <1>3, <1>4, UpTo
<1>6. PICK from \in [UserWords -> Targets] :
          \A w \in (NumWords - NumWords)..(NumWords - 1) : from[w] = SettleFrom(program, data, from, w)
  BY <1>5
<1>7. \A w \in UserWords : from[w] = SettleFrom(program, data, from, w)
  BY <1>0, <1>6 DEF UserWords
<1>8. from = [w \in UserWords |-> SettleFrom(program, data, from, w)]
  BY <1>7
<1>9. QED
  BY <1>8

LEMMA SettleIs ==
  ASSUME text \in Programs, NEW data, NEW w \in UserWords
  PROVE  Order!Settle(w, data) =
           IF text[w].op \notin Jumps THEN <<w, w + 1>>
           ELSE IF text[w].op # "jump" => data = text[w].when THEN <<w + 1, text[w].to>>
           ELSE IF text[w].op = "branch" THEN <<w + 1, w + 2>>
           ELSE Order!Settle(w + 2, data)
<1> DEFINE f == CHOOSE from : from = [v \in UserWords |-> SettleFrom(text, data, from, v)]
<1>0. DOMAIN text = UserWords
  BY ExceptionConstants
<1>1. f = [v \in UserWords |-> SettleFrom(text, data, f, v)]
  BY SettleExists
<1>2. \A v : Order!Settle(v, data) = f[v]
  BY <1>0 DEF Order!Settle, Order!IsBranch, Order!Taken, Order!Jumps, SettleFrom, Jumps
<1> HIDE DEF f
<1>3. f[w] = SettleFrom(text, data, f, w)
  BY <1>1
<1>4. QED
  BY <1>2, <1>3 DEF SettleFrom

(***************************************************************************)
(* Words and pages.                                                        *)
(***************************************************************************)
Reached  == 0..(NumWords - 2)
Handlers == Words \ UserWords

LEMMA ReachedWords ==
  /\ NumWords \in Nat \ {0, 1} /\ Reached \subseteq UserWords /\ UserWords \subseteq Words
  /\ UserWords = Reached \cup {NumWords - 1} /\ Words \subseteq Nat /\ Nowhere \notin Words
  /\ Handlers = {RefillVector, RefillVector + 1, RefillVector + 2, CommonVector, CommonVector + 1}
  /\ RefillVector \in Nat /\ CommonVector = RefillVector + 3
  BY ExceptionConstants DEF Reached, UserWords, Words, Handlers, RefillVector, CommonVector, Nowhere

LEMMA PageRises ==
  ASSUME NEW w \in Nat \ {0}, NEW x \in Nat, NEW y \in Nat, x <= y
  PROVE  x \div w \in Nat /\ x \div w <= y \div w
<1> DEFINE q == x \div w
           p == y \div w
           s == x % w
           t == y % w
<1>1. q \in Int /\ s \in 0..(w - 1) /\ x = w * q + s /\ p \in Int /\ t \in 0..(w - 1) /\ y = w * p + t
  BY SMTT(30)
<1> HIDE DEF q, p, s, t
<1>2. q >= 0 /\ q <= p
  <2>1. CASE q < 0
    <3>1. w * q <= -w
      BY <1>1, <2>1, SMTT(30)
    <3>2. QED
      BY <1>1, <3>1
  <2>2. CASE q >= p + 1
    <3>1. w * q >= w * p + w
      BY <1>1, <2>2, SMTT(30)
    <3>2. QED
      BY <1>1, <3>1
  <2>3. QED
    BY <1>1, <2>1, <2>2
<1>3. QED
  BY <1>1, <1>2 DEF q, p

LEMMA UserPages ==
  /\ TablePage \in Pages
  /\ \A w \in UserWords : PageOf(w) \in Pages
<1>1. NumWords - 1 \in Nat /\ PageWords \in Nat \ {0}
  BY ExceptionConstants
<1>2. PageOf(NumWords - 1) \in Nat
  BY <1>1, PageRises DEF PageOf
<1>3. \A w \in UserWords : PageOf(w) \in Nat /\ PageOf(w) <= PageOf(NumWords - 1)
  BY <1>1, PageRises DEF PageOf, UserWords
<1>4. QED
  BY <1>2, <1>3 DEF Pages, TablePage

(***************************************************************************)
(* Instructions of the program and of the handlers.                        *)
(***************************************************************************)
LEMMA ProgramInstructions ==
  ASSUME text \in Programs, NEW w \in UserWords
  PROVE  /\ Instruction(w) = text[w] /\ Instruction(w) \in Instructions
         /\ Instruction(w).op \in {"work", "fpu", "load", "jump", "branch", "likely"}
         /\ ~ IsEret(w)
         /\ Instruction(w).op = "load" => Instruction(w).page \in Pages
         /\ w = NumWords - 1 => Instruction(w).op \in {"work", "load"}
<1>1. Instruction(w) = text[w]
  BY ReachedWords DEF Instruction, Handlers
<1>2. text \in [UserWords -> Instructions] /\ WellFormed(text)
  BY ExceptionConstants
<1>3. text[w] \in Instructions
  BY <1>2
<1>4. QED
  BY <1>1, <1>2, <1>3 DEF Instructions, IsEret, WellFormed

\* Where control goes from a word that is not the program's last.
LEMMA ProgramFlow ==
  ASSUME text \in Programs, NEW w \in Reached
  PROVE  /\ w \in UserWords /\ w + 1 \in UserWords
         /\ ~ IsBranch(w) => w + 1 \in Reached
         /\ IsBranch(w) => Instruction(w).to \in Reached /\ ~ IsBranch(w + 1)
         /\ IsBranch(w) /\ Instruction(w).op # "jump" => w + 2 \in Reached /\ w + 1 \in Reached
<1>1. text \in [UserWords -> Instructions] /\ WellFormed(text) /\ NumWords \in Nat \ {0, 1}
  BY ExceptionConstants
<1>2. w \in UserWords /\ w + 1 \in UserWords
  BY <1>1 DEF Reached, UserWords
<1>3. Instruction(w) = text[w] /\ text[w] \in Instructions /\ Instruction(w + 1) = text[w + 1]
  BY <1>2, ProgramInstructions
<1>4. IsBranch(w) => text[w].to \in UserWords
  BY <1>3 DEF IsBranch, Jumps, Instructions
<1>5. IsBranch(w) => text[w].to # NumWords - 1 /\ ~ IsBranch(w + 1)
  BY <1>1, <1>3 DEF IsBranch, WellFormed, Reached
<1>6. w = NumWords - 2 => text[w].op = "jump"
  BY <1>1 DEF WellFormed
<1>7. w = NumWords - 3 => IsBranch(w + 1)
  BY <1>1, <1>3 DEF WellFormed, IsBranch, Jumps
<1>8. QED
  BY <1>1, <1>2, <1>3, <1>4, <1>5, <1>6, <1>7 DEF Reached, UserWords, IsBranch, Jumps

LEMMA HandlerInstructions ==
  /\ Instruction(RefillVector) = [op |-> "load", page |-> TablePage]
  /\ Instruction(RefillVector + 1) = [op |-> "fill"]
  /\ Instruction(RefillVector + 2) = [op |-> "eret"]
  /\ Instruction(CommonVector) = [op |-> "repair"]
  /\ Instruction(CommonVector + 1) = [op |-> "eret"]
  BY ReachedWords DEF Instruction, UserWords, RefillVector, CommonVector

LEMMA HandlerFlow ==
  ASSUME NEW w \in Handlers
  PROVE  /\ ~ IsBranch(w) /\ Instruction(w).op \notin {"work", "fpu", "jump", "branch", "likely"}
         /\ ~ EndOfPage(w) /\ w \notin UserWords /\ Mapped(w)
         /\ ~ IsEret(w) => w + 1 \in Handlers
         /\ Instruction(w).op = "load" => Instruction(w).page \in Pages
<1>1. w \notin UserWords
  BY DEF Handlers
<1>2. \/ w = RefillVector /\ Instruction(w).op = "load" /\ Instruction(w).page = TablePage
      \/ w = RefillVector + 1 /\ Instruction(w).op = "fill"
      \/ w = RefillVector + 2 /\ Instruction(w).op = "eret"
      \/ w = CommonVector /\ Instruction(w).op = "repair"
      \/ w = CommonVector + 1 /\ Instruction(w).op = "eret"
  BY HandlerInstructions, ReachedWords
<1>3. ~ IsEret(w) => w + 1 \in Handlers
  BY <1>2, ReachedWords DEF IsEret
<1>4. QED
  BY <1>1, <1>2, <1>3, UserPages DEF IsBranch, Jumps, EndOfPage, Mapped

(***************************************************************************)
(* The inductive invariant, one part for each way an instruction can be    *)
(* under way: in a handler, in a delay slot of the interpreter, between    *)
(* instructions or blocks, and in a compiled block.                        *)
(***************************************************************************)
InHandler == exl =>
  /\ epc \in Reached /\ exception_code # "none" /\ ~ pc_set
  /\ at = Nowhere => next_pc = pc + 1
  /\ at # Nowhere => at \in Handlers

InSlot == ~ exl /\ at = Nowhere /\ branch =>
  /\ pc - 1 \in Reached /\ IsBranch(pc - 1)
  /\ Instruction(pc - 1).op = "likely" => Taken(pc - 1)
  /\ next_pc = IF Taken(pc - 1) THEN Instruction(pc - 1).to ELSE pc + 1

Between == ~ exl /\ at = Nowhere =>
  /\ ~ pc_set
  /\ ~ branch => pc \in Reached /\ next_pc = pc + 1

InBlock == ~ exl /\ at # Nowhere =>
  /\ next_pc = pc + 1
  /\ pc_set => at - 1 \in Reached /\ IsBranch(at - 1) /\ pc \in Reached
  /\ ~ pc_set => /\ at \in Reached /\ pc <= at /\ PageOf(pc) = PageOf(at)
                 /\ \A w \in pc..(at - 1) : ~ IsBranch(w)
                 /\ ~ EndsInBranch(pc)

ExcInv == TypeOK /\ InHandler /\ InSlot /\ Between /\ InBlock

\* What stands in a slot is no branch, and what follows a slot is reached.
LEMMA SlotFlow ==
  ASSUME ExcInv, ~ exl
  PROVE  /\ at = Nowhere /\ branch => pc \in UserWords /\ ~ IsBranch(pc) /\ next_pc \in Reached
         /\ at # Nowhere /\ pc_set => at \in UserWords /\ ~ IsBranch(at)
<1>1. text \in Programs
  BY DEF ExcInv, TypeOK
<1>2. ASSUME at = Nowhere, branch
      PROVE  pc \in UserWords /\ ~ IsBranch(pc) /\ next_pc \in Reached
  <2>1. pc - 1 \in Reached /\ IsBranch(pc - 1) /\ pc \in UserWords
    BY <1>2 DEF ExcInv, InSlot, TypeOK
  <2>2. Taken(pc - 1) \/ Instruction(pc - 1).op # "jump"
    BY DEF Taken
  <2>3. pc \in Int /\ (pc - 1) + 1 = pc /\ (pc - 1) + 2 = pc + 1
    BY <2>1, ReachedWords
  <2>4. QED
    BY <1>1, <1>2, <2>1, <2>2, <2>3, ProgramFlow DEF ExcInv, InSlot
<1>3. ASSUME at # Nowhere, pc_set PROVE at \in UserWords /\ ~ IsBranch(at)
  <2>1. at - 1 \in Reached /\ IsBranch(at - 1) /\ at \in Words
    BY <1>3 DEF ExcInv, InBlock, TypeOK
  <2>2. (at - 1) + 1 = at
    BY <2>1, ReachedWords
  <2>3. QED
    BY <1>1, <2>1, <2>2, ProgramFlow
<1>4. QED
  BY <1>2, <1>3

\* An exception at w enters a handler; EPC is reached if w, or the branch before
\* it, is.
LEMMA HandlingKeeps ==
  ASSUME ExcInv, NEW w, NEW exception \in {"tlb", "coprocessor", "interrupt"}, NEW error,
         HandleException(w, exception, error),
         exl \/ (IF prev_branch' THEN w - 1 ELSE w) \in Reached,
         UNCHANGED <<text, use_interpreter>>, at' = Nowhere, ~ pc_set',
         branch' \in BOOLEAN, prev_branch' \in BOOLEAN, pc_set' \in BOOLEAN,
         panicked' \in BOOLEAN, bad_page' \in Pages, interrupts' \in 0..MaxInterrupts
  PROVE  ExcInv'
<1>1. exl' = TRUE /\ exception_code' = exception /\ UNCHANGED <<cu1, tlb, work>>
  BY DEF HandleException
<1>2. pc' \in Handlers /\ next_pc' = pc' + 1
  BY ReachedWords DEF HandleException, SetPc, Vector
<1>3. epc' \in Reached /\ branch_delay' \in BOOLEAN
  BY DEF HandleException, SaveEpc, ExcInv, TypeOK, InHandler
<1>4. TypeOK'
  BY <1>1, <1>2, <1>3, ReachedWords DEF ExcInv, TypeOK, Handlers
<1>5. QED
  BY <1>1, <1>2, <1>3, <1>4 DEF ExcInv, InHandler, InSlot, Between, InBlock

\* What an instruction does apart from the program counter.
LEMMA EffectOfProgram ==
  ASSUME text \in Programs, NEW w \in UserWords, Effect(w)
  PROVE  work' = 1 - work /\ UNCHANGED <<exl, cu1, tlb>>
<1>1. w # RefillVector /\ ~ IsEret(w) /\ Instruction(w).op \notin {"fill", "repair"}
  BY ProgramInstructions, ReachedWords DEF UserWords, RefillVector
<1>2. QED
  BY <1>1 DEF Effect

LEMMA EffectOfHandler ==
  ASSUME ExcInv, exl, NEW w \in Handlers, Effect(w)
  PROVE  /\ work' = work /\ exl' = ~ IsEret(w)
         /\ cu1' \in BOOLEAN /\ tlb' \in [Pages -> {"miss", "invalid", "valid"}]
<1>1. /\ w \notin UserWords /\ cu1 \in BOOLEAN /\ tlb \in [Pages -> {"miss", "invalid", "valid"}]
      /\ bad_page \in Pages /\ exl = TRUE
      /\ exception_code \in {"tlb", "coprocessor", "interrupt"}
  BY HandlerFlow DEF ExcInv, TypeOK, InHandler
<1>2. CASE w = RefillVector /\ UNCHANGED machine
  <2>1. UNCHANGED <<exl, cu1, tlb, work>>
    BY <1>2 DEF machine
  <2>2. ~ IsEret(w)
    BY <1>2, HandlerInstructions DEF IsEret
  <2>3. QED
    BY <1>1, <2>1, <2>2
<1>3. ASSUME Instruction(w).op = "fill", NEW entry \in {"valid", "invalid"},
             tlb' = [tlb EXCEPT ![bad_page] = entry], UNCHANGED <<exl, cu1, work>>
      PROVE  /\ work' = work /\ exl' = ~ IsEret(w)
             /\ cu1' \in BOOLEAN /\ tlb' \in [Pages -> {"miss", "invalid", "valid"}]
  BY <1>1, <1>3 DEF IsEret
<1>4. CASE Instruction(w).op = "repair" /\ Repair /\ UNCHANGED <<exl, work>>
  <2>1. exl' = ~ IsEret(w) /\ work' = work
    BY <1>1, <1>4 DEF IsEret
  <2>2. CASE exception_code = "tlb"
    BY <1>1, <1>4, <2>1, <2>2 DEF Repair
  <2>3. CASE exception_code = "coprocessor"
    BY <1>1, <1>4, <2>1, <2>3 DEF Repair
  <2>4. CASE exception_code = "interrupt"
    <3>1. PICK taken \in SUBSET Pages, keep \in BOOLEAN :
            /\ tlb' = [p \in Pages |-> IF p \in taken THEN "miss" ELSE tlb[p]]
            /\ cu1' = (cu1 /\ keep)
      BY <1>4, <2>4 DEF Repair
    <3>2. QED
      BY <1>1, <2>1, <3>1
  <2>5. QED
    BY <1>1, <2>2, <2>3, <2>4
<1>5. CASE IsEret(w) /\ exl' = FALSE /\ UNCHANGED <<cu1, tlb, work>>
  BY <1>1, <1>5
<1>6. QED
  BY <1>1, <1>2, <1>3, <1>4, <1>5 DEF Effect

LEMMA InitExc == CpuInit => ExcInv
<1> SUFFICES ASSUME CpuInit PROVE ExcInv
  OBVIOUS
<1>1. 0 \in Reached /\ 0 \in UserWords /\ 0 \in Pages /\ MaxInterrupts \in Nat
  BY ExceptionConstants, UserPages DEF Reached, UserWords, PageOf, Pages, TablePage
<1>2. tlb \in [Pages -> {"miss", "invalid", "valid"}]
  BY DEF CpuInit
<1>3. TypeOK
  <2>1. /\ text \in Programs /\ use_interpreter \in BOOLEAN /\ pc = 0
        /\ branch = FALSE /\ prev_branch = FALSE /\ exl = FALSE /\ cu1 = FALSE
        /\ epc = Nowhere /\ branch_delay = FALSE /\ exception_code = "none" /\ bad_page = 0
        /\ at = Nowhere /\ pc_set = FALSE /\ panicked = FALSE /\ work = 0 /\ interrupts = 0
    BY DEF CpuInit
  <2>2. /\ text \in Programs /\ use_interpreter \in BOOLEAN /\ pc \in UserWords /\ ~ exl
        /\ branch \in BOOLEAN /\ prev_branch \in BOOLEAN /\ exl \in BOOLEAN /\ cu1 \in BOOLEAN
        /\ epc \in UserWords \cup {Nowhere} /\ branch_delay \in BOOLEAN
        /\ exception_code \in {"none", "tlb", "coprocessor", "interrupt"} /\ bad_page \in Pages
        /\ at \in Words \cup {Nowhere} /\ pc_set \in BOOLEAN /\ panicked \in BOOLEAN
    BY <1>1, <2>1
  <2>3. work \in {0, 1} /\ interrupts \in 0..MaxInterrupts
    BY <1>1, <2>1
  <2>4. QED
    BY <1>2, <2>1, <2>2, <2>3 DEF TypeOK
<1>4. QED
  BY <1>1, <1>3 DEF CpuInit, ExcInv, InHandler, InSlot, Between, InBlock

\* Where the interpreter stands.
LEMMA Standing ==
  ASSUME ExcInv, at = Nowhere
  PROVE  /\ exl => pc \in Handlers
         /\ ~ exl => pc \in UserWords /\ (IF branch THEN pc - 1 ELSE pc) \in Reached
         /\ ~ pc_set
  BY DEF ExcInv, TypeOK, Handlers, InHandler, InSlot, Between

LEMMA FetchFaultKeeps == ASSUME ExcInv, FetchFault PROVE ExcInv'
<1>1. /\ at = Nowhere /\ prev_branch' = branch /\ branch' = FALSE /\ ~ Mapped(pc)
      /\ bad_page' = PageOf(pc) /\ HandleException(pc, "tlb", tlb[PageOf(pc)])
      /\ UNCHANGED <<text, use_interpreter, at, pc_set, panicked, interrupts>>
  BY DEF FetchFault, Step, Miss, block
<1>2. PageOf(pc) \in Pages /\ ~ exl
  BY <1>1, Standing, HandlerFlow, UserPages DEF Mapped
<1>3. QED
  BY <1>1, <1>2, Standing, HandlingKeeps DEF ExcInv, TypeOK

LEMMA InterpretTrapKeeps == ASSUME ExcInv, InterpretTrap PROVE ExcInv'
<1>1. /\ at = Nowhere /\ prev_branch' = branch /\ branch' = FALSE /\ Trap(pc)
      /\ UNCHANGED <<text, use_interpreter, at, pc_set, panicked, interrupts>>
  BY DEF InterpretTrap, Step, block
<1>2. exl \/ (IF prev_branch' THEN pc - 1 ELSE pc) \in Reached
  BY <1>1, Standing
<1>3. CASE LacksUnit(pc) /\ HandleException(pc, "coprocessor", "none") /\ UNCHANGED bad_page
  BY <1>1, <1>2, <1>3, Standing, HandlingKeeps DEF ExcInv, TypeOK
<1>4. CASE LacksPage(pc) /\ Miss(pc, Instruction(pc).page)
  <2>1. Instruction(pc).page \in Pages
    BY <1>1, <1>4, Standing, ProgramInstructions, HandlerFlow DEF LacksPage, ExcInv, TypeOK
  <2>2. bad_page' \in Pages /\ HandleException(pc, "tlb", tlb[Instruction(pc).page])
    BY <1>4, <2>1 DEF Miss
  <2>3. QED
    BY <1>1, <1>2, <2>2, Standing, HandlingKeeps DEF ExcInv, TypeOK
<1>5. QED
  BY <1>1, <1>3, <1>4 DEF Trap

LEMMA InterruptKeeps == ASSUME ExcInv, Interrupt PROVE ExcInv'
<1>1. /\ at = Nowhere /\ ~ exl /\ interrupts < MaxInterrupts /\ interrupts' = interrupts + 1
      /\ prev_branch' = branch /\ HandleException(pc, "interrupt", "none")
      /\ UNCHANGED <<text, use_interpreter, branch, bad_page, at, pc_set, panicked>>
  BY DEF Interrupt, BetweenBlocks, block
<1>2. interrupts' \in 0..MaxInterrupts
  BY <1>1, ExceptionConstants DEF ExcInv, TypeOK
<1>3. QED
  BY <1>1, <1>2, Standing, HandlingKeeps DEF ExcInv, TypeOK

LEMMA CompiledTrapKeeps == ASSUME ExcInv, CompiledTrap PROVE ExcInv'
<1>1. /\ at # Nowhere /\ LacksUnit(at) /\ HandleException(at, "coprocessor", "none")
      /\ at' = Nowhere /\ pc_set' = FALSE
      /\ UNCHANGED <<text, use_interpreter, branch, prev_branch, interrupts, bad_page, panicked>>
  BY DEF CompiledTrap, Compiled, Leave
<1>2. ~ prev_branch /\ text \in Programs
  BY <1>1 DEF ExcInv, TypeOK
<1>3. ~ exl => at \in Reached
  <2>1. CASE ~ exl /\ pc_set
    <3>1. at \in UserWords
      BY <1>1, <2>1, SlotFlow
    <3>2. at # NumWords - 1
      BY <1>1, <1>2, <3>1, ProgramInstructions DEF LacksUnit
    <3>3. QED
      BY <3>1, <3>2, ReachedWords
  <2>2. CASE ~ exl /\ ~ pc_set
    BY <1>1, <2>2 DEF ExcInv, InBlock
  <2>3. QED
    BY <2>1, <2>2
<1>4. QED
  BY <1>1, <1>2, <1>3, HandlingKeeps DEF ExcInv, TypeOK

LEMMA InterpretBranchKeeps == ASSUME ExcInv, InterpretBranch PROVE ExcInv'
<1>1. /\ at = Nowhere /\ IsBranch(pc) /\ (Instruction(pc).op = "likely" => Taken(pc))
      /\ prev_branch' = branch /\ branch' = TRUE /\ pc' = next_pc
      /\ next_pc' = IF Taken(pc) THEN Instruction(pc).to ELSE next_pc + 1
      /\ UNCHANGED <<text, use_interpreter, at, pc_set, panicked, interrupts, cause, bad_page, machine>>
  BY DEF InterpretBranch, Step, block
<1>2. ~ exl /\ ~ branch /\ pc \in Reached /\ next_pc = pc + 1 /\ pc + 1 \in UserWords /\ ~ pc_set
  BY <1>1, Standing, HandlerFlow, SlotFlow, ProgramFlow DEF ExcInv, Between, TypeOK
<1>3. TypeOK'
  BY <1>1, <1>2 DEF ExcInv, TypeOK, cause, machine, Mapped, Instruction
<1>4. pc' - 1 = pc /\ pc' + 1 = next_pc + 1
  BY <1>1, <1>2, ReachedWords
<1>5. InSlot'
  <2>1. Instruction(pc - 1)' = Instruction(pc)
    BY <1>1, <1>4 DEF Instruction
  <2>2. (IsBranch(pc - 1))' /\ ((Taken(pc - 1))' <=> Taken(pc))
    BY <1>1, <2>1 DEF IsBranch, Taken, machine
  <2>3. QED
    BY <1>1, <1>2, <1>4, <2>1, <2>2 DEF InSlot
<1>6. QED
  BY <1>1, <1>2, <1>3, <1>5 DEF ExcInv, InHandler, Between, InBlock, machine

LEMMA InterpretSkipKeeps == ASSUME ExcInv, InterpretSkip PROVE ExcInv'
<1>1. /\ at = Nowhere /\ Instruction(pc).op = "likely"
      /\ prev_branch' = branch /\ branch' = FALSE /\ pc' = next_pc + 1 /\ next_pc' = next_pc + 1 + 1
      /\ UNCHANGED <<text, use_interpreter, at, pc_set, panicked, interrupts, cause, bad_page, machine>>
  BY DEF InterpretSkip, Step, block, SetPc
<1>2. IsBranch(pc)
  BY <1>1 DEF IsBranch, Jumps
<1>3. ~ exl /\ ~ branch /\ pc \in Reached /\ next_pc = pc + 1 /\ pc + 2 \in Reached /\ ~ pc_set
  BY <1>1, <1>2, Standing, HandlerFlow, SlotFlow, ProgramFlow DEF ExcInv, Between, TypeOK
<1>4. pc' = pc + 2 /\ next_pc' = pc' + 1 /\ pc' \in UserWords
  BY <1>1, <1>3, ReachedWords
<1>5. TypeOK'
  BY <1>1, <1>3, <1>4 DEF ExcInv, TypeOK, cause, machine, Mapped
<1>6. QED
  BY <1>1, <1>3, <1>4, <1>5 DEF ExcInv, InHandler, InSlot, Between, InBlock, machine

LEMMA InterpretPlainKeeps == ASSUME ExcInv, InterpretPlain PROVE ExcInv'
<1>1. /\ at = Nowhere /\ ~ IsBranch(pc) /\ Effect(pc)
      /\ prev_branch' = branch /\ branch' = FALSE
      /\ IF IsEret(pc) THEN pc' = epc /\ next_pc' = epc + 1
                       ELSE pc' = next_pc /\ next_pc' = next_pc + 1
      /\ UNCHANGED <<text, use_interpreter, at, pc_set, panicked, interrupts, cause, bad_page>>
  BY DEF InterpretPlain, Step, block, SetPc
<1>2. text \in Programs /\ ~ pc_set
  BY <1>1, Standing DEF ExcInv, TypeOK
<1>3. CASE exl
  <2>1. pc \in Handlers /\ next_pc = pc + 1 /\ epc \in Reached /\ exception_code # "none"
    BY <1>1, <1>3, Standing DEF ExcInv, InHandler
  <2>2. /\ work' = work /\ exl' = ~ IsEret(pc)
        /\ cu1' \in BOOLEAN /\ tlb' \in [Pages -> {"miss", "invalid", "valid"}]
    BY <1>1, <1>3, <2>1, EffectOfHandler
  <2>3. pc' \in (IF exl' THEN Handlers ELSE Reached) /\ next_pc' = pc' + 1
    BY <1>1, <2>1, <2>2, HandlerFlow
  <2>4. TypeOK'
    BY <1>1, <2>2, <2>3, ReachedWords DEF ExcInv, TypeOK, cause, Handlers
  <2>5. QED
    BY <1>1, <1>2, <2>1, <2>3, <2>4 DEF ExcInv, InHandler, InSlot, Between, InBlock, cause
<1>4. CASE ~ exl
  <2>1. pc \in UserWords /\ ~ IsEret(pc) /\ work' = 1 - work /\ UNCHANGED <<exl, cu1, tlb>>
    BY <1>1, <1>2, <1>4, Standing, ProgramInstructions, EffectOfProgram
  <2>2. next_pc \in Reached
    BY <1>1, <1>2, <1>4, SlotFlow, ProgramFlow DEF ExcInv, Between
  <2>3. pc' \in Reached /\ pc' \in UserWords /\ next_pc' = pc' + 1
    BY <1>1, <2>1, <2>2, ReachedWords
  <2>4. work' \in {0, 1}
    BY <2>1 DEF ExcInv, TypeOK
  <2>5. TypeOK'
    BY <1>1, <1>4, <2>1, <2>3, <2>4 DEF ExcInv, TypeOK, cause
  <2>6. QED
    BY <1>1, <1>2, <1>4, <2>1, <2>3, <2>5 DEF ExcInv, InHandler, InSlot, Between, InBlock
<1>5. QED
  BY <1>3, <1>4

LEMMA EnterBlockKeeps == ASSUME ExcInv, EnterBlock PROVE ExcInv'
<1>1. /\ at = Nowhere /\ Mapped(pc) /\ ~ Interpreted
      /\ at' = pc /\ pc_set' = FALSE /\ prev_branch' = FALSE
      /\ UNCHANGED <<text, use_interpreter, pc, next_pc, branch, cause, bad_page, machine, panicked, interrupts>>
  BY DEF EnterBlock, BetweenBlocks, pcs
<1>2. ~ use_interpreter /\ ~ branch /\ ~ EndsInBranch(pc)
  BY <1>1 DEF Interpreted
<1>3. ~ pc_set /\ pc \in Words /\ pc # Nowhere
  BY <1>1, Standing, ReachedWords DEF Handlers
<1>4. (Mapped(at))'
  BY <1>1 DEF Mapped, machine
<1>5. TypeOK'
  BY <1>1, <1>2, <1>3, <1>4 DEF ExcInv, TypeOK, cause, machine
<1>6. CASE exl
  BY <1>1, <1>3, <1>5, <1>6, Standing DEF ExcInv, InHandler, InSlot, Between, InBlock, cause, machine
<1>7. CASE ~ exl
  <2>1. pc \in Reached /\ next_pc = pc + 1
    BY <1>1, <1>2, <1>7 DEF ExcInv, Between
  <2>2. (EndsInBranch(pc))' <=> EndsInBranch(pc)
    BY <1>1 DEF EndsInBranch, IsBranch, Instruction
  <2>3. \A w \in pc..(pc - 1) : FALSE
    BY <2>1, ReachedWords
  <2>4. pc <= pc
    BY <2>1, ReachedWords
  <2>5. InBlock'
    BY <1>1, <1>2, <2>1, <2>2, <2>3, <2>4 DEF InBlock
  <2>6. QED
    BY <1>1, <1>3, <1>5, <1>7, <2>5 DEF ExcInv, InHandler, InSlot, Between, cause, machine
<1>8. QED
  BY <1>6, <1>7

LEMMA CompiledPanicKeeps == ASSUME ExcInv, CompiledPanic PROVE ExcInv'
<1>1. /\ panicked' = TRUE
      /\ UNCHANGED <<text, use_interpreter, branch, prev_branch, interrupts, pc, next_pc,
                     epc, branch_delay, exception_code, bad_page, exl, cu1, tlb, work, at, pc_set>>
  BY DEF CompiledPanic, Compiled, pcs, cause, machine, block
<1>2. TypeOK'
  BY <1>1 DEF ExcInv, TypeOK, Mapped
<1>3. InHandler' /\ InSlot' /\ Between'
  BY <1>1 DEF ExcInv, InHandler, InSlot, Between, IsBranch, Taken, Instruction
<1>4. InBlock'
  BY <1>1 DEF ExcInv, InBlock, IsBranch, Instruction, EndsInBranch
<1>5. QED
  BY <1>2, <1>3, <1>4 DEF ExcInv

\* A block that has come to the end of its page has not met a branch there.
LEMMA NoBranchAtTheEnd ==
  ASSUME ExcInv, ~ exl, at # Nowhere, ~ pc_set, IsBranch(at)
  PROVE  ~ EndOfPage(at)
<1>1. /\ at \in UserWords /\ pc <= at /\ PageOf(pc) = PageOf(at)
      /\ \A w \in pc..(at - 1) : ~ IsBranch(w)
      /\ ~ EndsInBranch(pc)
  BY ReachedWords DEF ExcInv, InBlock
<1>2. QED
  BY <1>1 DEF EndsInBranch

LEMMA CompiledBranchKeeps == ASSUME ExcInv, CompiledBranch PROVE ExcInv'
<1>1. /\ at # Nowhere /\ IsBranch(at)
      /\ pc' = (IF Taken(at) THEN Instruction(at).to ELSE at + 2) /\ next_pc' = pc' + 1
      /\ IF Instruction(at).op = "likely" => Taken(at)
           THEN at' = at + 1 /\ pc_set' = TRUE
           ELSE at' = Nowhere /\ pc_set' = FALSE
      /\ UNCHANGED <<text, use_interpreter, branch, prev_branch, interrupts, cause, bad_page, machine, panicked>>
  BY DEF CompiledBranch, Compiled, SetPc, Leave
<1>2. ~ use_interpreter /\ ~ branch /\ ~ prev_branch /\ Mapped(at) /\ text \in Programs
  BY <1>1 DEF ExcInv, TypeOK
<1>3. ~ exl /\ ~ pc_set /\ at \in Reached
  BY <1>1, <1>2, HandlerFlow, SlotFlow DEF ExcInv, InHandler, InBlock
<1>4. at \in UserWords /\ at + 1 \in UserWords /\ at + 1 \in Words /\ at + 1 # Nowhere /\ (at + 1) - 1 = at
  BY <1>2, <1>3, ProgramFlow, ReachedWords
<1>5. pc' \in Reached /\ pc' \in UserWords
  BY <1>1, <1>2, <1>3, ProgramFlow, ReachedWords DEF Taken
<1>6. PageOf(at + 1) = PageOf(at)
  BY <1>1, <1>3, <1>4, NoBranchAtTheEnd DEF EndOfPage
<1>7. at' # Nowhere => (Mapped(at))'
  BY <1>1, <1>2, <1>4, <1>6 DEF Mapped, machine
<1>8. TypeOK'
  BY <1>1, <1>2, <1>3, <1>4, <1>5, <1>7 DEF ExcInv, TypeOK, cause, machine
<1>9. at' # Nowhere => (at - 1 \in Reached /\ IsBranch(at - 1))'
  <2>1. SUFFICES ASSUME at' # Nowhere PROVE at' - 1 \in Reached /\ (IsBranch(at - 1))'
    OBVIOUS
  <2>2. at' - 1 = at
    BY <1>1, <1>4, <2>1
  <2>3. QED
    BY <1>1, <1>3, <2>2 DEF IsBranch, Instruction
<1>10. exl' = exl /\ next_pc' = pc' + 1 /\ UNCHANGED branch
  BY <1>1 DEF machine
<1>11. CASE at' = Nowhere
  <2>1. pc_set' = FALSE
    BY <1>1, <1>4, <1>11
  <2>2. QED
    BY <1>2, <1>3, <1>5, <1>8, <1>10, <1>11, <2>1 DEF ExcInv, InHandler, InSlot, Between, InBlock
<1>12. CASE at' # Nowhere
  <2>1. pc_set' = TRUE
    BY <1>1, <1>12
  <2>2. QED
    BY <1>3, <1>5, <1>8, <1>9, <1>10, <1>12, <2>1 DEF ExcInv, InHandler, InSlot, Between, InBlock
<1>13. QED
  BY <1>11, <1>12

LEMMA CompiledPlainKeeps == ASSUME ExcInv, CompiledPlain PROVE ExcInv'
<1>1. /\ at # Nowhere /\ ~ IsBranch(at) /\ Effect(at)
      /\ IF IsEret(at) \/ pc_set \/ EndOfPage(at)
           THEN at' = Nowhere /\ pc_set' = FALSE
           ELSE at' = at + 1 /\ pc_set' = pc_set
      /\ \/ IsEret(at) /\ pc' = epc /\ next_pc' = epc + 1
         \/ EndOfPage(at) /\ ~ pc_set /\ pc' = at + 1 /\ next_pc' = at + 1 + 1
         \/ ~ IsEret(at) /\ (pc_set \/ ~ EndOfPage(at)) /\ pc' = pc /\ next_pc' = next_pc
      /\ UNCHANGED <<text, use_interpreter, branch, prev_branch, interrupts, cause, bad_page, panicked>>
  BY DEF CompiledPlain, Compiled, SetPc, Leave, pcs
<1>2. ~ use_interpreter /\ ~ branch /\ ~ prev_branch /\ Mapped(at) /\ text \in Programs
  BY <1>1 DEF ExcInv, TypeOK
<1>3. CASE exl
  <2>1. at \in Handlers /\ ~ EndOfPage(at) /\ epc \in Reached /\ exception_code # "none" /\ ~ pc_set
    BY <1>1, <1>3, HandlerFlow DEF ExcInv, InHandler
  <2>2. /\ work' = work /\ exl' = ~ IsEret(at)
        /\ cu1' \in BOOLEAN /\ tlb' \in [Pages -> {"miss", "invalid", "valid"}]
    BY <1>1, <1>3, <2>1, EffectOfHandler
  <2>3. CASE IsEret(at)
    <3>1. /\ exl' = FALSE /\ pc' = epc /\ next_pc' = epc + 1 /\ at' = Nowhere /\ pc_set' = FALSE
          /\ pc' \in UserWords
      BY <1>1, <2>1, <2>2, <2>3, ReachedWords
    <3>2. TypeOK'
      BY <1>1, <2>2, <3>1 DEF ExcInv, TypeOK, cause
    <3>3. QED
      BY <1>1, <1>2, <2>1, <3>1, <3>2 DEF ExcInv, InHandler, InSlot, Between, InBlock
  <2>4. CASE ~ IsEret(at)
    <3>0. exl' = TRUE
      BY <2>2, <2>4
    <3>1. exl' = TRUE /\ pc' = pc /\ next_pc' = next_pc /\ at' = at + 1 /\ pc_set' = pc_set
      BY <1>1, <2>1, <2>4, <3>0
    <3>2. at' \in Handlers /\ at' \in Words /\ at' # Nowhere
      BY <2>1, <2>4, <3>1, HandlerFlow, ReachedWords DEF Handlers
    <3>3. (Mapped(at))'
      BY <3>2 DEF Mapped, Handlers
    <3>4. TypeOK'
      BY <1>1, <1>2, <1>3, <2>2, <3>1, <3>2, <3>3 DEF ExcInv, TypeOK, cause
    <3>5. QED
      BY <1>1, <2>1, <3>1, <3>2, <3>4 DEF ExcInv, InHandler, InSlot, Between, InBlock, cause
  <2>5. QED
    BY <2>3, <2>4
<1>4. CASE ~ exl
  <2>1. at \in UserWords /\ (~ pc_set => at \in Reached) /\ next_pc = pc + 1
    BY <1>1, <1>4, SlotFlow, ReachedWords DEF ExcInv, InBlock
  <2>2. ~ IsEret(at) /\ work' = 1 - work /\ UNCHANGED <<exl, cu1, tlb>>
    BY <1>1, <1>2, <2>1, ProgramInstructions, EffectOfProgram
  <2>3. work' \in {0, 1} /\ pc \in UserWords
    BY <1>4, <2>2 DEF ExcInv, TypeOK
  <2>4. ~ pc_set => at + 1 \in Reached /\ at + 1 \in UserWords
    BY <1>1, <1>2, <2>1, ProgramFlow, ReachedWords
  <2>5. CASE pc_set \/ EndOfPage(at)
    <3>1. /\ at' = Nowhere /\ pc_set' = FALSE
          /\ pc' \in Reached /\ pc' \in UserWords /\ next_pc' = pc' + 1
      <4>1. CASE pc_set
        BY <1>1, <1>4, <2>1, <2>2, <4>1, ReachedWords DEF ExcInv, InBlock
      <4>2. CASE ~ pc_set
        BY <1>1, <2>2, <2>4, <2>5, <4>2
      <4>3. QED
        BY <4>1, <4>2
    <3>2. TypeOK'
      BY <1>1, <1>4, <2>2, <2>3, <3>1 DEF ExcInv, TypeOK, cause
    <3>3. QED
      BY <1>1, <1>2, <1>4, <2>2, <3>1, <3>2 DEF ExcInv, InHandler, InSlot, Between, InBlock
  <2>6. CASE ~ pc_set /\ ~ EndOfPage(at)
    <3>1. at' = at + 1 /\ pc_set' = FALSE /\ pc' = pc /\ next_pc' = next_pc
      BY <1>1, <2>2, <2>6
    <3>2. PageOf(at + 1) = PageOf(at)
      BY <2>1, <2>6 DEF EndOfPage
    <3>3. at + 1 \in Words /\ at + 1 # Nowhere
      BY <2>4, <2>6, ReachedWords
    <3>4. (Mapped(at))'
      BY <1>2, <2>1, <2>2, <3>1, <3>2 DEF Mapped
    <3>5. TypeOK'
      BY <1>1, <1>2, <1>4, <2>2, <2>3, <3>1, <3>3, <3>4 DEF ExcInv, TypeOK, cause
    <3>6. /\ pc <= at /\ PageOf(pc) = PageOf(at) /\ \A w \in pc..(at - 1) : ~ IsBranch(w)
          /\ ~ EndsInBranch(pc)
      BY <1>1, <1>4, <2>6 DEF ExcInv, InBlock
    <3>7. pc <= at + 1 /\ \A w \in pc..(at + 1 - 1) : ~ IsBranch(w)
      BY <1>1, <2>1, <2>3, <3>6, ReachedWords
    <3>8. ~ (EndsInBranch(pc))'
      BY <1>1, <3>1, <3>6 DEF EndsInBranch, IsBranch, Instruction
    <3>9. InBlock'
      <4>1. (at \in Reached /\ pc <= at /\ PageOf(pc) = PageOf(at))'
        BY <2>4, <2>6, <3>1, <3>2, <3>6, <3>7
      <4>2. (\A w \in pc..(at - 1) : ~ IsBranch(w))'
        <5>1. SUFFICES ASSUME NEW w \in pc'..(at' - 1) PROVE ~ (IsBranch(w))'
          OBVIOUS
        <5>2. ~ IsBranch(w)
          BY <2>1, <2>3, <3>1, <3>7, ReachedWords
        <5>3. QED
          BY <1>1, <5>2 DEF IsBranch, Instruction
      <4>3. QED
        BY <2>1, <3>1, <3>8, <4>1, <4>2 DEF InBlock
    <3>10. QED
      BY <1>4, <2>2, <3>1, <3>3, <3>5, <3>9 DEF ExcInv, InHandler, InSlot, Between
  <2>7. QED
    BY <2>5, <2>6
<1>5. QED
  BY <1>3, <1>4

LEMMA NextExc == ExcInv /\ [CpuNext]_cpu_vars => ExcInv'
<1> SUFFICES ASSUME ExcInv, [CpuNext]_cpu_vars PROVE ExcInv'
  OBVIOUS
<1>1. CASE UNCHANGED cpu_vars
  <2>1. UNCHANGED <<text, use_interpreter, branch, prev_branch, interrupts, pc, next_pc, panicked,
                   epc, branch_delay, exception_code, bad_page, exl, cu1, tlb, work, at, pc_set>>
    BY <1>1 DEF cpu_vars, pcs, cause, machine, block
  <2>2. TypeOK'
    BY <2>1 DEF ExcInv, TypeOK, Mapped
  <2>3. InHandler' /\ InSlot' /\ Between'
    BY <2>1 DEF ExcInv, InHandler, InSlot, Between, IsBranch, Taken, Instruction
  <2>4. InBlock'
    BY <2>1 DEF ExcInv, InBlock, IsBranch, Instruction, EndsInBranch
  <2>5. QED
    BY <2>2, <2>3, <2>4 DEF ExcInv
<1>2. QED
  BY <1>1, FetchFaultKeeps, InterpretTrapKeeps, InterpretBranchKeeps, InterpretSkipKeeps,
     InterpretPlainKeeps, EnterBlockKeeps, CompiledTrapKeeps, CompiledPanicKeeps,
     CompiledBranchKeeps, CompiledPlainKeeps, InterruptKeeps
  DEF CpuNext, CpuStep

LEMMA ExcInvariant == CpuSpec => []ExcInv
  BY InitExc, NextExc, PTL DEF CpuSpec

(***************************************************************************)
(* TypeOK: the program runs outside of handlers and a handler inside, and  *)
(* a compiled block stays in its page.                                     *)
(***************************************************************************)
THEOREM CpuTyped == CpuSpec => []TypeOK
<1>1. ExcInv => TypeOK
  BY DEF ExcInv
<1>2. QED
  BY <1>1, ExcInvariant, PTL

(***************************************************************************)
(* The refinement of ProgramOrder.                                         *)
(***************************************************************************)

LEMMA SettleSame == \A w, data : Program!Settle(w, data) = Order!Settle(w, data)
  BY DEF Program!Settle, Program!IsBranch, Program!Taken, Program!Jumps,
         Order!Settle, Order!IsBranch, Order!Taken, Order!Jumps

LEMMA PositionAfter ==
  ASSUME UNCHANGED text
  PROVE  Position' = IF exl' THEN Order!Settle(epc', work')
                     ELSE IF pc_set' THEN <<at', pc'>>
                     ELSE IF at' # Nowhere THEN Order!Settle(at', work')
                     ELSE IF branch' THEN <<pc', next_pc'>>
                     ELSE Order!Settle(pc', work')
  BY DEF Position, Order!Settle, Order!IsBranch, Order!Taken, Order!Jumps

\* Settle at a word that is reached.
LEMMA SettleHere ==
  ASSUME text \in Programs, NEW w \in UserWords
  PROVE  /\ ~ IsBranch(w) => Order!Settle(w, work) = <<w, w + 1>>
         /\ IsBranch(w) /\ Taken(w) => Order!Settle(w, work) = <<w + 1, Instruction(w).to>>
         /\ IsBranch(w) /\ ~ Taken(w) /\ Instruction(w).op # "likely" =>
              Order!Settle(w, work) = <<w + 1, w + 2>>
         /\ IsBranch(w) /\ ~ Taken(w) /\ Instruction(w).op = "likely" =>
              Order!Settle(w, work) = Order!Settle(w + 2, work)
<1>1. Instruction(w) = text[w] /\ text[w].op \in {"work", "fpu", "load", "jump", "branch", "likely"}
  BY ProgramInstructions
<1>2. QED
  BY <1>1, SettleIs DEF IsBranch, Jumps, Taken

\* Between two instructions the program stands at the word that EPC will name.
LEMMA StandsAt ==
  ASSUME ExcInv, at = Nowhere, ~ exl
  PROVE  Position = Order!Settle(IF branch THEN pc - 1 ELSE pc, work)
<1>1. text \in Programs /\ ~ pc_set /\ pc \in Nat
  BY Standing, ReachedWords DEF ExcInv, TypeOK
<1>2. CASE ~ branch
  BY <1>1, <1>2 DEF Position
<1>3. CASE branch
  <2>1. /\ pc - 1 \in UserWords /\ IsBranch(pc - 1)
        /\ Instruction(pc - 1).op = "likely" => Taken(pc - 1)
        /\ next_pc = IF Taken(pc - 1) THEN Instruction(pc - 1).to ELSE pc + 1
    BY <1>3, ReachedWords DEF ExcInv, InSlot
  <2>2. (pc - 1) + 1 = pc /\ (pc - 1) + 2 = pc + 1
    BY <1>1
  <2>3. Order!Settle(pc - 1, work) = <<pc, next_pc>>
    BY <1>1, <2>1, <2>2, SettleHere
  <2>4. QED
    BY <1>1, <1>3, <2>3 DEF Position
<1>4. QED
  BY <1>2, <1>3

LEMMA HandlingStands ==
  ASSUME NEW w, NEW exception, NEW error, HandleException(w, exception, error), UNCHANGED text
  PROVE  /\ work' = work
         /\ exl => Position' = Position
         /\ ~ exl => Position' = Order!Settle(IF prev_branch' THEN w - 1 ELSE w, work)
  BY PositionAfter DEF HandleException, SaveEpc, Position

LEMMA FetchFaultStands == ASSUME ExcInv, FetchFault PROVE UNCHANGED <<Position, work>>
<1>1. /\ at = Nowhere /\ prev_branch' = branch /\ UNCHANGED text
      /\ HandleException(pc, "tlb", tlb[PageOf(pc)])
  BY DEF FetchFault, Step, Miss
<1>2. QED
  BY <1>1, StandsAt, HandlingStands

LEMMA InterpretTrapStands == ASSUME ExcInv, InterpretTrap PROVE UNCHANGED <<Position, work>>
<1>1. at = Nowhere /\ prev_branch' = branch /\ UNCHANGED text /\ Trap(pc)
  BY DEF InterpretTrap, Step
<1>2. CASE HandleException(pc, "coprocessor", "none")
  BY <1>1, <1>2, StandsAt, HandlingStands
<1>3. CASE HandleException(pc, "tlb", tlb[Instruction(pc).page])
  BY <1>1, <1>3, StandsAt, HandlingStands
<1>4. QED
  BY <1>1, <1>2, <1>3 DEF Trap, Miss

LEMMA InterruptStands == ASSUME ExcInv, Interrupt PROVE UNCHANGED <<Position, work>>
<1>1. at = Nowhere /\ prev_branch' = branch /\ UNCHANGED text /\ HandleException(pc, "interrupt", "none")
  BY DEF Interrupt, BetweenBlocks
<1>2. QED
  BY <1>1, StandsAt, HandlingStands

\* In a slot the trap of a compiled block loses where the branch goes.
LEMMA CompiledTrapStands ==
  ASSUME ExcInv, CompiledTrap
  PROVE  UNCHANGED <<Position, work>> \/ (pc_set /\ TrapInCompiledSlot)
<1>1. /\ at # Nowhere /\ LacksUnit(at) /\ HandleException(at, "coprocessor", "none")
      /\ UNCHANGED <<text, use_interpreter, prev_branch>>
  BY DEF CompiledTrap, Compiled
<1>2. ~ prev_branch /\ text \in Programs
  BY <1>1 DEF ExcInv, TypeOK
<1>3. CASE exl
  BY <1>1, <1>3, HandlingStands
<1>4. CASE ~ exl /\ ~ pc_set
  <2>1. Position = Order!Settle(at, work)
    BY <1>1, <1>4 DEF Position
  <2>2. QED
    BY <1>1, <1>2, <1>4, <2>1, HandlingStands
<1>5. CASE ~ exl /\ pc_set
  <2>1. at \in UserWords /\ ~ IsBranch(at)
    BY <1>1, <1>5, SlotFlow
  <2>2. Position = <<at, pc>>
    BY <1>5 DEF Position
  <2>3. work' = work /\ Position' = <<at, at + 1>>
    BY <1>1, <1>2, <1>5, <2>1, HandlingStands, SettleHere
  <2>4. QED
    BY <1>5, <2>2, <2>3 DEF TrapInCompiledSlot
<1>6. QED
  BY <1>3, <1>4, <1>5

LEMMA InterpretBranchStands == ASSUME ExcInv, InterpretBranch PROVE UNCHANGED <<Position, work>>
<1>1. /\ at = Nowhere /\ IsBranch(pc) /\ (Instruction(pc).op = "likely" => Taken(pc))
      /\ branch' = TRUE /\ pc' = next_pc
      /\ next_pc' = IF Taken(pc) THEN Instruction(pc).to ELSE next_pc + 1
      /\ UNCHANGED <<text, at, pc_set, exl, work>>
  BY DEF InterpretBranch, Step, block, machine
<1>2. ~ exl /\ ~ branch /\ ~ pc_set /\ text \in Programs
  BY <1>1, Standing, HandlerFlow, SlotFlow DEF ExcInv, TypeOK
<1>3. pc \in UserWords /\ pc \in Nat /\ next_pc = pc + 1
  BY <1>1, <1>2, ReachedWords DEF ExcInv, Between
<1>4. Position' = <<pc + 1, next_pc'>>
  BY <1>1, <1>2, <1>3, PositionAfter
<1>5. Position = Order!Settle(pc, work)
  BY <1>1, <1>2, StandsAt
<1>6. next_pc' = IF Taken(pc) THEN Instruction(pc).to ELSE pc + 2
  BY <1>1, <1>3
<1>7. QED
  BY <1>1, <1>2, <1>3, <1>4, <1>5, <1>6, SettleHere

LEMMA InterpretSkipStands == ASSUME ExcInv, InterpretSkip PROVE UNCHANGED <<Position, work>>
<1>1. /\ at = Nowhere /\ Instruction(pc).op = "likely" /\ ~ Taken(pc)
      /\ branch' = FALSE /\ pc' = next_pc + 1
      /\ UNCHANGED <<text, at, pc_set, exl, work>>
  BY DEF InterpretSkip, Step, block, machine, SetPc
<1>2. IsBranch(pc)
  BY <1>1 DEF IsBranch, Jumps
<1>3. ~ exl /\ ~ branch /\ ~ pc_set /\ text \in Programs
  BY <1>1, <1>2, Standing, HandlerFlow, SlotFlow DEF ExcInv, TypeOK
<1>4. pc \in UserWords /\ pc \in Nat /\ next_pc = pc + 1
  BY <1>1, <1>3, ReachedWords DEF ExcInv, Between
<1>5. pc' = pc + 2
  BY <1>1, <1>4
<1>6. Position' = Order!Settle(pc + 2, work)
  BY <1>1, <1>3, <1>5, PositionAfter
<1>7. Position = Order!Settle(pc, work)
  BY <1>1, <1>3, StandsAt
<1>8. QED
  BY <1>1, <1>2, <1>3, <1>4, <1>6, <1>7, SettleHere

\* Only the program's own instructions are steps.
LEMMA InterpretPlainStands ==
  ASSUME ExcInv, InterpretPlain
  PROVE  UNCHANGED <<Position, work>> \/ Program!Execute
<1>1. /\ at = Nowhere /\ ~ IsBranch(pc) /\ Effect(pc) /\ branch' = FALSE
      /\ IF IsEret(pc) THEN pc' = epc ELSE pc' = next_pc
      /\ UNCHANGED <<text, use_interpreter, at, pc_set, epc>>
  BY DEF InterpretPlain, Step, block, SetPc, cause
<1>2. text \in Programs /\ ~ pc_set
  BY <1>1, Standing DEF ExcInv, TypeOK
<1>3. CASE exl
  <2>1. pc \in Handlers
    BY <1>1, <1>3, Standing
  <2>2. work' = work /\ exl' = ~ IsEret(pc)
    BY <1>1, <1>3, <2>1, EffectOfHandler
  <2>3. Position = Order!Settle(epc, work)
    BY <1>3 DEF Position
  <2>4. CASE IsEret(pc)
    BY <1>1, <1>2, <2>2, <2>3, <2>4, PositionAfter
  <2>5. CASE ~ IsEret(pc)
    BY <1>1, <1>2, <2>2, <2>3, <2>5, PositionAfter
  <2>6. QED
    BY <2>4, <2>5
<1>4. CASE ~ exl
  <2>1. pc \in UserWords /\ ~ IsEret(pc) /\ work' = 1 - work /\ UNCHANGED exl
    BY <1>1, <1>2, <1>4, Standing, ProgramInstructions, EffectOfProgram
  <2>2. Position = <<pc, next_pc>>
    <3>1. CASE branch
      BY <1>1, <1>2, <1>4, <3>1 DEF Position
    <3>2. CASE ~ branch
      <4>1. next_pc = pc + 1
        BY <1>1, <1>4, <3>2 DEF ExcInv, Between
      <4>2. QED
        BY <1>1, <1>2, <1>4, <2>1, <3>2, <4>1, StandsAt, SettleHere
    <3>3. QED
      BY <3>1, <3>2
  <2>3. Position' = Order!Settle(next_pc, work')
    BY <1>1, <1>2, <1>4, <2>1, PositionAfter
  <2>4. Position[2] = next_pc
    BY <2>2
  <2>5. Position' = Program!Settle(Position[2], work')
    BY <2>3, <2>4, SettleSame
  <2>6. QED
    BY <1>1, <2>1, <2>5 DEF Program!Execute
<1>5. QED
  BY <1>3, <1>4

LEMMA EnterBlockStands == ASSUME ExcInv, EnterBlock PROVE UNCHANGED <<Position, work>>
<1>1. /\ at = Nowhere /\ Mapped(pc) /\ ~ Interpreted /\ at' = pc /\ pc_set' = FALSE
      /\ UNCHANGED <<text, epc, exl, work>>
  BY DEF EnterBlock, BetweenBlocks, cause, machine
<1>2. ~ branch /\ pc # Nowhere
  BY <1>1, Standing, ReachedWords DEF Interpreted, Handlers
<1>3. CASE exl
  BY <1>1, <1>3, PositionAfter DEF Position
<1>4. CASE ~ exl
  <2>1. Position' = Order!Settle(pc, work)
    BY <1>1, <1>2, <1>4, PositionAfter
  <2>2. QED
    BY <1>1, <1>2, <1>4, <2>1, StandsAt
<1>5. QED
  BY <1>3, <1>4

LEMMA CompiledPanicStands == ASSUME ExcInv, CompiledPanic PROVE UNCHANGED <<Position, work>>
<1>1. UNCHANGED <<text, pc, next_pc, branch, epc, exl, work, at, pc_set>>
  BY DEF CompiledPanic, Compiled, pcs, cause, machine, block
<1>2. QED
  BY <1>1, PositionAfter DEF Position

LEMMA CompiledBranchStands == ASSUME ExcInv, CompiledBranch PROVE UNCHANGED <<Position, work>>
<1>1. /\ at # Nowhere /\ IsBranch(at)
      /\ pc' = IF Taken(at) THEN Instruction(at).to ELSE at + 2
      /\ IF Instruction(at).op = "likely" => Taken(at)
           THEN at' = at + 1 /\ pc_set' = TRUE
           ELSE at' = Nowhere /\ pc_set' = FALSE
      /\ UNCHANGED <<text, branch, exl, work>>
  BY DEF CompiledBranch, Compiled, SetPc, Leave, machine
<1>2. ~ branch /\ text \in Programs
  BY <1>1 DEF ExcInv, TypeOK
<1>3. ~ exl /\ ~ pc_set /\ at \in UserWords
  BY <1>1, <1>2, HandlerFlow, SlotFlow, ReachedWords DEF ExcInv, InHandler, InBlock
<1>4. Position = Order!Settle(at, work)
  BY <1>1, <1>3 DEF Position
<1>5. CASE Instruction(at).op = "likely" => Taken(at)
  <2>1. Position' = <<at + 1, pc'>>
    BY <1>1, <1>3, <1>5, PositionAfter
  <2>2. QED
    BY <1>1, <1>2, <1>3, <1>4, <1>5, <2>1, SettleHere
<1>6. CASE ~ (Instruction(at).op = "likely" => Taken(at))
  <2>1. Position' = Order!Settle(at + 2, work)
    BY <1>1, <1>2, <1>3, <1>6, PositionAfter
  <2>2. QED
    BY <1>1, <1>2, <1>3, <1>4, <1>6, <2>1, SettleHere
<1>7. QED
  BY <1>5, <1>6

LEMMA CompiledPlainStands ==
  ASSUME ExcInv, CompiledPlain
  PROVE  UNCHANGED <<Position, work>> \/ Program!Execute
<1>1. /\ at # Nowhere /\ ~ IsBranch(at) /\ Effect(at)
      /\ IF IsEret(at) \/ pc_set \/ EndOfPage(at)
           THEN at' = Nowhere /\ pc_set' = FALSE
           ELSE at' = at + 1 /\ pc_set' = pc_set
      /\ \/ IsEret(at) /\ pc' = epc
         \/ EndOfPage(at) /\ ~ pc_set /\ pc' = at + 1
         \/ ~ IsEret(at) /\ (pc_set \/ ~ EndOfPage(at)) /\ pc' = pc
      /\ UNCHANGED <<text, use_interpreter, branch, epc>>
  BY DEF CompiledPlain, Compiled, SetPc, Leave, pcs, cause
<1>2. ~ branch /\ text \in Programs
  BY <1>1 DEF ExcInv, TypeOK
<1>3. CASE exl
  <2>1. at \in Handlers /\ ~ EndOfPage(at) /\ ~ pc_set
    BY <1>1, <1>3, HandlerFlow DEF ExcInv, InHandler
  <2>2. work' = work /\ exl' = ~ IsEret(at)
    BY <1>1, <1>3, <2>1, EffectOfHandler
  <2>3. Position = Order!Settle(epc, work)
    BY <1>3 DEF Position
  <2>4. CASE IsEret(at)
    <3>1. exl' = FALSE /\ at' = Nowhere /\ pc_set' = FALSE /\ pc' = epc
      BY <1>1, <2>1, <2>2, <2>4
    <3>2. QED
      BY <1>1, <1>2, <2>2, <2>3, <3>1, PositionAfter
  <2>5. CASE ~ IsEret(at)
    <3>1. exl' = TRUE
      BY <2>2, <2>5
    <3>2. QED
      BY <1>1, <2>2, <2>3, <3>1, PositionAfter
  <2>6. QED
    BY <2>4, <2>5
<1>4. CASE ~ exl
  <2>1. at \in UserWords /\ (~ pc_set => at \in Reached)
    BY <1>1, <1>4, SlotFlow, ReachedWords DEF ExcInv, InBlock
  <2>2. ~ IsEret(at) /\ work' = 1 - work /\ exl' = exl
    BY <1>1, <1>2, <2>1, ProgramInstructions, EffectOfProgram
  <2> DEFINE then == IF pc_set THEN pc ELSE at + 1
  <2>3. Position = <<at, then>>
    BY <1>1, <1>2, <1>4, <2>1, SettleHere DEF Position
  <2>4. Position' = Order!Settle(then, work')
    <3>1. CASE pc_set
      BY <1>1, <1>2, <1>4, <2>2, <3>1, PositionAfter
    <3>2. CASE ~ pc_set /\ EndOfPage(at)
      BY <1>1, <1>2, <1>4, <2>2, <3>2, PositionAfter
    <3>3. CASE ~ pc_set /\ ~ EndOfPage(at)
      <4>1. at + 1 # Nowhere
        BY <2>1, ReachedWords DEF Nowhere
      <4>2. QED
        BY <1>1, <1>4, <2>2, <3>3, <4>1, PositionAfter
    <3>4. QED
      BY <3>1, <3>2, <3>3
  <2>5. Position[2] = then
    BY <2>3
  <2> HIDE DEF then
  <2>6. Position' = Program!Settle(Position[2], work')
    BY <2>4, <2>5, SettleSame
  <2>7. QED
    BY <1>1, <2>2, <2>6 DEF Program!Execute
<1>5. QED
  BY <1>3, <1>4

LEMMA StartsInOrder == CpuInit => Program!Init
<1> SUFFICES ASSUME CpuInit PROVE Program!Init
  OBVIOUS
<1>1. ~ exl /\ ~ pc_set /\ at = Nowhere /\ ~ branch /\ pc = 0 /\ work = 0
  BY DEF CpuInit
<1>2. Position = Order!Settle(0, 0)
  BY <1>1 DEF Position
<1>3. QED
  BY <1>1, <1>2, SettleSame DEF Program!Init

LEMMA StepsInOrder ==
  ASSUME ExcInv, [CpuNext]_cpu_vars
  PROVE  /\ UNCHANGED text
         /\ UNCHANGED <<Position, work>> \/ Program!Execute \/ (pc_set /\ TrapInCompiledSlot)
<1>1. UNCHANGED text
  BY DEF CpuNext, CpuStep, cpu_vars, FetchFault, InterpretTrap, InterpretBranch, InterpretSkip,
     InterpretPlain, Step, EnterBlock, CompiledTrap, CompiledPanic, CompiledBranch,
     CompiledPlain, Compiled, Interrupt
<1>2. CASE UNCHANGED cpu_vars
  <2>1. UNCHANGED <<text, pc, next_pc, branch, epc, exl, work, at, pc_set>>
    BY <1>2 DEF cpu_vars, pcs, cause, machine, block
  <2>2. QED
    BY <2>1, PositionAfter DEF Position
<1>3. QED
  BY <1>1, <1>2, FetchFaultStands, InterpretTrapStands, InterpretBranchStands,
     InterpretSkipStands, InterpretPlainStands, EnterBlockStands, CompiledTrapStands,
     CompiledPanicStands, CompiledBranchStands, CompiledPlainStands, InterruptStands
  DEF CpuNext, CpuStep

(***************************************************************************)
(* ImplementsProgramOrder: whatever exceptions and interrupts happen, a    *)
(* program's instructions take effect in the order its branches give, each *)
(* once, unless a coprocessor instruction traps in the slot of a compiled  *)
(* branch: then where that branch goes is lost.                            *)
(***************************************************************************)
THEOREM OnlyATrapInASlotIsSeen == CpuSpec => ImplementsProgramOrder
<1>1. ASSUME ExcInv, [CpuNext]_cpu_vars
      PROVE  [Program!Execute \/ TrapInCompiledSlot]_<<text, Position, work>>
  BY <1>1, StepsInOrder
<1>2. QED
  BY <1>1, StartsInOrder, ExcInvariant, PTL DEF CpuSpec, ImplementsProgramOrder

\* No coprocessor instruction is in a slot.
NoUnitInSlot ==
  \A program \in Programs : \A w \in 0..(NumWords - 2) :
    program[w].op \in Jumps => program[w + 1].op # "fpu"

\* Nothing then traps in the slot of a compiled branch.
LEMMA NoTrapInSlot ==
  ASSUME ExcInv, pc_set, NoUnitInSlot
  PROVE  ~ TrapInCompiledSlot
<1> SUFFICES ASSUME TrapInCompiledSlot PROVE FALSE
  OBVIOUS
<1>1. at # Nowhere /\ LacksUnit(at)
  BY DEF TrapInCompiledSlot, CompiledTrap, Compiled
<1>2. ~ exl /\ text \in Programs
  BY DEF ExcInv, TypeOK, InHandler
<1>3. at - 1 \in Reached /\ IsBranch(at - 1) /\ at \in UserWords
  BY <1>1, <1>2, SlotFlow DEF ExcInv, InBlock
<1>4. at - 1 \in UserWords /\ at - 1 \in 0..(NumWords - 2) /\ (at - 1) + 1 = at
  BY <1>3, ReachedWords, ExceptionConstants DEF UserWords
<1>5. text[at - 1].op \in Jumps /\ text[at].op = "fpu"
  BY <1>1, <1>2, <1>3, <1>4, ProgramInstructions DEF IsBranch, LacksUnit
<1>6. QED
  BY <1>2, <1>4, <1>5 DEF NoUnitInSlot

(***************************************************************************)
(* InProgramOrder, as r4300i.c:81-82 promises it: exceptions cannot be     *)
(* seen at all by programs without a coprocessor instruction in a slot.    *)
(***************************************************************************)
THEOREM ExceptionsCannotBeSeen ==
  ASSUME NoUnitInSlot
  PROVE  CpuSpec => InProgramOrder
<1>1. ASSUME ExcInv, [CpuNext]_cpu_vars
      PROVE  [Program!Execute]_<<text, Position, work>>
  BY <1>1, StepsInOrder, NoTrapInSlot
<1>2. QED
  BY <1>1, StartsInOrder, ExcInvariant, PTL DEF CpuSpec, InProgramOrder, Program!Spec

(***************************************************************************)
(* InProgramOrder for every program that the interpreter runs.             *)
(***************************************************************************)
THEOREM TheInterpreterKeepsOrder == CpuSpec /\ use_interpreter => InProgramOrder
<1>1. ASSUME ExcInv, [CpuNext]_cpu_vars, use_interpreter
      PROVE  [Program!Execute]_<<text, Position, work>> /\ use_interpreter'
  <2>1. ~ pc_set
    BY <1>1, Standing DEF ExcInv, TypeOK
  <2>2. UNCHANGED use_interpreter
    BY <1>1 DEF CpuNext, CpuStep, cpu_vars, FetchFault, InterpretTrap, InterpretBranch, InterpretSkip,
       InterpretPlain, Step, EnterBlock, CompiledTrap, CompiledPanic, CompiledBranch,
       CompiledPlain, Compiled, Interrupt
  <2>3. QED
    BY <1>1, <2>1, <2>2, StepsInOrder
<1>2. QED
  BY <1>1, StartsInOrder, ExcInvariant, PTL DEF CpuSpec, InProgramOrder, Program!Spec
===============================================================================
