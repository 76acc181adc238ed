------------------------- MODULE ServiceTasksProofs -------------------------
(***************************************************************************)
(* Proofs about the tasks that go on beside a running server: the machines *)
(* of MCServices that watch and repair it and answer about it, and         *)
(* BootRepair, for all values of their constants and any number of tasks   *)
(* and failures. Each machine has an inductive invariant of its own, from  *)
(* which its properties follow; as none of the machines of MCServices      *)
(* calls another, they hold of all of them together (Parts, and the        *)
(* theorem at the end).                                                    *)
(***************************************************************************)
EXTENDS MCServices, BootRepair, Integers, Sequences, FiniteSetTheorems,
        FunctionTheorems, WellFoundedInduction, TLAPS

\* A set of naturals has a least one.
LEMMA NaturalsHaveALeast ==
  ASSUME NEW T \in SUBSET Nat, T # {}
  PROVE  \E x \in T : \A y \in T : x <= y
<1>1. PICK R : R = {ss \in Nat \X Nat : ss[1] < ss[2]}
  OBVIOUS
<1>2. IsWellFoundedOn(R, Nat)
  BY <1>1, NatLessThanWellFounded DEF OpToRel
<1>3. PICK x \in T : \A y \in T : <<y, x>> \notin R
  BY <1>2, WFMin
<1>4. \A y \in T : ~(y < x)
  BY <1>1, <1>3
<1> QED
  BY <1>4

-----------------------------------------------------------------------------
(***************************************************************************)
(* The play time of the players (PlayerStats). The total of a player is    *)
(* the sum over the sessions that ended, but for the session of a call     *)
(* that has ended it and not yet added it.                                 *)
(***************************************************************************)

\* A sum as the fold computes it: one summand, and the sum of the others.
SumOne(s) == CHOOSE x \in s : TRUE
SumRest(s) == s \ {SumOne(s)}
SumFolds(d, S, it) ==
    it = [s \in SUBSET S |-> IF s = {} THEN 0 ELSE d[SumOne(s)] + it[SumRest(s)]]

LEMMA SumIsFold ==
  ASSUME NEW d, NEW S
  PROVE  Players!SumFunctionOnSet(d, S) = (CHOOSE it : SumFolds(d, S, it))[S]
  BY DEF Players!SumFunctionOnSet, Players!FoldFunctionOnSet, Players!MapThenFoldSet, SumFolds,
         SumOne, SumRest

LEMMA SumRests ==
  ASSUME NEW s, IsFiniteSet(s), s # {}
  PROVE  /\ SumOne(s) \in s /\ IsFiniteSet(SumRest(s)) /\ Cardinality(SumRest(s)) = Cardinality(s) - 1
         /\ Cardinality(s) \in Nat \ {0}
<1>1. SumOne(s) \in s
  BY DEF SumOne
<1> QED
  BY <1>1, FS_RemoveElement, FS_EmptySet, FS_CardinalityType DEF SumRest

LEMMA SumExists ==
  ASSUME NEW S, IsFiniteSet(S), NEW d, \A x \in S : d[x] \in Nat
  PROVE  \E it : SumFolds(d, S, it)
<1> DEFINE Small(k) == {s \in SUBSET S : Cardinality(s) <= k}
           Folds(k, it) == \A s \in Small(k) :
               it[s] = IF s = {} THEN 0 ELSE d[SumOne(s)] + it[SumRest(s)]
           P(k) == \E it \in [Small(k) -> Nat] : Folds(k, it)
<1>1. \A s \in SUBSET S : IsFiniteSet(s) /\ Cardinality(s) \in Nat /\ (Cardinality(s) = 0 <=> s = {})
  BY FS_Subset, FS_CardinalityType, FS_EmptySet
<1>2. P(0)
  <2>1. Small(0) = {{}}
    BY <1>1
  <2>2. [s \in Small(0) |-> 0] \in [Small(0) -> Nat]
    OBVIOUS
  <2>3. Folds(0, [s \in Small(0) |-> 0])
    BY <2>1
  <2> QED
    BY <2>2, <2>3
<1>3. ASSUME NEW m \in Nat \ {0}, P(m - 1) PROVE P(m)
  <2>1. PICK g \in [Small(m - 1) -> Nat] : Folds(m - 1, g)
    BY <1>3
  <2> DEFINE h == [s \in Small(m) |-> IF s \in Small(m - 1) THEN g[s] ELSE d[SumOne(s)] + g[SumRest(s)]]
  <2>2. Small(m - 1) \subseteq Small(m)
    BY <1>1
  <2>3. \A s \in Small(m) : s # {} => SumOne(s) \in S /\ SumRest(s) \in Small(m - 1)
    <3> SUFFICES ASSUME NEW s \in Small(m), s # {} PROVE SumOne(s) \in S /\ SumRest(s) \in Small(m - 1)
      OBVIOUS
    <3>1. /\ SumOne(s) \in s /\ Cardinality(SumRest(s)) = Cardinality(s) - 1
          /\ Cardinality(s) \in Nat /\ Cardinality(s) <= m
      BY <1>1, SumRests
    <3>2. SumRest(s) \in SUBSET S
      BY DEF SumRest
    <3> QED
      BY <3>1, <3>2
  <2>4. \A s \in Small(m) \ Small(m - 1) : s # {}
    BY <1>1
  <2>5. h \in [Small(m) -> Nat]
    BY <2>3, <2>4
  <2>6. \A s \in Small(m - 1) : h[s] = g[s]
    BY <2>2
  <2>7. Folds(m, h)
    <3> SUFFICES ASSUME NEW s \in Small(m)
                 PROVE  h[s] = IF s = {} THEN 0 ELSE d[SumOne(s)] + h[SumRest(s)]
      OBVIOUS
    <3>1. CASE s \in Small(m - 1)
      <4>1. h[s] = IF s = {} THEN 0 ELSE d[SumOne(s)] + g[SumRest(s)]
        BY <2>1, <2>6, <3>1
      <4>2. s # {} => h[SumRest(s)] = g[SumRest(s)]
        BY <2>3, <2>6
      <4> HIDE DEF h
      <4> QED
        BY <4>1, <4>2
    <3>2. CASE s \notin Small(m - 1)
      <4>1. h[s] = d[SumOne(s)] + g[SumRest(s)]
        BY <3>2
      <4>2. s # {} /\ h[SumRest(s)] = g[SumRest(s)]
        BY <2>3, <2>4, <2>6, <3>2
      <4> HIDE DEF h
      <4> QED
        BY <4>1, <4>2
    <3> QED
      BY <3>1, <3>2
  <2> HIDE DEF h, Folds
  <2> QED
    BY <2>5, <2>7
<1>4. \A k \in Nat : P(k)
  <2> HIDE DEF P
  <2> DEFINE Bad == {k \in Nat : ~P(k)}
  <2> SUFFICES ASSUME Bad # {} PROVE FALSE
    OBVIOUS
  <2>1. PICK m \in Bad : \A k \in Bad : m <= k
    BY NaturalsHaveALeast
  <2>2. m # 0 /\ m \in Nat
    BY <1>2
  <2>3. P(m - 1)
    BY <2>1, <2>2
  <2> QED
    BY <1>3, <2>1, <2>2, <2>3
<1> DEFINE n == Cardinality(S)
<1>5. n \in Nat /\ Small(n) = SUBSET S
  BY <1>1, FS_Subset, FS_CardinalityType
<1>6. PICK it \in [SUBSET S -> Nat] : Folds(n, it)
  BY <1>4, <1>5
<1>7. it = [s \in SUBSET S |-> IF s = {} THEN 0 ELSE d[SumOne(s)] + it[SumRest(s)]]
  BY <1>5, <1>6
<1> QED
  BY <1>7 DEF SumFolds

\* Two such sums agree where the summands do, and are natural numbers; and any
\* summand can be taken first.
LEMMA SumFoldsAgree ==
  ASSUME NEW S, NEW T, NEW d, NEW e, NEW it, NEW jt,
         SumFolds(d, S, it), SumFolds(e, T, jt),
         NEW r, IsFiniteSet(r), r \subseteq S, r \subseteq T,
         \A x \in r : d[x] \in Nat /\ d[x] = e[x]
  PROVE  it[r] \in Nat /\ it[r] = jt[r] /\ \A x \in r : it[r] = d[x] + it[r \ {x}]
<1> DEFINE Fine(s) == it[s] \in Nat /\ it[s] = jt[s] /\ \A x \in s : it[s] = d[x] + it[s \ {x}]
           Bad == {k \in Nat : \E s \in SUBSET r : Cardinality(s) = k /\ ~Fine(s)}
<1>1. \A s \in SUBSET r : IsFiniteSet(s) /\ Cardinality(s) \in Nat
  BY FS_Subset, FS_CardinalityType
<1>2. \A s \in SUBSET r : /\ it[s] = IF s = {} THEN 0 ELSE d[SumOne(s)] + it[SumRest(s)]
                          /\ jt[s] = IF s = {} THEN 0 ELSE e[SumOne(s)] + jt[SumRest(s)]
  BY DEF SumFolds
<1>3. ASSUME Bad # {} PROVE FALSE
  <2>1. PICK m \in Bad : \A k \in Bad : m <= k
    BY <1>3, NaturalsHaveALeast
  <2>2. PICK s \in SUBSET r : Cardinality(s) = m /\ ~Fine(s)
    BY <2>1
  <2>3. \A t \in SUBSET r : Cardinality(t) < Cardinality(s) => Fine(t)
    <3> SUFFICES ASSUME NEW t \in SUBSET r, Cardinality(t) < Cardinality(s), ~Fine(t) PROVE FALSE
      OBVIOUS
    <3>1. Cardinality(t) \in Bad
      BY <1>1
    <3> HIDE DEF Bad, Fine
    <3> QED
      BY <1>1, <2>1, <2>2, <3>1
  <2>4. s # {}
    <3> SUFFICES ASSUME s = {} PROVE FALSE
      OBVIOUS
    <3>1. Fine(s)
      BY <1>2
    <3> QED
      BY <2>2, <3>1
  <2> DEFINE y == SumOne(s)
             t == s \ {y}
  <2>5. /\ y \in s /\ t \in SUBSET r /\ Cardinality(t) = Cardinality(s) - 1 /\ Cardinality(s) \in Nat
        /\ it[s] = d[y] + it[t] /\ jt[s] = e[y] + jt[t]
    BY <1>1, <1>2, <2>4, SumRests DEF SumRest
  <2> HIDE DEF y
  <2>6. Fine(t)
    <3> HIDE DEF Fine, t
    <3> QED
      BY <2>3, <2>5
  <2>7. it[s] \in Nat /\ it[s] = jt[s]
    BY <2>5, <2>6
  <2>8. ASSUME NEW x \in s PROVE it[s] = d[x] + it[s \ {x}]
    <3>1. CASE x = y
      BY <2>5, <3>1
    <3>2. CASE x # y
      <4> DEFINE u == s \ {x}
                 v == u \ {y}
      <4>1. u \in SUBSET r /\ Cardinality(u) = Cardinality(s) - 1 /\ y \in u /\ x \in t /\ t \ {x} = v
        BY <1>1, <2>5, <2>8, <3>2, FS_RemoveElement
      <4>2. Fine(u)
        <5> HIDE DEF Fine, u
        <5> QED
          BY <2>3, <2>5, <4>1
      <4>3. it[t] = d[x] + it[v]
        BY <2>6, <4>1
      <4>4. it[u] = d[y] + it[v]
        BY <4>1, <4>2
      <4>5. v \in SUBSET r /\ Cardinality(v) < Cardinality(s)
        <5>1. Cardinality(v) = Cardinality(u) - 1
          BY <1>1, <4>1, FS_RemoveElement
        <5> QED
          BY <2>5, <4>1, <5>1
      <4>6. it[v] \in Nat
        BY <2>3, <4>5
      <4>7. d[x] \in Nat /\ d[y] \in Nat
        BY <2>5, <2>8
      <4> HIDE DEF u, v, t
      <4> QED
        BY <2>5, <4>3, <4>4, <4>6, <4>7 DEF u
    <3> QED
      BY <3>1, <3>2
  <2> QED
    BY <2>2, <2>7, <2>8
<1>4. Fine(r)
  <2> SUFFICES ASSUME ~Fine(r) PROVE FALSE
    OBVIOUS
  <2>1. r \in SUBSET r /\ Cardinality(r) \in Nat
    BY <1>1
  <2>2. Cardinality(r) \in Bad
    BY <2>1
  <2> QED
    BY <1>3, <2>2
<1> QED
  BY <1>4

\* A sum of natural numbers is one; it depends on the summands alone; and a
\* summand more adds its number.
LEMMA Sums ==
  ASSUME NEW S, IsFiniteSet(S), NEW d, \A x \in S : d[x] \in Nat
  PROVE  /\ Players!SumFunctionOnSet(d, S) \in Nat
         /\ \A e : (\A x \in S : e[x] = d[x]) =>
                       Players!SumFunctionOnSet(e, S) = Players!SumFunctionOnSet(d, S)
         /\ \A x \in S : Players!SumFunctionOnSet(d, S) = d[x] + Players!SumFunctionOnSet(d, S \ {x})
         /\ S = {} => Players!SumFunctionOnSet(d, S) = 0
<1> DEFINE It(f, U) == CHOOSE it : SumFolds(f, U, it)
<1>1. ASSUME NEW f, NEW U \in SUBSET S, \A x \in U : f[x] = d[x]
      PROVE  SumFolds(f, U, It(f, U))
  <2>1. IsFiniteSet(U) /\ \A x \in U : f[x] \in Nat
    BY <1>1, FS_Subset
  <2>2. \E it : SumFolds(f, U, it)
    BY <2>1, SumExists
  <2> QED
    BY <2>2
<1>2. SumFolds(d, S, It(d, S))
  BY <1>1
<1>3. \A f, U : Players!SumFunctionOnSet(f, U) = It(f, U)[U]
  BY SumIsFold
<1> HIDE DEF It
<1>4. It(d, S)[S] \in Nat /\ \A x \in S : It(d, S)[S] = d[x] + It(d, S)[S \ {x}]
  <2>1. S \subseteq S /\ \A x \in S : d[x] \in Nat /\ d[x] = d[x]
    OBVIOUS
  <2> QED
    BY <1>2, <2>1, SumFoldsAgree
<1>5. ASSUME NEW f, \A x \in S : f[x] = d[x] PROVE It(f, S)[S] = It(d, S)[S]
  <2>1. SumFolds(f, S, It(f, S))
    BY <1>1, <1>5
  <2>2. S \subseteq S /\ \A x \in S : d[x] \in Nat /\ d[x] = f[x]
    BY <1>5
  <2>3. It(d, S)[S] = It(f, S)[S]
    BY <1>2, <2>1, <2>2, SumFoldsAgree
  <2> QED
    BY <2>3
<1>6. ASSUME NEW x \in S PROVE It(d, S)[S \ {x}] = It(d, S \ {x})[S \ {x}]
  <2>1. SumFolds(d, S \ {x}, It(d, S \ {x}))
    BY <1>1
  <2>2. IsFiniteSet(S \ {x}) /\ S \ {x} \subseteq S /\ \A z \in S \ {x} : d[z] \in Nat /\ d[z] = d[z]
    BY FS_Subset
  <2> DEFINE V == S \ {x}
  <2> HIDE DEF V
  <2>3. V \subseteq V
    OBVIOUS
  <2> QED
    BY <1>2, <2>1, <2>2, <2>3, SumFoldsAgree DEF V
<1>7. S = {} => It(d, S)[S] = 0
  BY <1>2 DEF SumFolds
<1> QED
  BY <1>3, <1>4, <1>5, <1>6, <1>7

\* The play time of the sessions in s.
PlayedRow == [player : Player, start : Nat, end : Nat]
PlayedFor(s) == [i \in DOMAIN s |-> IF s[i].end < s[i].start THEN 0 ELSE s[i].end - s[i].start]
PlayedEnds(s, p) == {i \in DOMAIN s : s[i].player = p /\ s[i].end # 0}
PlayedIn(s, p) == Players!SumFunctionOnSet(PlayedFor(s), PlayedEnds(s, p))

LEMMA PlayedCounts ==
  ASSUME NEW n \in Nat, NEW s \in [1..n -> PlayedRow], NEW p
  PROVE  /\ IsFiniteSet(PlayedEnds(s, p))
         /\ \A i \in 1..n : PlayedFor(s)[i] \in Nat
         /\ PlayedIn(s, p) \in Nat
<1>1. IsFiniteSet(PlayedEnds(s, p))
  BY FS_Interval, FS_Subset DEF PlayedEnds
<1>2. \A i \in 1..n : PlayedFor(s)[i] \in Nat
  BY DEF PlayedFor, PlayedRow
<1>3. \A i \in PlayedEnds(s, p) : PlayedFor(s)[i] \in Nat
  BY <1>2 DEF PlayedEnds
<1> QED
  BY <1>1, <1>2, <1>3, Sums DEF PlayedIn

\* It stays as long as the sessions that ended do.
LEMMA PlayedStays ==
  ASSUME NEW n \in Nat, NEW s \in [1..n -> PlayedRow], NEW m \in Nat, NEW t \in [1..m -> PlayedRow],
         NEW p, PlayedEnds(t, p) = PlayedEnds(s, p), \A i \in PlayedEnds(s, p) : t[i] = s[i]
  PROVE  PlayedIn(t, p) = PlayedIn(s, p)
<1>1. \A i \in PlayedEnds(s, p) : i \in 1..n /\ i \in 1..m
  BY DEF PlayedEnds
<1>2. \A i \in PlayedEnds(s, p) : PlayedFor(t)[i] = PlayedFor(s)[i] /\ PlayedFor(s)[i] \in Nat
  BY <1>1, PlayedCounts DEF PlayedFor
<1> QED
  BY <1>2, PlayedCounts, Sums DEF PlayedIn

\* A session that ends adds its time.
LEMMA PlayedGrows ==
  ASSUME NEW n \in Nat, NEW s \in [1..n -> PlayedRow], NEW i \in 1..n, s[i].end = 0,
         NEW t \in [1..n -> PlayedRow], t[i].player = s[i].player, t[i].start = s[i].start,
         t[i].end # 0, \A j \in 1..n : j # i => t[j] = s[j]
  PROVE  /\ PlayedIn(t, s[i].player) = PlayedIn(s, s[i].player) + PlayedFor(t)[i]
         /\ \A p : p # s[i].player => PlayedIn(t, p) = PlayedIn(s, p)
<1> DEFINE q == s[i].player
<1>1. ASSUME NEW p, p # q PROVE PlayedIn(t, p) = PlayedIn(s, p)
  <2>1. PlayedEnds(t, p) = PlayedEnds(s, p)
    BY <1>1 DEF PlayedEnds
  <2>2. \A j \in PlayedEnds(s, p) : t[j] = s[j]
    BY <1>1 DEF PlayedEnds
  <2> QED
    BY <2>1, <2>2, PlayedStays
<1>2. PlayedEnds(t, q) \ {i} = PlayedEnds(s, q) /\ i \in PlayedEnds(t, q)
  BY DEF PlayedEnds
<1>3. PlayedIn(t, q) = PlayedFor(t)[i] + Players!SumFunctionOnSet(PlayedFor(t), PlayedEnds(s, q))
  <2> DEFINE S == PlayedEnds(t, q)
             d == PlayedFor(t)
  <2>1. \A j \in S : d[j] \in Nat
    BY PlayedCounts DEF PlayedEnds
  <2>2. IsFiniteSet(S) /\ i \in S
    BY <1>2, PlayedCounts
  <2> HIDE DEF S, d
  <2>3. Players!SumFunctionOnSet(d, S) = d[i] + Players!SumFunctionOnSet(d, S \ {i})
    BY <2>1, <2>2, Sums
  <2> QED
    BY <1>2, <2>3 DEF PlayedIn, S, d
<1>4. Players!SumFunctionOnSet(PlayedFor(t), PlayedEnds(s, q)) = PlayedIn(s, q)
  <2>1. \A j \in PlayedEnds(s, q) : j \in 1..n /\ j # i
    BY DEF PlayedEnds
  <2>2. \A j \in PlayedEnds(s, q) : PlayedFor(t)[j] = PlayedFor(s)[j] /\ PlayedFor(s)[j] \in Nat
    BY <2>1, PlayedCounts DEF PlayedFor
  <2> QED
    BY <2>2, PlayedCounts, Sums DEF PlayedIn
<1>5. PlayedIn(s, q) \in Nat /\ PlayedFor(t)[i] \in Nat
  BY PlayedCounts
<1> QED
  BY <1>1, <1>3, <1>4, <1>5

-----------------------------------------------------------------------------
\* What an end of a session has yet to add to the row of the player.
PlayersOwed(c, p) ==
    IF playersCall[c].step = "total" /\ playersCall[c].player = p
    THEN PlayedFor(playersSessions)[playersCall[c].session] ELSE 0

PlayersTypes ==
    /\ playersStats \in [Player -> [time : Nat, deaths : Nat, known : BOOLEAN]]
    /\ \E n \in Nat : playersSessions \in [1..n -> PlayedRow]
    /\ playersCall \in [Caller -> [step : Players!Step \cup {"idle"}, at : Nat,
                                   player : Player \cup {Players!Idle.player},
                                   deaths : Nat, session : Nat]]
    /\ playersClock \in Nat \ {0} /\ playersFaults \in Nat

\* A call that is at a session has it open, or has closed it and not yet added its time.
PlayersCalls ==
    \A c \in Caller :
        /\ playersCall[c].step # "idle" => playersCall[c].player \in Player /\ playersCall[c].at # 0
        /\ playersCall[c].step \in {"close", "total"} =>
              playersCall[c].session \in DOMAIN playersSessions
        /\ playersCall[c].step = "close" =>
              /\ playersSessions[playersCall[c].session].player = playersCall[c].player
              /\ playersSessions[playersCall[c].session].end = 0
        /\ playersCall[c].step = "total" =>
              playersSessions[playersCall[c].session].end = playersCall[c].at

\* The total and what is owed are the sum over the ended sessions, or less after a failure.
PlayersCount ==
    \A c \in Caller, p \in Player :
        /\ playersStats[p].time + PlayersOwed(c, p) <= PlayedIn(playersSessions, p)
        /\ playersFaults = 0 =>
              playersStats[p].time + PlayersOwed(c, p) = PlayedIn(playersSessions, p)

\* A player with a session has a row.
PlayersKnown ==
    /\ \A j \in DOMAIN playersSessions : playersStats[playersSessions[j].player].known = TRUE
    /\ \A c \in Caller :
          playersCall[c].step = "session" => playersStats[playersCall[c].player].known = TRUE

PlayersInv == PlayersTypes /\ PlayersCalls /\ PlayersKnown /\ PlayersCount

LEMMA PlayersPlayed == \A p : Players!Played(p) = PlayedIn(playersSessions, p)
  BY DEF Players!Played, Players!Ended, Players!Open, PlayedIn, PlayedFor, PlayedEnds

LEMMA PlayersStart == Players!Init => PlayersInv
<1> SUFFICES ASSUME Players!Init PROVE PlayersInv
  OBVIOUS
<1>1. PlayersTypes
  <2>1. playersSessions \in [1..0 -> PlayedRow]
    BY DEF Players!Init
  <2>2. playersStats \in [Player -> [time : Nat, deaths : Nat, known : BOOLEAN]]
    BY DEF Players!Init, Players!NoRow
  <2> QED
    BY <2>1, <2>2 DEF Players!Init, PlayersTypes, Players!Idle
<1>2. PlayersCalls
  BY DEF Players!Init, Players!Idle, PlayersCalls
<1>3. ASSUME NEW p \in Player PROVE PlayedIn(playersSessions, p) = 0
  <2>1. PlayedEnds(playersSessions, p) = {}
    BY DEF Players!Init, PlayedEnds
  <2> QED
    BY <2>1, FS_EmptySet, Sums DEF PlayedIn
<1>4. PlayersCount
  BY <1>3 DEF PlayersCount, PlayersOwed, Players!Init, Players!Idle, Players!NoRow
<1>5. PlayersKnown
  BY DEF PlayersKnown, Players!Init, Players!Idle
<1> QED
  BY <1>1, <1>2, <1>4, <1>5 DEF PlayersInv

\* What changes neither sessions nor times, and owes no time before or after unless a
\* failure came, keeps the count.
LEMMA PlayersAside ==
  ASSUME PlayersInv, playersSessions' = playersSessions, playersFaults' \in Nat,
         playersFaults' = 0 => playersFaults = 0,
         \A p \in Player : playersStats'[p].time = playersStats[p].time,
         \A c \in Caller : /\ playersCall'[c].step # "total"
                           /\ playersCall[c].step # "total" \/ playersFaults' # 0
  PROVE  PlayersCount'
<1> SUFFICES ASSUME NEW c \in Caller, NEW p \in Player
             PROVE  /\ playersStats'[p].time + PlayersOwed(c, p)' <= PlayedIn(playersSessions, p)
                    /\ playersFaults' = 0 =>
                          playersStats'[p].time + PlayersOwed(c, p)' = PlayedIn(playersSessions, p)
  BY DEF PlayersCount
<1>1. PlayersOwed(c, p)' = 0
  BY DEF PlayersOwed
<1>2. /\ playersStats[p].time + PlayersOwed(c, p) <= PlayedIn(playersSessions, p)
      /\ playersFaults = 0 => playersStats[p].time + PlayersOwed(c, p) = PlayedIn(playersSessions, p)
  BY DEF PlayersInv, PlayersCount
<1>3. playersStats[p].time \in Nat /\ PlayedIn(playersSessions, p) \in Nat
  BY PlayedCounts DEF PlayersInv, PlayersTypes
<1>4. PlayersOwed(c, p) \in Nat
  <2>1. CASE playersCall[c].step = "total" /\ playersCall[c].player = p
    <3>1. playersCall[c].session \in DOMAIN playersSessions
      BY <2>1 DEF PlayersInv, PlayersCalls
    <3>2. PlayedFor(playersSessions)[playersCall[c].session] \in Nat
      BY <3>1, PlayedCounts DEF PlayersInv, PlayersTypes
    <3> QED
      BY <2>1, <3>2 DEF PlayersOwed
  <2>2. CASE ~(playersCall[c].step = "total" /\ playersCall[c].player = p)
    BY <2>2 DEF PlayersOwed
  <2> QED
    BY <2>1, <2>2
<1>5. playersCall[c].step # "total" => PlayersOwed(c, p) = 0
  BY DEF PlayersOwed
<1> QED
  BY <1>1, <1>2, <1>3, <1>4, <1>5

PlayersCallSet == [step : Players!Step \cup {"idle"}, at : Nat, player : Player \cup {Players!Idle.player},
                   deaths : Nat, session : Nat]

LEMMA PlayersIdle ==
  /\ Players!Idle \in PlayersCallSet /\ Players!Idle.step = "idle"
  BY DEF Players!Idle, PlayersCallSet

\* What a call begins with, and with the session it found.
PlayersNew(step, at, q, d) == [Players!Idle EXCEPT !.step = step, !.at = at, !.player = q, !.deaths = d]
PlayersFound(k, j) == [k EXCEPT !.session = j, !.step = "close"]

LEMMA PlayersBegins ==
  ASSUME NEW step \in Players!Step, NEW at \in Nat, NEW q \in Player, NEW d \in Nat
  PROVE  /\ PlayersNew(step, at, q, d) \in PlayersCallSet
         /\ PlayersNew(step, at, q, d).step = step /\ PlayersNew(step, at, q, d).player = q
         /\ PlayersNew(step, at, q, d).at = at
  BY DEF PlayersNew, PlayersCallSet, Players!Idle

LEMMA PlayersFinds ==
  ASSUME NEW k \in PlayersCallSet, NEW j \in Nat
  PROVE  /\ PlayersFound(k, j) \in PlayersCallSet
         /\ PlayersFound(k, j).step = "close" /\ PlayersFound(k, j).session = j
         /\ PlayersFound(k, j).player = k.player /\ PlayersFound(k, j).at = k.at
  BY DEF PlayersFound, PlayersCallSet, Players!Step

\* Times stay, and a row that is there.
PlayersKeep ==
    \A q \in Player : /\ playersStats'[q].time = playersStats[q].time
                      /\ playersStats[q].known = TRUE => playersStats'[q].known = TRUE

LEMMA PlayersAdd ==
  ASSUME NEW k \in [time : Nat, deaths : Nat, known : BOOLEAN], NEW d \in Nat, NEW n \in Nat,
         NEW r, r = [k EXCEPT !.time = k.time + d, !.deaths = k.deaths + n]
  PROVE  /\ r \in [time : Nat, deaths : Nat, known : BOOLEAN]
         /\ r.time = k.time + d /\ r.known = k.known
<1>1. k = [time |-> k.time, deaths |-> k.deaths, known |-> k.known]
  OBVIOUS
<1>2. r = [time |-> k.time + d, deaths |-> k.deaths + n, known |-> k.known]
  BY <1>1
<1>3. k.time \in Nat /\ k.deaths \in Nat
  OBVIOUS
<1>4. k.known \in BOOLEAN
  BY Zenon
<1>5. k.time + d \in Nat /\ k.deaths + n \in Nat
  BY <1>3
<1> QED
  BY <1>2, <1>4, <1>5, Zenon

LEMMA PlayersGo == PlayersInv /\ [Players!Next]_Players!vars => PlayersInv'
<1> SUFFICES ASSUME PlayersInv, [Players!Next]_Players!vars PROVE PlayersInv'
  OBVIOUS
<1> PICK c \in Caller : Caller = {c}
  BY OneCallAtATime
<1> DEFINE call == playersCall[c]
           p == call.player
           s == playersSessions
           i == call.session
<1>1. /\ playersStats \in [Player -> [time : Nat, deaths : Nat, known : BOOLEAN]]
      /\ playersCall \in [Caller -> PlayersCallSet]
      /\ playersClock \in Nat \ {0} /\ playersFaults \in Nat
      /\ PlayersTypes /\ PlayersCalls /\ PlayersKnown /\ PlayersCount
  BY DEF PlayersInv, PlayersTypes, PlayersCallSet
<1>2. PICK n \in Nat : s \in [1..n -> PlayedRow]
  BY <1>1 DEF PlayersTypes
<1>3. /\ call \in PlayersCallSet
      /\ call.step \in Players!Step => p \in Player /\ call.at # 0 /\ call.at \in Nat /\ call.deaths \in Nat
      /\ call.step \in {"close", "total"} => i \in DOMAIN s
      /\ call.step = "close" => s[i].player = p /\ s[i].end = 0
      /\ call.step = "total" => s[i].end = call.at
  BY <1>1 DEF PlayersCalls, PlayersCallSet, Players!Step
<1> HIDE DEF call, p, s, i
\* What a call goes on with, and what it leaves.
<1>r. ASSUME playersCall' = [playersCall EXCEPT ![c] = Players!Idle]
      PROVE  playersCall' \in [Caller -> PlayersCallSet] /\ PlayersCalls' /\ playersCall'[c].step = "idle"
  <2>1. playersCall' \in [Caller -> PlayersCallSet] /\ playersCall'[c].step = "idle"
    BY <1>1, <1>r, PlayersIdle
  <2> QED
    BY <2>1 DEF PlayersCalls
<1>g. ASSUME NEW to \in {"session", "insert", "update"}, call.step \in Players!Step,
             playersCall' = [playersCall EXCEPT ![c].step = to]
      PROVE  /\ playersCall' \in [Caller -> PlayersCallSet] /\ PlayersCalls'
             /\ playersCall'[c].step = to /\ playersCall'[c].player = p
  <2>1. playersCall' = [playersCall EXCEPT ![c] = [call EXCEPT !.step = to]]
    BY <1>g DEF call
  <2>2. [call EXCEPT !.step = to] \in PlayersCallSet
    BY <1>3 DEF PlayersCallSet, Players!Step
  <2>3. playersCall' \in [Caller -> PlayersCallSet] /\ playersCall'[c] = [call EXCEPT !.step = to]
    BY <1>1, <2>1, <2>2
  <2>4. playersCall'[c].step = to /\ playersCall'[c].player = p /\ playersCall'[c].at = call.at
    BY <1>3, <2>3 DEF PlayersCallSet, p
  <2> QED
    BY <1>3, <1>g, <2>3, <2>4 DEF PlayersCalls
<1>s. playersStats' = playersStats => PlayersKeep
  BY DEF PlayersKeep
<1>q. ASSUME playersStats' \in [Player -> [time : Nat, deaths : Nat, known : BOOLEAN]],
             PlayersKeep,
             playersCall'[c].step = "session" => playersStats'[playersCall'[c].player].known = TRUE,
             playersCall' \in [Caller -> PlayersCallSet], PlayersCalls', playersCall'[c].step # "total",
             playersSessions' = s, playersClock' = playersClock, playersFaults' \in Nat,
             playersFaults' = 0 => playersFaults = 0,
             call.step # "total" \/ playersFaults' # 0
      PROVE  PlayersInv'
  <2>1. PlayersTypes'
    BY <1>1, <1>2, <1>q DEF PlayersTypes, PlayersCallSet, s
  <2>2. PlayersCount'
    BY <1>q, PlayersAside DEF PlayersKeep, s, call
  <2>3. PlayersKnown'
    BY <1>1, <1>2, <1>q DEF PlayersKnown, PlayedRow, PlayersKeep, s
  <2> QED
    BY <1>q, <1>s, <2>1, <2>2, <2>3 DEF PlayersInv
<1>f. /\ Players!Works => playersFaults' = playersFaults
      /\ Players!Fails => playersFaults' \in Nat /\ playersFaults' # 0
  BY <1>1 DEF Players!Works, Players!Fails
<1>k. ASSUME NEW q \in Player, playersStats' = [playersStats EXCEPT ![q].known = TRUE]
      PROVE  /\ playersStats' \in [Player -> [time : Nat, deaths : Nat, known : BOOLEAN]]
             /\ PlayersKeep
             /\ playersStats'[q].known = TRUE
  BY <1>1, <1>k DEF PlayersKeep
<1>d. ASSUME NEW q \in Player, NEW d \in Nat, playersStats' = [playersStats EXCEPT ![q].deaths = @ + d]
      PROVE  /\ playersStats' \in [Player -> [time : Nat, deaths : Nat, known : BOOLEAN]]
             /\ PlayersKeep
  BY <1>1, <1>d DEF PlayersKeep
<1>4. CASE UNCHANGED Players!vars
  BY <1>4, <1>1 DEF Players!vars, Players!tables, PlayersInv, PlayersTypes, PlayersCalls, PlayersKnown, PlayersCount,
     PlayersOwed, PlayedIn, PlayedFor, PlayedEnds
<1>5. CASE Players!Tick
  <2>1. UNCHANGED <<playersStats, playersSessions, playersCall, playersFaults>> /\ playersClock' \in Nat \ {0}
    BY <1>1, <1>5 DEF Players!Tick, Players!tables
  <2>2. PlayersTypes'
    BY <1>1, <2>1 DEF PlayersTypes
  <2>3. PlayersCalls' /\ PlayersKnown'
    BY <1>1, <2>1 DEF PlayersCalls, PlayersKnown
  <2>4. PlayersCount'
    BY <1>1, <2>1 DEF PlayersCount, PlayersOwed, PlayedIn, PlayedFor, PlayedEnds
  <2> QED
    BY <2>2, <2>3, <2>4 DEF PlayersInv
\* A call begins.
<1>6. ASSUME NEW step \in {"row", "find", "ip"}, NEW q \in Player, NEW d \in {0, 1},
             Players!Begin(c, step, q, d)
      PROVE  PlayersInv'
  <2> DEFINE new == PlayersNew(step, playersClock, q, d)
  <2>1. new \in PlayersCallSet /\ new.step = step /\ new.player = q /\ new.at = playersClock
    <3>1. step \in Players!Step /\ playersClock \in Nat /\ d \in Nat
      BY <1>1 DEF Players!Step
    <3> QED
      BY <3>1, PlayersBegins
  <2>2. playersCall' = [playersCall EXCEPT ![c] = new] /\ call = Players!Idle
        /\ UNCHANGED <<playersStats, playersSessions, playersClock, playersFaults>>
    BY <1>6 DEF Players!Begin, Players!tables, PlayersNew, call
  <2> HIDE DEF new
  <2>3. playersCall' \in [Caller -> PlayersCallSet] /\ playersCall'[c] = new
    BY <1>1, <2>1, <2>2
  <2>4. PlayersCalls'
    BY <1>1, <2>1, <2>3 DEF PlayersCalls
  <2>5. call.step # "total" /\ new.step # "total" /\ new.step # "session"
    BY <2>1, <2>2, PlayersIdle
  <2> QED
    BY <1>1, <1>q, <1>s, <2>2, <2>3, <2>4, <2>5 DEF s
<1>7. CASE Players!Row(c)
  <2>1. call.step = "row" /\ call.step \in Players!Step /\ playersSessions' = s /\ playersClock' = playersClock
    BY <1>7 DEF Players!Row, Players!Step, call, s
  <2>2. CASE Players!Works /\ playersStats' = Players!WithRow(call.player) /\ Players!Goto(c, "session")
    <3>1. playersStats' = [playersStats EXCEPT ![p].known = TRUE] /\ p \in Player
      BY <1>3, <2>1, <2>2 DEF Players!WithRow, p
    <3>2. playersCall' = [playersCall EXCEPT ![c].step = "session"]
      BY <2>2 DEF Players!Goto
    <3>3. /\ playersStats' \in [Player -> [time : Nat, deaths : Nat, known : BOOLEAN]]
          /\ PlayersKeep
          /\ playersStats'[p].known = TRUE
      BY <1>k, <3>1
    <3>4. /\ playersCall' \in [Caller -> PlayersCallSet] /\ PlayersCalls'
          /\ playersCall'[c].step = "session" /\ playersCall'[c].player = p
      BY <1>g, <2>1, <3>2
    <3>5. /\ playersCall'[c].step # "total" /\ playersSessions' = s /\ playersClock' = playersClock
          /\ playersCall'[c].step = "session" => playersStats'[playersCall'[c].player].known = TRUE
          /\ playersFaults' \in Nat /\ (playersFaults' = 0 => playersFaults = 0)
          /\ call.step # "total" \/ playersFaults' # 0
      BY <1>1, <1>f, <2>1, <2>2, <3>3, <3>4
    <3> QED
      BY <1>q, <3>3, <3>4, <3>5
  <2>3. CASE Players!Fails /\ playersStats' \in {playersStats, Players!WithRow(call.player)} /\ Players!Return(c)
    <3>1. /\ playersStats' = playersStats \/ playersStats' = [playersStats EXCEPT ![p].known = TRUE]
          /\ p \in Player
      BY <1>3, <2>1, <2>3 DEF Players!WithRow, p
    <3>2. playersCall' = [playersCall EXCEPT ![c] = Players!Idle]
      BY <2>3 DEF Players!Return
    <3>3. /\ playersStats' \in [Player -> [time : Nat, deaths : Nat, known : BOOLEAN]]
          /\ PlayersKeep
      BY <1>1, <1>k, <1>s, <3>1
    <3> QED
      BY <1>1, <1>f, <1>r, <1>q, <1>s, <2>1, <2>3, <3>2, <3>3
  <2> QED
    BY <1>7, <2>2, <2>3 DEF Players!Row, call
<1>8. CASE Players!Session(c)
  <2>1. /\ call.step = "session" /\ call.step \in Players!Step
        /\ playersStats' = playersStats /\ playersClock' = playersClock
        /\ playersCall' = [playersCall EXCEPT ![c] = Players!Idle]
    BY <1>8 DEF Players!Session, Players!Return, Players!Step, call
  <2>2. CASE Players!Fails /\ playersSessions' = playersSessions
    BY <1>1, <1>f, <1>r, <1>q, <1>s, <2>1, <2>2 DEF s
  <2>3. CASE /\ Players!Works
             /\ playersSessions' = [j \in 1..(Cardinality(DOMAIN playersSessions) + 1) |->
                   IF j \in DOMAIN playersSessions THEN playersSessions[j]
                   ELSE [player |-> call.player, start |-> call.at, end |-> Players!Open]]
    <3> DEFINE row == [player |-> p, start |-> call.at, end |-> 0]
               t == playersSessions'
    <3>1. t = [j \in 1..(n + 1) |-> IF j \in 1..n THEN s[j] ELSE row]
      BY <1>2, <2>3, FS_Interval DEF Players!Open, s, p
    <3>2. row \in PlayedRow /\ row.end = 0
      BY <1>3, <2>1 DEF PlayedRow
    <3> HIDE DEF row, t
    <3>3. n + 1 \in Nat /\ t \in [1..(n + 1) -> PlayedRow]
      BY <1>2, <3>1, <3>2
    <3>4. (\A j \in 1..n : t[j] = s[j]) /\ t[n + 1] = row /\ \A j \in 1..(n + 1) : j \in 1..n \/ j = n + 1
      BY <3>1
    <3>5. ASSUME NEW q PROVE PlayedIn(t, q) = PlayedIn(s, q)
      <4>1. PlayedEnds(t, q) = PlayedEnds(s, q)
        BY <1>2, <3>2, <3>3, <3>4 DEF PlayedEnds
      <4>2. \A j \in PlayedEnds(s, q) : t[j] = s[j]
        BY <1>2, <3>4 DEF PlayedEnds
      <4> QED
        BY <1>2, <3>3, <4>1, <4>2, PlayedStays
    <3>8. PlayersKnown'
      BY <1>1, <1>2, <1>r, <2>1, <3>1, <3>3, <3>4 DEF PlayersKnown, t, s, row, call, p
    <3>6. PlayersTypes'
      BY <1>1, <1>f, <1>r, <2>1, <2>3, <3>3 DEF PlayersTypes, PlayersCallSet, t
    <3>7. \A q : PlayersOwed(c, q)' = 0 /\ PlayersOwed(c, q) = 0
      BY <1>r, <2>1 DEF PlayersOwed, call
    <3> QED
      BY <1>1, <1>f, <1>r, <2>1, <2>3, <3>5, <3>6, <3>7, <3>8 DEF PlayersInv, PlayersCount, t, s
  <2>4. \/ Players!Fails /\ playersSessions' = playersSessions
        \/ Players!Works /\ playersSessions' = [j \in 1..(Cardinality(DOMAIN playersSessions) + 1) |->
                 IF j \in DOMAIN playersSessions THEN playersSessions[j]
                 ELSE [player |-> playersCall[c].player, start |-> playersCall[c].at, end |-> Players!Open]]
    BY <1>8 DEF Players!Session, Players!Cardinality, Cardinality
  <2> QED
    BY <2>2, <2>3, <2>4 DEF call
<1>9. CASE Players!Find(c)
  <2>1. call.step = "find" /\ call.step \in Players!Step
        /\ UNCHANGED <<playersStats, playersSessions, playersClock>>
    BY <1>9 DEF Players!Find, Players!Step, Players!tables, call
  <2>2. CASE Players!Fails /\ Players!Return(c)
    BY <1>1, <1>f, <1>r, <1>q, <1>s, <2>1, <2>2 DEF Players!Return, s
  <2>3. CASE Players!Works /\ Players!Goto(c, "insert")
    BY <1>1, <1>f, <1>g, <1>q, <1>s, <2>1, <2>3 DEF Players!Goto, s
  <2>4. ASSUME Players!Works, NEW j \in Players!OpenOf(call.player),
               playersCall' = [playersCall EXCEPT ![c].session = j, ![c].step = "close"]
        PROVE  PlayersInv'
    <3>1. j \in 1..n /\ s[j].player = p /\ s[j].end = 0
      BY <1>2, <2>4 DEF Players!OpenOf, Players!Open, s, p
    <3> DEFINE new == PlayersFound(call, j)
    <3>2. playersCall' = [playersCall EXCEPT ![c] = new]
      BY <1>1, <2>4 DEF call, PlayersFound
    <3>3. /\ new \in PlayersCallSet /\ new.step = "close" /\ new.session = j /\ new.player = p
          /\ new.at = call.at
      <4>1. j \in Nat /\ call \in PlayersCallSet
        BY <1>3, <3>1
      <4> QED
        BY <4>1, PlayersFinds DEF p
    <3> HIDE DEF new
    <3>4. playersCall' \in [Caller -> PlayersCallSet] /\ playersCall'[c] = new
      BY <1>1, <3>2, <3>3
    <3>5. PlayersCalls'
      BY <1>2, <1>3, <2>1, <3>1, <3>3, <3>4 DEF PlayersCalls, s
    <3> QED
      BY <1>1, <1>f, <1>q, <1>s, <2>1, <2>4, <3>3, <3>4, <3>5 DEF s
  <2> QED
    BY <1>9, <2>2, <2>3, <2>4 DEF Players!Find, call
<1>10. CASE Players!Close(c)
  <2>1. /\ call.step = "close" /\ call.step \in Players!Step
        /\ UNCHANGED <<playersStats, playersClock>>
    BY <1>10 DEF Players!Close, Players!Step, call
  <2>2. CASE Players!Fails /\ playersSessions' = s /\ Players!Return(c)
    BY <1>1, <1>f, <1>r, <1>q, <1>s, <2>1, <2>2 DEF Players!Return
  <2>3. CASE /\ Players!Works /\ playersSessions' = [playersSessions EXCEPT ![call.session].end = call.at]
             /\ Players!Goto(c, "total")
    <3> DEFINE row == [s[i] EXCEPT !.end = call.at]
               new == [call EXCEPT !.step = "total"]
               t == playersSessions'
    <3>1. i \in 1..n /\ p \in Player /\ s[i].player = p /\ s[i].end = 0 /\ call.at # 0 /\ call.at \in Nat
      BY <1>2, <1>3, <2>1
    <3>2. /\ row \in PlayedRow /\ row.player = p /\ row.start = s[i].start /\ row.end = call.at
      BY <1>2, <3>1 DEF PlayedRow
    <3>3. t = [s EXCEPT ![i] = row] /\ playersCall' = [playersCall EXCEPT ![c] = new]
      BY <1>1, <2>3 DEF Players!Goto, call, s, i
    <3>4. /\ new \in PlayersCallSet /\ new.step = "total" /\ new.session = i /\ new.player = p
          /\ new.at = call.at
      BY <1>3 DEF PlayersCallSet, Players!Step, p, i
    <3> HIDE DEF row, new, t
    <3>5. /\ t \in [1..n -> PlayedRow] /\ t[i] = row /\ \A j \in 1..n : j # i => t[j] = s[j]
          /\ playersCall' \in [Caller -> PlayersCallSet] /\ playersCall'[c] = new
      BY <1>1, <1>2, <3>1, <3>2, <3>3, <3>4
    <3>6. /\ PlayedIn(t, p) = PlayedIn(s, p) + PlayedFor(t)[i]
          /\ \A q : q # p => PlayedIn(t, q) = PlayedIn(s, q)
      <4>1. /\ i \in 1..n /\ s[i].end = 0 /\ t[i].player = s[i].player /\ t[i].start = s[i].start
            /\ t[i].end # 0 /\ s \in [1..n -> PlayedRow] /\ t \in [1..n -> PlayedRow]
            /\ \A j \in 1..n : j # i => t[j] = s[j]
        BY <1>2, <3>1, <3>2, <3>5
      <4>2. /\ PlayedIn(t, s[i].player) = PlayedIn(s, s[i].player) + PlayedFor(t)[i]
            /\ \A q : q # s[i].player => PlayedIn(t, q) = PlayedIn(s, q)
        BY <4>1, PlayedGrows, Zenon
      <4> QED
        BY <3>1, <4>2
    <3>7. PlayersTypes'
      BY <1>1, <1>f, <2>1, <2>3, <3>5 DEF PlayersTypes, PlayersCallSet, t
    <3>8. PlayersCalls'
      BY <3>1, <3>2, <3>4, <3>5 DEF PlayersCalls, t
    <3>9. ASSUME NEW q \in Player
          PROVE  /\ playersStats'[q].time + PlayersOwed(c, q)' <= PlayedIn(t, q)
                 /\ playersFaults' = 0 => playersStats'[q].time + PlayersOwed(c, q)' = PlayedIn(t, q)
      <4>1. PlayersOwed(c, q)' = IF q = p THEN PlayedFor(t)[i] ELSE 0
        BY <3>4, <3>5 DEF PlayersOwed, t
      <4>2. PlayersOwed(c, q) = 0
        BY <2>1 DEF PlayersOwed, call
      <4>3. /\ playersStats[q].time + PlayersOwed(c, q) <= PlayedIn(s, q)
            /\ playersFaults = 0 => playersStats[q].time + PlayersOwed(c, q) = PlayedIn(s, q)
        BY <1>1 DEF PlayersCount, s
      <4>4. playersStats[q].time \in Nat /\ PlayedIn(s, q) \in Nat /\ PlayedFor(t)[i] \in Nat
        BY <1>1, <1>2, <3>1, <3>5, PlayedCounts
      <4>5. playersStats' = playersStats /\ playersFaults' = playersFaults
        BY <1>f, <2>1, <2>3
      <4>6. PlayedIn(t, q) = PlayedIn(s, q) + (IF q = p THEN PlayedFor(t)[i] ELSE 0)
        BY <3>6, <4>4
      <4> QED
        BY <4>1, <4>2, <4>3, <4>4, <4>5, <4>6
    <3>10. PlayersCount'
      BY <3>9 DEF PlayersCount, t
    <3>11. PlayersKnown'
      <4>1. playersCall'[c].step # "session" /\ playersStats' = playersStats
        BY <2>1, <3>4, <3>5
      <4>2. \A j \in 1..n : playersStats[s[j].player].known = TRUE
        BY <1>1, <1>2 DEF PlayersKnown, s
      <4>3. \A j \in 1..n : t[j].player = s[j].player
        BY <3>1, <3>2, <3>5
      <4>4. DOMAIN t = 1..n
        BY <3>5
      <4> QED
        BY <4>1, <4>2, <4>3, <4>4 DEF PlayersKnown, t
    <3> QED
      BY <3>7, <3>8, <3>10, <3>11 DEF PlayersInv
  <2> QED
    BY <1>10, <2>2, <2>3 DEF Players!Close, call, s
<1>11. CASE Players!Total(c)
  <2>1. /\ call.step = "total" /\ call.step \in Players!Step
        /\ playersCall' = [playersCall EXCEPT ![c] = Players!Idle]
        /\ playersSessions' = s /\ playersClock' = playersClock
    BY <1>11 DEF Players!Total, Players!Return, Players!Step, call, s
  <2>2. CASE Players!Fails /\ playersStats' = playersStats
    BY <1>1, <1>f, <1>r, <1>q, <1>s, <2>1, <2>2
  <2>3. CASE /\ Players!Works
             /\ playersStats' = [playersStats EXCEPT ![call.player].time = @ + Players!Duration(c),
                                                     ![call.player].deaths = @ + call.deaths]
    <3> DEFINE d == PlayedFor(s)[i]
               t == playersStats'
    <3>1. i \in 1..n /\ s[i].end = call.at /\ p \in Player /\ call.at \in Nat /\ call.deaths \in Nat
      BY <1>2, <1>3, <2>1
    <3>2. Players!Duration(c) = d
      BY <1>2, <3>1 DEF Players!Duration, PlayedFor, call, s, i
    <3>3. d \in Nat
      BY <1>2, <3>1, PlayedCounts
    <3>4. t = [playersStats EXCEPT ![p].time = @ + d, ![p].deaths = @ + call.deaths]
      BY <2>3, <3>2 DEF p
    <3> HIDE DEF d, t
    <3> DEFINE row == [playersStats[p] EXCEPT !.time = @ + d, !.deaths = @ + call.deaths]
    <3>a. /\ row \in [time : Nat, deaths : Nat, known : BOOLEAN] /\ row.time = playersStats[p].time + d
          /\ row.known = playersStats[p].known
      <4>1. playersStats[p] \in [time : Nat, deaths : Nat, known : BOOLEAN]
        BY <1>1, <3>1
      <4> QED
        BY <3>1, <3>3, <4>1, PlayersAdd
    <3>b. t = [playersStats EXCEPT ![p] = row]
      BY <1>1, <3>1, <3>4
    <3> HIDE DEF row
    <3>5. /\ t \in [Player -> [time : Nat, deaths : Nat, known : BOOLEAN]]
          /\ t[p].time = playersStats[p].time + d
          /\ \A q \in Player : q # p => t[q] = playersStats[q]
          /\ t[p].known = playersStats[p].known
      BY <1>1, <3>1, <3>a, <3>b
    <3>6. PlayersTypes'
      BY <1>1, <1>2, <1>f, <1>r, <2>1, <2>3, <3>5 DEF PlayersTypes, PlayersCallSet, t
    <3>7. ASSUME NEW q \in Player
          PROVE  /\ t[q].time + PlayersOwed(c, q)' <= PlayedIn(s, q)
                 /\ playersFaults' = 0 => t[q].time + PlayersOwed(c, q)' = PlayedIn(s, q)
      <4>1. PlayersOwed(c, q)' = 0
        BY <1>r, <2>1 DEF PlayersOwed
      <4>2. PlayersOwed(c, q) = IF q = p THEN d ELSE 0
        BY <2>1 DEF PlayersOwed, call, d, s, i, p
      <4>3. /\ playersStats[q].time + PlayersOwed(c, q) <= PlayedIn(s, q)
            /\ playersFaults = 0 => playersStats[q].time + PlayersOwed(c, q) = PlayedIn(s, q)
        BY <1>1 DEF PlayersCount, s
      <4>4. playersStats[q].time \in Nat /\ PlayedIn(s, q) \in Nat
        BY <1>1, <1>2, PlayedCounts
      <4>5. t[q].time = playersStats[q].time + (IF q = p THEN d ELSE 0)
        BY <3>5, <4>4
      <4> QED
        BY <1>f, <2>3, <3>3, <4>1, <4>2, <4>3, <4>4, <4>5
    <3>8. PlayersCount'
      BY <2>1, <3>7 DEF PlayersCount, t
    <3>9. PlayersKnown'
      BY <1>1, <1>2, <1>r, <2>1, <3>5 DEF PlayersKnown, PlayedRow, t, s
    <3> QED
      BY <1>r, <2>1, <3>6, <3>8, <3>9 DEF PlayersInv
  <2> QED
    BY <1>11, <2>2, <2>3 DEF Players!Total, call
<1>12. CASE Players!Insert(c)
  <2>1. /\ call.step = "insert" /\ call.step \in Players!Step
        /\ playersSessions' = s /\ playersClock' = playersClock
    BY <1>12 DEF Players!Insert, Players!Step, call, s
  <2>2. CASE Players!Fails /\ playersStats' = playersStats /\ Players!Return(c)
    BY <1>1, <1>f, <1>r, <1>q, <1>s, <2>1, <2>2 DEF Players!Return
  <2>3. CASE Players!Works /\ playersStats' = playersStats /\ Players!Goto(c, "update")
    BY <1>1, <1>f, <1>g, <1>q, <1>s, <2>1, <2>3 DEF Players!Goto
\* The row that is made has no time; a player without one has none.
  <2>4. CASE /\ Players!Works /\ ~playersStats[p].known /\ Players!Goto(c, "update")
             /\ playersStats' = [playersStats EXCEPT ![p] =
                   [Players!NoRow EXCEPT !.known = TRUE, !.deaths = call.deaths]]
    <3>1. p \in Player /\ call.deaths \in Nat
      BY <1>3, <2>1
    <3>2. PlayedEnds(s, p) = {}
      BY <1>1, <1>2, <2>4 DEF PlayersKnown, PlayedEnds, s
    <3>3. PlayedIn(s, p) = 0
      BY <1>2, <3>2, PlayedCounts, Sums DEF PlayedIn
    <3>4. playersStats[p].time \in Nat /\ playersStats[p].time + PlayersOwed(c, p) <= 0
      BY <1>1, <3>1, <3>3 DEF PlayersCount, s
    <3>5. PlayersOwed(c, p) = 0
      BY <2>1 DEF PlayersOwed, call
    <3>6. playersStats[p].time = 0
      BY <3>4, <3>5
    <3> DEFINE row == [Players!NoRow EXCEPT !.known = TRUE, !.deaths = call.deaths]
    <3>7. row \in [time : Nat, deaths : Nat, known : BOOLEAN] /\ row.time = 0 /\ row.known = TRUE
      BY <3>1 DEF Players!NoRow
    <3> HIDE DEF row
    <3>8. playersStats' = [playersStats EXCEPT ![p] = row]
      BY <2>4 DEF row
    <3>9. /\ playersStats' \in [Player -> [time : Nat, deaths : Nat, known : BOOLEAN]]
          /\ PlayersKeep
      BY <1>1, <3>1, <3>6, <3>7, <3>8 DEF PlayersKeep
    <3> QED
      <4>1. /\ playersCall' \in [Caller -> PlayersCallSet] /\ PlayersCalls'
            /\ playersCall'[c].step = "update"
        BY <1>g, <2>1, <2>4 DEF Players!Goto
      <4> QED
        BY <1>f, <1>q, <1>1, <2>1, <2>4, <3>9, <4>1
  <2> QED
    BY <1>12, <2>2, <2>3, <2>4 DEF Players!Insert, call, p, s
<1>13. CASE Players!Update(c)
  <2>1. /\ call.step = "update" /\ call.step \in Players!Step
        /\ playersSessions' = s /\ playersClock' = playersClock
        /\ playersCall' = [playersCall EXCEPT ![c] = Players!Idle]
        /\ p \in Player /\ call.deaths \in Nat
    BY <1>3, <1>13 DEF Players!Update, Players!Return, Players!Step, call, s
  <2>2. CASE Players!Fails /\ playersStats' = playersStats
    BY <1>1, <1>f, <1>r, <1>q, <1>s, <2>1, <2>2
  <2>3. CASE Players!Works /\ playersStats' = [playersStats EXCEPT ![call.player].deaths = @ + call.deaths]
    <3>1. playersStats' = [playersStats EXCEPT ![p].deaths = @ + call.deaths]
      BY <2>3 DEF p
    <3>2. /\ playersStats' \in [Player -> [time : Nat, deaths : Nat, known : BOOLEAN]]
          /\ PlayersKeep
      BY <1>d, <2>1, <3>1
    <3> QED
      BY <1>1, <1>f, <1>r, <1>q, <1>s, <2>1, <2>3, <3>2
  <2> QED
    BY <1>13, <2>2, <2>3 DEF Players!Update, call
<1>14. CASE Players!Ip(c)
  <2>1. /\ call.step = "ip" /\ call.step \in Players!Step
        /\ playersSessions' = s /\ playersClock' = playersClock
        /\ playersCall' = [playersCall EXCEPT ![c] = Players!Idle]
        /\ p \in Player /\ (Players!Works \/ Players!Fails)
        /\ playersStats' = playersStats \/ playersStats' = [playersStats EXCEPT ![p].known = TRUE]
    BY <1>3, <1>14 DEF Players!Ip, Players!Return, Players!Step, Players!WithRow, call, s, p
  <2> QED
    <3>1. PlayersKeep /\ playersStats' \in [Player -> [time : Nat, deaths : Nat, known : BOOLEAN]]
      BY <1>1, <1>k, <1>s, <2>1
    <3> QED
      BY <1>1, <1>f, <1>r, <1>q, <2>1, <3>1
<1>15. CASE Players!Crash
  <2>1. playersCall' = [x \in Caller |-> Players!Idle] /\ Players!Fails
        /\ UNCHANGED <<playersStats, playersSessions, playersClock>>
    BY <1>15 DEF Players!Crash, Players!tables
  <2>2. playersCall' = [playersCall EXCEPT ![c] = Players!Idle]
    BY <1>1, <2>1
  <2> QED
    BY <1>1, <1>f, <1>r, <1>q, <1>s, <2>1, <2>2 DEF s
<1>16. ASSUME NEW q \in Player, Players!Start(c, q) \/ Players!RecordIp(c, q) \/ Players!End(c, q, 1)
       PROVE  PlayersInv'
  BY <1>6, <1>16 DEF Players!Start, Players!RecordIp, Players!End
<1> QED
  BY <1>4, <1>5, <1>7, <1>8, <1>9, <1>10, <1>11, <1>12, <1>13, <1>14, <1>15, <1>16 DEF Players!Next

\* The play time of a player is that of the sessions that ended, each counted once, with
\* one call at a time; it is less only when a failure came between the two statements.
THEOREM PlayedTimeIsOfSessions == Players!Spec => []Players!PlaytimeIsOfSessions
<1>1. PlayersInv => Players!PlaytimeIsOfSessions
  <2> SUFFICES ASSUME PlayersInv, NEW p \in Player
               PROVE  /\ playersStats[p].time <= PlayedIn(playersSessions, p)
                      /\ playersFaults = 0 /\ Players!Settled =>
                            playersStats[p].time = PlayedIn(playersSessions, p)
    BY PlayersPlayed DEF Players!PlaytimeIsOfSessions
  <2> PICK c \in Caller : Caller = {c}
    BY OneCallAtATime
  <2>1. /\ playersStats[p].time + PlayersOwed(c, p) <= PlayedIn(playersSessions, p)
        /\ playersFaults = 0 => playersStats[p].time + PlayersOwed(c, p) = PlayedIn(playersSessions, p)
        /\ playersStats[p].time \in Nat /\ PlayedIn(playersSessions, p) \in Nat
    BY PlayedCounts DEF PlayersInv, PlayersCount, PlayersTypes
  <2>2. PlayersOwed(c, p) \in Nat
    <3>1. CASE playersCall[c].step = "total" /\ playersCall[c].player = p
      <4>1. playersCall[c].session \in DOMAIN playersSessions
        BY <3>1 DEF PlayersInv, PlayersCalls
      <4>2. PlayedFor(playersSessions)[playersCall[c].session] \in Nat
        BY <4>1, PlayedCounts DEF PlayersInv, PlayersTypes
      <4> QED
        BY <3>1, <4>2 DEF PlayersOwed
    <3>2. CASE ~(playersCall[c].step = "total" /\ playersCall[c].player = p)
      BY <3>2 DEF PlayersOwed
    <3> QED
      BY <3>1, <3>2
  <2>3. Players!Settled => PlayersOwed(c, p) = 0
    BY DEF Players!Settled, PlayersOwed
  <2> QED
    BY <2>1, <2>2, <2>3
<1> QED
  BY <1>1, PlayersStart, PlayersGo, PTL DEF Players!Spec

-----------------------------------------------------------------------------
(***************************************************************************)
(* The repairs between two boots (RuntimeRepair).                          *)
(***************************************************************************)

\* Every major that was configured is recorded, and none twice.
RemedyInv ==
    /\ remedyLog.class \in Major \cup {0}
    /\ remedyGiven \in Seq(Nat)
    /\ \A i \in 1..Len(remedyGiven) : remedyGiven[i] \in remedyTried
    /\ \A i, j \in 1..Len(remedyGiven) : remedyGiven[i] = remedyGiven[j] => i = j

LEMMA RemedyInitially == Remedy!Init => RemedyInv
  BY DEF Remedy!Init, RemedyInv, Remedy!NoLog

LEMMA RemedyStep == RemedyInv /\ [Remedy!Next]_Remedy!vars => RemedyInv'
<1> SUFFICES ASSUME RemedyInv, [Remedy!Next]_Remedy!vars PROVE RemedyInv'
  OBVIOUS
<1> USE DEF Remedy!counters
<1>1. CASE Remedy!Boot
  BY <1>1 DEF Remedy!Boot, Remedy!Log, RemedyInv
<1>2. CASE Remedy!RepairDependency \/ Remedy!GiveUp
  BY <1>2 DEF Remedy!RepairDependency, Remedy!GiveUp, RemedyInv
<1>3. CASE Remedy!RepairRuntime
  <2>1. remedyLog'.class = 0
    BY <1>3 DEF Remedy!RepairRuntime, Remedy!NoLog
  <2>2. CASE UNCHANGED <<remedyTried, remedyGiven>>
    BY <2>1, <2>2 DEF RemedyInv
  <2>3. CASE ~UNCHANGED <<remedyTried, remedyGiven>>
    <3>1. PICK major : /\ major = Remedy!Issue(remedyLog).major
                       /\ major \notin remedyTried
                       /\ remedyTried' = remedyTried \cup {major}
                       /\ remedyGiven' = Append(remedyGiven, major)
      BY <1>3, <2>3 DEF Remedy!RepairRuntime, Remedy!RecordJava
    <3>a. Remedy!Issue(remedyLog).major \in {Remedy!RequiredFor(remedyLog.class), NeededMajor, 0}
      <4> DEFINE m == remedyLog.marks
      <4>1. CASE "wrong java" \in m
        BY <4>1 DEF Remedy!Issue
      <4>2. CASE "wrong java" \notin m /\ m \cap {"out of memory", "loader"} # {}
        BY <4>2 DEF Remedy!Issue
      <4>3. CASE m \cap {"wrong java", "out of memory", "loader"} = {} /\ "no java" \in m
        BY <4>3 DEF Remedy!Issue
      <4>4. CASE m \cap {"wrong java", "out of memory", "loader"} = {} /\ "no java" \notin m
        BY <4>4 DEF Remedy!Issue
      <4> QED
        BY <4>1, <4>2, <4>3, <4>4
    <3>b. Remedy!RequiredFor(remedyLog.class) \in Nat
      <4>1. remedyLog.class \in Major \cup {0}
        BY DEF RemedyInv
      <4>a. ASSUME NEW m \in Major PROVE m \in Nat
        BY MajorsAreNumbers
      <4>b. NeededMajor \in Nat
        BY MajorsAreNumbers
      <4>c. CASE remedyLog.class = 0
        BY <4>b, <4>c DEF Remedy!RequiredFor
      <4>d. CASE remedyLog.class \in Major
        BY <4>a, <4>b, <4>d DEF Remedy!RequiredFor
      <4> QED
        BY <4>1, <4>c, <4>d
    <3>2. major \in Nat
      BY <3>1, <3>a, <3>b, MajorsAreNumbers
    <3> QED
      BY <2>1, <3>1, <3>2 DEF RemedyInv
  <2> QED
    BY <2>2, <2>3
<1>4. CASE Remedy!Resume
  BY <1>4 DEF Remedy!Resume, RemedyInv, Remedy!NoLog
<1>5. CASE UNCHANGED Remedy!vars
  BY <1>5 DEF Remedy!vars, RemedyInv
<1> QED
  BY <1>1, <1>2, <1>3, <1>4, <1>5 DEF Remedy!Next

\* No validation configures the same Java twice, whichever way the logs of its boots ask.
THEOREM NoJavaTwice == Remedy!Spec => []Remedy!NoRepairTwice
<1>1. RemedyInv => Remedy!NoRepairTwice
  BY DEF RemedyInv, Remedy!NoRepairTwice, Remedy!IsInjective
<1> QED
  BY <1>1, RemedyInitially, RemedyStep, PTL DEF Remedy!Spec

-----------------------------------------------------------------------------
(***************************************************************************)
(* The tunnels (RemoteAccess).                                             *)
(***************************************************************************)

TunnelCalls == [step : Tunnel!Step, started : Process \cup {NoProcess},
                port : Port \cup {CHOOSE p \in Port : TRUE}]

\* A start that has killed the processes of its port finds none alive there, or has missed it.
TunnelInv ==
    /\ DOMAIN remoteProc = Process /\ DOMAIN remotePort = Process
    /\ remoteSettings.port \in Port
    /\ remoteCall \in [Caller -> TunnelCalls]
    /\ \A c \in Caller : remoteCall[c].step \in {"ensure", "spawn"} =>
          \A p \in Process \ remoteMissed :
             remoteProc[p] \in {"living", "dying"} => remotePort[p] # remoteCall[c].port
    /\ Tunnel!OneTunnel

LEMMA TunnelInitially == Tunnel!Init => TunnelInv
  BY DEF Tunnel!Init, TunnelInv, Tunnel!OneTunnel, Tunnel!Idle, Tunnel!Step, TunnelCalls

\* A step that starts no process and takes no call to one of the two steps.
LEMMA TunnelsOnlyEnd ==
  ASSUME TunnelInv, remotePort' = remotePort, remoteMissed' = remoteMissed, DOMAIN remoteProc' = Process, remoteSettings'.port \in Port,
         \A p \in Process : remoteProc'[p] = "living" => remoteProc[p] = "living",
         \A p \in Process : remoteProc'[p] = "dying" => remoteProc[p] \in {"living", "dying"},
         remoteCall' \in [Caller -> TunnelCalls],
         \A c \in Caller : remoteCall'[c].step \in {"ensure", "spawn"} =>
            remoteCall[c].step \in {"ensure", "spawn"} /\ remoteCall'[c].port = remoteCall[c].port
  PROVE  TunnelInv'
  BY DEF TunnelInv, Tunnel!OneTunnel

LEMMA TunnelStep == TunnelInv /\ [Tunnel!Next]_Tunnel!vars => TunnelInv'
<1> SUFFICES ASSUME TunnelInv, [Tunnel!Next]_Tunnel!vars PROVE TunnelInv'
  OBVIOUS
<1> USE DEF Tunnel!Goto, Tunnel!Return
<1>t. /\ DOMAIN remoteProc = Process /\ remoteCall \in [Caller -> TunnelCalls]
      /\ remoteSettings.port \in Port
  BY DEF TunnelInv
<1>i. Tunnel!Idle \in TunnelCalls /\ Tunnel!Idle.step = "idle"
  BY DEF Tunnel!Idle, TunnelCalls, Tunnel!Step
\* A call that goes on to a step that is neither of the two, or from one to the other.
<1>s. ASSUME NEW c \in Caller, NEW new \in TunnelCalls,
             new.step \in {"ensure", "spawn"} =>
                remoteCall[c].step \in {"ensure", "spawn"} /\ new.port = remoteCall[c].port,
             remoteCall' = [remoteCall EXCEPT ![c] = new], UNCHANGED <<remotePort, remoteSettings, remoteMissed>>,
             DOMAIN remoteProc' = Process,
             \A p \in Process : remoteProc'[p] = "living" => remoteProc[p] = "living",
             \A p \in Process : remoteProc'[p] = "dying" => remoteProc[p] \in {"living", "dying"}
      PROVE  TunnelInv'
  <2>1. /\ remoteCall' \in [Caller -> TunnelCalls]
        /\ remoteCall'[c] = new
        /\ \A d \in Caller \ {c} : remoteCall'[d] = remoteCall[d]
    BY <1>s, <1>t
  <2>2. \A d \in Caller : remoteCall'[d].step \in {"ensure", "spawn"} =>
           remoteCall[d].step \in {"ensure", "spawn"} /\ remoteCall'[d].port = remoteCall[d].port
    BY <1>s, <2>1
  <2> QED
    BY <1>s, <1>t, <2>1, <2>2, TunnelsOnlyEnd
<1>g. ASSUME NEW c \in Caller, NEW step \in Tunnel!Step, NEW new, new = [remoteCall[c] EXCEPT !.step = step]
      PROVE  new \in TunnelCalls /\ new.step = step /\ new.port = remoteCall[c].port
  BY <1>g, <1>t DEF TunnelCalls
<1>e. {"idle", "stop", "strays", "ensure", "spawn", "track", "await"} \subseteq Tunnel!Step
  BY DEF Tunnel!Step
<1>1. ASSUME NEW c \in Caller, Tunnel!Sync(c) PROVE TunnelInv'
  <2>1. PICK new \in TunnelCalls : new.step \in {"idle", "stop"} /\ remoteCall' = [remoteCall EXCEPT ![c] = new]
    <3>1. CASE remoteService' = NoToken
      BY <1>1, <1>i, <3>1 DEF Tunnel!Sync
    <3>2. CASE remoteService' # NoToken
      <4> DEFINE new == [remoteCall[c] EXCEPT !.step = "stop", !.port = remoteSettings.port]
      <4>1. remoteCall' = [remoteCall EXCEPT ![c].step = "stop", ![c].port = remoteSettings.port]
        BY <1>1, <3>2 DEF Tunnel!Sync
      <4>2. remoteCall' = [remoteCall EXCEPT ![c] = new]
        BY <4>1
      <4>3. ASSUME NEW q \in TunnelCalls, NEW r, r = [q EXCEPT !.step = "stop", !.port = remoteSettings.port]
            PROVE  r.step = "stop" /\ r \in TunnelCalls
        BY <4>3, <1>t, <1>e DEF TunnelCalls
      <4>4. new.step = "stop" /\ new \in TunnelCalls
        BY <4>3, <1>t
      <4> QED
        BY <4>2, <4>4
    <3> QED
      BY <3>1, <3>2
  <2> QED
    BY <1>1, <1>s, <1>t, <2>1 DEF Tunnel!Sync
\* A tracked process is told to stop.
<1>p. ASSUME Tunnel!Stopping
      PROVE  /\ DOMAIN remoteProc' = Process
             /\ \A p \in Process : remoteProc'[p] = "living" => remoteProc[p] = "living"
             /\ \A p \in Process : remoteProc'[p] = "dying" => remoteProc[p] \in {"living", "dying"}
  BY <1>p, <1>t DEF Tunnel!Stopping, Tunnel!Signalled, Tunnel!Alive
<1>2. ASSUME NEW c \in Caller, Tunnel!StopTracked(c) PROVE TunnelInv'
  <2> DEFINE new == [remoteCall[c] EXCEPT !.step = "strays"]
  <2>1. new \in TunnelCalls /\ new.step = "strays"
    BY <1>g, <1>e
  <2>2. remoteCall' = [remoteCall EXCEPT ![c] = new]
    BY <1>2 DEF Tunnel!StopTracked
  <2> HIDE DEF new
  <2> QED
    BY <1>2, <1>p, <1>s, <2>1, <2>2 DEF Tunnel!StopTracked
<1>3. ASSUME NEW c \in Caller, Tunnel!KillStrays(c) PROVE TunnelInv'
  <2> DEFINE new == [remoteCall[c] EXCEPT !.step = "ensure"]
  <2>1. new \in TunnelCalls /\ new.step = "ensure" /\ new.port = remoteCall[c].port
    BY <1>g, <1>e
  <2>2. remoteCall' = [remoteCall EXCEPT ![c] = new] /\ UNCHANGED <<remotePort, remoteSettings>>
    BY <1>3 DEF Tunnel!KillStrays
  <2> HIDE DEF new
  <2>3. /\ remoteCall' \in [Caller -> TunnelCalls]
        /\ remoteCall'[c] = new
        /\ \A d \in Caller \ {c} : remoteCall'[d] = remoteCall[d]
    BY <2>1, <2>2, <1>t
  \* Those that live on the port are killed, or missed.
  <2>4. /\ DOMAIN remoteProc' = Process
        /\ \A p \in Process : remoteProc'[p] # "ended" => remoteProc'[p] = remoteProc[p]
        /\ remoteMissed \subseteq remoteMissed'
        /\ \A p \in Process \ remoteMissed' :
              remoteProc'[p] \in {"living", "dying"} => remotePort[p] # remoteCall[c].port
    <3>1. CASE remoteProc' = Tunnel!StraysKilled(remoteCall[c].port) /\ UNCHANGED remoteMissed
      BY <3>1 DEF Tunnel!StraysKilled, Tunnel!Alive
    <3>2. CASE /\ remoteMissed' = remoteMissed
                     \cup {p \in Process : Tunnel!Alive(p) /\ remotePort[p] = remoteCall[c].port}
               /\ UNCHANGED remoteProc
      BY <1>t, <3>2 DEF Tunnel!Alive
    <3> QED
      BY <1>3, <3>1, <3>2 DEF Tunnel!KillStrays
  <2>5. ASSUME NEW d \in Caller, remoteCall'[d].step \in {"ensure", "spawn"},
               NEW p \in Process \ remoteMissed', remoteProc'[p] \in {"living", "dying"}
        PROVE  remotePort'[p] # remoteCall'[d].port
    BY <2>1, <2>2, <2>3, <2>4, <2>5 DEF TunnelInv
  <2>6. Tunnel!OneTunnel'
    BY <2>2, <2>4 DEF TunnelInv, Tunnel!OneTunnel
  <2>7. DOMAIN remotePort' = Process
    BY <2>2 DEF TunnelInv
  <2> QED
    BY <1>t, <2>2, <2>3, <2>4, <2>5, <2>6, <2>7 DEF TunnelInv
<1>4. ASSUME NEW c \in Caller, Tunnel!Ensure(c) PROVE TunnelInv'
  <2>1. /\ remoteCall[c].step = "ensure" /\ UNCHANGED <<remoteSettings, remoteProc, remotePort, remoteMissed>>
        /\ \/ remoteCall' = [remoteCall EXCEPT ![c] = Tunnel!Idle]
           \/ remoteCall' = [remoteCall EXCEPT ![c] = [remoteCall[c] EXCEPT !.step = "spawn"]]
    BY <1>4 DEF Tunnel!Ensure
  <2>2. PICK new \in TunnelCalls :
           /\ new.step = "idle" \/ (new.step = "spawn" /\ new.port = remoteCall[c].port)
           /\ remoteCall' = [remoteCall EXCEPT ![c] = new]
    BY <1>g, <1>e, <1>i, <2>1
  <2> QED
    BY <1>s, <1>t, <2>1, <2>2
<1>5. ASSUME NEW c \in Caller, Tunnel!Spawn(c) PROVE TunnelInv'
  <2>1. CASE Tunnel!Return(c) /\ UNCHANGED <<remoteProc, remotePort>>
    BY <1>5, <1>s, <1>t, <1>i, <2>1 DEF Tunnel!Spawn
  <2>2. CASE \E p \in Process :
               /\ remoteProc' = [remoteProc EXCEPT ![p] = "living"]
               /\ remotePort' = [remotePort EXCEPT ![p] = remoteCall[c].port]
               /\ remoteCall' = [remoteCall EXCEPT ![c].step = "track", ![c].started = p]
    <3>1. PICK p \in Process :
               /\ remoteProc' = [remoteProc EXCEPT ![p] = "living"]
               /\ remotePort' = [remotePort EXCEPT ![p] = remoteCall[c].port]
               /\ remoteCall' = [remoteCall EXCEPT ![c].step = "track", ![c].started = p]
      BY <2>2
    <3>2. /\ remoteCall[c].step = "spawn" /\ UNCHANGED <<remoteSettings, remoteMissed>>
          /\ Caller = {c}
      BY <1>5, OneCallAtATime DEF Tunnel!Spawn
    <3> DEFINE new == [remoteCall[c] EXCEPT !.step = "track", !.started = p]
    <3>3. remoteCall' = [remoteCall EXCEPT ![c] = new]
      BY <3>1
    <3>a. ASSUME NEW q \in TunnelCalls, NEW r, r = [q EXCEPT !.step = "track", !.started = p]
          PROVE  r.step = "track" /\ r \in TunnelCalls
      BY <3>a, <1>e DEF TunnelCalls
    <3>4. new.step = "track" /\ new \in TunnelCalls
      BY <3>a, <1>t
    <3> HIDE DEF new
    <3>5. /\ remoteCall' \in [Caller -> TunnelCalls]
          /\ \A d \in Caller : remoteCall'[d].step = "track"
      BY <3>2, <3>3, <3>4, <1>t
    <3>6. /\ DOMAIN remoteProc' = Process /\ DOMAIN remotePort' = Process
          /\ \A q \in Process \ {p} : remoteProc'[q] = remoteProc[q] /\ remotePort'[q] = remotePort[q]
          /\ remotePort'[p] = remoteCall[c].port
      BY <3>1, <1>t DEF TunnelInv
    <3>7. \A q \in Process \ remoteMissed : remoteProc[q] \in {"living", "dying"} => remotePort[q] # remoteCall[c].port
      BY <3>2 DEF TunnelInv
    <3>8. Tunnel!OneTunnel'
      BY <3>2, <3>6, <3>7 DEF TunnelInv, Tunnel!OneTunnel
    <3> QED
      BY <1>t, <3>2, <3>5, <3>6, <3>8 DEF TunnelInv
  <2> QED
    BY <1>5, <2>1, <2>2 DEF Tunnel!Spawn
<1>6. ASSUME NEW c \in Caller, Tunnel!Track(c) PROVE TunnelInv'
  <2> DEFINE new == [remoteCall[c] EXCEPT !.step = "await"]
  <2>1. new \in TunnelCalls /\ new.step = "await"
    BY <1>g, <1>e
  <2>2. remoteCall' = [remoteCall EXCEPT ![c] = new] /\ UNCHANGED <<remoteSettings, remoteProc, remotePort, remoteMissed>>
    BY <1>6 DEF Tunnel!Track
  <2> HIDE DEF new
  <2> QED
    BY <1>s, <1>t, <2>1, <2>2
<1>7. ASSUME NEW c \in Caller, Tunnel!Await(c) PROVE TunnelInv'
  BY <1>7, <1>s, <1>t, <1>i DEF Tunnel!Await
<1>8. ASSUME NEW p \in Process, Tunnel!End(p) \/ Tunnel!ReadUrl(p) \/ Tunnel!NoticeEnd(p) PROVE TunnelInv'
  <2>1. /\ UNCHANGED <<remoteSettings, remotePort, remoteCall, remoteMissed>>
        /\ \/ UNCHANGED remoteProc
           \/ remoteProc' = [remoteProc EXCEPT ![p] = "ended"]
    BY <1>8 DEF Tunnel!End, Tunnel!ReadUrl, Tunnel!NoticeEnd
  <2> QED
    BY <1>t, <2>1, TunnelsOnlyEnd
<1>9. CASE Tunnel!Stop
  BY <1>9, <1>p, <1>t, TunnelsOnlyEnd DEF Tunnel!Stop
<1>10. CASE Tunnel!StopService \/ Tunnel!Configure
  BY <1>10, <1>t, TunnelsOnlyEnd DEF Tunnel!StopService, Tunnel!Configure
<1>11. CASE Tunnel!Crash
  BY <1>11, <1>t, <1>i, TunnelsOnlyEnd DEF Tunnel!Crash
<1>12. CASE UNCHANGED Tunnel!vars
  BY <1>12, <1>t, TunnelsOnlyEnd DEF Tunnel!vars
<1> QED
  BY <1>1, <1>2, <1>3, <1>4, <1>5, <1>6, <1>7, <1>8, <1>9, <1>10, <1>11, <1>12 DEF Tunnel!Next

\* No two tunnels that live have one port, where strays can be found: neither a restart or a
\* crash of the program nor what its late tasks write about an older process leaves a second
\* one, but for a process that a start missed (start_quick_tunnel, kill_stray_cloudflareds).
THEOREM PortHasOneTunnel == Tunnel!Spec => []Tunnel!OneTunnel
<1>1. TunnelInv => Tunnel!OneTunnel
  BY DEF TunnelInv
<1> QED
  BY <1>1, TunnelInitially, TunnelStep, PTL DEF Tunnel!Spec

-----------------------------------------------------------------------------
(***************************************************************************)
(* The tasks beside a running server (ServerMonitor).                      *)
(***************************************************************************)

\* The readers: n servers were started, and the one of the last is the only one that
\* may still be at work.
MonitorReaders(n) ==
    /\ n \in 0..MaxRuns
    /\ monitorReader \in [Monitor!Run -> {"none", "read", "joined", "eof", "clear", "done"}]
    /\ \A r \in Monitor!Run : monitorReader[r] # "none" <=> r <= n
    /\ monitorStatus \in {"Stopped", "Starting", "Running", "Stopping"}
    /\ monitorRun \in {0, n}
    /\ \A r \in Monitor!Run : monitorReader[r] \in {"read", "joined", "eof"} => r = monitorRun
    /\ \A r \in Monitor!Run : monitorReader[r] = "clear" => r = n /\ monitorRun = 0 /\ monitorStatus = "Stopped"
    /\ monitorRun # 0 => monitorReader[monitorRun] \in {"read", "joined", "eof"}
    /\ monitorStatus = "Stopped" => monitorRun = 0
    /\ monitorStatus \in {"Running", "Stopping"} => monitorRun # 0
    /\ monitorStatus = "Starting" /\ monitorRun = 0 =>
          n < MaxRuns /\ \A r \in Monitor!Run : monitorReader[r] \in {"none", "done"}

\* What the reader has counted is what it shows next.
MonitorPlayers ==
    /\ monitorShown = [players |-> monitorShown.players, run |-> monitorShown.run]
    /\ \A r \in Monitor!Run : monitorReader[r] = "read" => monitorShown.players = Monitor!Cardinality(monitorOnline)
    /\ \A r \in Monitor!Run : monitorReader[r] = "joined" => monitorHeard = Monitor!Cardinality(monitorOnline)
    /\ (\A r \in Monitor!Run : monitorReader[r] \in {"none", "done"}) => monitorOnline = {} /\ monitorShown.players = 0

\* The tasks that sleep: a server that has stopped outlives none of them by more than
\* the time that they sleep.
MonitorTasks(of, longest, n) ==
    /\ DOMAIN of \subseteq 1..n
    /\ \A r \in DOMAIN of : of[r] \in 0..longest /\ (monitorStatus = "Stopped" => monitorSince + of[r] <= longest)
    /\ monitorSoonest >= longest => DOMAIN of \subseteq {n}
    /\ monitorSoonest >= longest /\ monitorStatus = "Starting" /\ monitorRun = 0 => DOMAIN of = {}

\* Who samples has been woken, and a sample is of the last server when its restart took
\* longer than the sampler sleeps.
MonitorSamples(n) ==
    /\ monitorSince \in Nat /\ monitorSoonest \in Nat
    /\ monitorSampling \subseteq DOMAIN monitorPoller
    /\ \A r \in monitorSampling : monitorPoller[r] = 0
    /\ monitorSampling # {} /\ monitorStatus = "Stopped" => monitorSince = 0
    /\ monitorSoonest >= POLL => monitorShown.run \in {0, n}
    /\ monitorRun # 0 => monitorTick \in {0, monitorRun}

\* All of this, after n starts.
MonitorOf(n) ==
    /\ MonitorReaders(n)
    /\ MonitorPlayers
    /\ MonitorTasks(monitorPoller, POLL, n)
    /\ MonitorTasks(monitorAsker, TPS_FIRST, n)
    /\ MonitorSamples(n)
MonitorInv == \E n \in 0..MaxRuns : MonitorOf(n)

LEMMA MonitorStarts == Monitor!Init => MonitorInv
<1> SUFFICES ASSUME Monitor!Init PROVE MonitorInv
  OBVIOUS
<1>1. 0 \in 0..MaxRuns
  BY MonitorSleeps
<1>2. MonitorReaders(0)
  BY <1>1, MonitorSleeps DEF Monitor!Init, MonitorReaders, Monitor!Run
<1>3. MonitorPlayers
  BY DEF Monitor!Init, MonitorPlayers, Monitor!Reset
<1>4. DOMAIN monitorPoller = {} /\ DOMAIN monitorAsker = {}
  BY DEF Monitor!Init
<1>5. MonitorTasks(monitorPoller, POLL, 0) /\ MonitorTasks(monitorAsker, TPS_FIRST, 0)
  BY <1>4 DEF MonitorTasks
<1>6. MonitorSamples(0)
  BY <1>4, MonitorSleeps DEF Monitor!Init, MonitorSamples, Monitor!Reset, Monitor!Longest
<1> QED
  BY <1>1, <1>2, <1>3, <1>5, <1>6 DEF MonitorOf, MonitorInv

\* How many servers were started.
LEMMA MonitorCounts ==
  ASSUME NEW n, MonitorReaders(n)
  PROVE  Monitor!Cardinality(Monitor!Started) = n
<1>1. Monitor!Cardinality(Monitor!Started) = Cardinality(Monitor!Started)
  BY DEF Monitor!Cardinality, Cardinality
<1>2. n \in Nat /\ Monitor!Started = 1..n
  BY MonitorSleeps DEF MonitorReaders, Monitor!Started, Monitor!Run
<1>3. Cardinality(1..n) = n
  BY <1>2, FS_Interval
<1> QED
  BY <1>1, <1>2, <1>3

\* A task that is left, goes to sleep or ends.
LEMMA MonitorTaskSleeps ==
  ASSUME NEW n, NEW of, NEW new, NEW longest \in Nat, MonitorSamples(n), MonitorTasks(of, longest, n),
         UNCHANGED <<monitorStatus, monitorRun, monitorSince, monitorSoonest>>,
         NEW r \in DOMAIN of, NEW seconds \in 0..longest,
         \/ new = of
         \/ new = Monitor!Ended(of, r)
         \/ /\ monitorStatus # "Stopped" \/ monitorSince = 0
            /\ new = Monitor!Sleeping(of, r, seconds)
  PROVE  /\ DOMAIN new \subseteq 1..n
         /\ \A q \in DOMAIN new : new[q] \in 0..longest /\ (monitorStatus' = "Stopped" => monitorSince' + new[q] <= longest)
         /\ monitorSoonest' >= longest => DOMAIN new \subseteq {n}
         /\ monitorSoonest' >= longest /\ monitorStatus' = "Starting" /\ monitorRun' = 0 => DOMAIN new = {}
<1>1. CASE new = of
  BY <1>1 DEF MonitorTasks
<1>2. CASE new = Monitor!Ended(of, r)
  BY <1>2 DEF MonitorTasks, Monitor!Ended
<1>3. CASE (monitorStatus # "Stopped" \/ monitorSince = 0) /\ new = Monitor!Sleeping(of, r, seconds)
  <2>1. DOMAIN new = DOMAIN of /\ \A q \in DOMAIN new : new[q] = IF q = r THEN seconds ELSE of[q]
    BY <1>3 DEF Monitor!Sleeping
  <2> QED
    BY <1>3, <2>1 DEF MonitorTasks, MonitorSamples
<1> QED
  BY <1>1, <1>2, <1>3


LEMMA MonitorGoes == MonitorInv /\ [Monitor!Next]_Monitor!vars => MonitorInv'
<1> SUFFICES ASSUME MonitorInv, [Monitor!Next]_Monitor!vars PROVE MonitorInv'
  OBVIOUS
<1> PICK n \in 0..MaxRuns : MonitorOf(n)
  BY DEF MonitorInv
<1>1. /\ MonitorReaders(n) /\ MonitorPlayers /\ MonitorSamples(n)
      /\ MonitorTasks(monitorPoller, POLL, n) /\ MonitorTasks(monitorAsker, TPS_FIRST, n)
      /\ POLL \in Nat /\ TPS_FIRST \in Nat /\ TPS \in 0..TPS_FIRST /\ MaxRuns \in Nat
      /\ n \in Nat
  BY MonitorSleeps DEF MonitorOf
\* A step after which n servers were started.
<1>n. ASSUME MonitorOf(n)' PROVE MonitorInv'
  BY <1>n DEF MonitorInv
\* The tasks, when they and what tells their time stay.
<1>t. ASSUME UNCHANGED <<monitorStatus, monitorRun, monitorSince, monitorSoonest, monitorPoller, monitorAsker>>
      PROVE  MonitorTasks(monitorPoller, POLL, n)' /\ MonitorTasks(monitorAsker, TPS_FIRST, n)'
  BY <1>1, <1>t DEF MonitorTasks
<1>2. CASE Monitor!Second
  <2>1. UNCHANGED <<monitorStatus, monitorRun, monitorReader, monitorHeard, monitorOnline, monitorShown, monitorTick,
                    monitorSampling, monitorSoonest>>
    BY <1>2 DEF Monitor!Second
  <2>2. /\ \A r \in DOMAIN monitorPoller \ monitorSampling : monitorPoller[r] # 0
        /\ \A r \in DOMAIN monitorAsker : monitorAsker[r] # 0
    BY <1>2 DEF Monitor!Second, Monitor!Busy
  <2>3. \A r \in monitorSampling : monitorPoller[r] = 0
    BY <1>1 DEF MonitorSamples
  <2>4. /\ monitorSince \in Nat /\ monitorSince' \in Nat /\ monitorSince' <= monitorSince + 1
        /\ monitorStatus = "Stopped" \/ monitorSince' = monitorSince
        /\ monitorSampling = {} \/ monitorSince' = monitorSince
        /\ monitorSampling # {} /\ monitorStatus = "Stopped" => monitorSince = 0
    BY <1>1, <1>2 DEF Monitor!Second, MonitorSamples
  \* Those that do not sleep are none, or the samplers, while which no time is counted.
  <2>5. ASSUME NEW of, NEW new, NEW longest \in Nat, MonitorTasks(of, longest, n),
               NEW awake, awake = {} \/ monitorSampling # {},
               \A r \in DOMAIN of : of[r] = 0 => r \in awake,
               new = [r \in DOMAIN of |-> IF r \in awake THEN of[r] ELSE of[r] - 1]
        PROVE  /\ DOMAIN new \subseteq 1..n
               /\ \A r \in DOMAIN new : new[r] \in 0..longest /\ (monitorStatus' = "Stopped" => monitorSince' + new[r] <= longest)
               /\ monitorSoonest' >= longest => DOMAIN new \subseteq {n}
               /\ monitorSoonest' >= longest /\ monitorStatus' = "Starting" /\ monitorRun' = 0 => DOMAIN new = {}
    BY <2>1, <2>4, <2>5 DEF MonitorTasks
  <2>6. /\ monitorPoller' = [r \in DOMAIN monitorPoller |->
                              IF r \in monitorSampling THEN monitorPoller[r] ELSE monitorPoller[r] - 1]
        /\ monitorAsker' = [r \in DOMAIN monitorAsker |-> IF r \in {} THEN monitorAsker[r] ELSE monitorAsker[r] - 1]
    BY <1>2 DEF Monitor!Second
  <2>7. MonitorTasks(monitorPoller, POLL, n)' /\ MonitorTasks(monitorAsker, TPS_FIRST, n)'
    <3>1. MonitorTasks(monitorPoller, POLL, n)'
      <4>1. \A r \in DOMAIN monitorPoller : monitorPoller[r] = 0 => r \in monitorSampling
        BY <2>2
      <4>2. monitorSampling = {} \/ monitorSampling # {}
        OBVIOUS
      <4>3. MonitorTasks(monitorPoller, POLL, n) /\ POLL \in Nat
        BY <1>1
      <4>4. /\ DOMAIN monitorPoller' \subseteq 1..n
            /\ \A r \in DOMAIN monitorPoller' :
                  monitorPoller'[r] \in 0..POLL
                  /\ (monitorStatus' = "Stopped" => monitorSince' + monitorPoller'[r] <= POLL)
            /\ monitorSoonest' >= POLL => DOMAIN monitorPoller' \subseteq {n}
            /\ monitorSoonest' >= POLL /\ monitorStatus' = "Starting" /\ monitorRun' = 0
                  => DOMAIN monitorPoller' = {}
        BY ONLY <2>5, <2>6, <4>1, <4>2, <4>3
      <4> QED
        BY <4>4 DEF MonitorTasks
    <3>2. MonitorTasks(monitorAsker, TPS_FIRST, n)'
      BY <1>1, <2>2, <2>5, <2>6 DEF MonitorTasks
    <3> QED
      BY <3>1, <3>2
  <2>8. MonitorReaders(n)' /\ MonitorPlayers' 
    BY <1>1, <2>1 DEF MonitorReaders, MonitorPlayers
  <2>9. MonitorSamples(n)'
    BY <1>1, <2>1, <2>3, <2>4, <2>6 DEF MonitorSamples
  <2> QED
    BY <1>n, <2>7, <2>8, <2>9 DEF MonitorOf
<1>3. CASE Monitor!Mark
  <2>1. /\ UNCHANGED <<monitorRun, monitorReader, monitorHeard, monitorOnline, monitorShown, monitorTick,
                       monitorSampling, monitorPoller, monitorAsker, monitorSince>>
        /\ monitorStatus = "Stopped" /\ monitorStatus' = "Starting"
        /\ monitorSoonest' = IF monitorSince < monitorSoonest THEN monitorSince ELSE monitorSoonest
    BY <1>3 DEF Monitor!Mark, Monitor!tasks
  <2>2. /\ \A r \in DOMAIN monitorPoller : monitorPoller[r] = 0 => r \in monitorSampling
        /\ \A r \in DOMAIN monitorAsker : monitorAsker[r] # 0
        /\ \A r \in Monitor!Run : monitorReader[r] \notin {"joined", "eof", "clear"}
    <3>1. \A r \in Monitor!Run : monitorReader[r] # "joined"
      BY <1>1, <2>1, MonitorSleeps DEF MonitorReaders, Monitor!Run
    <3> QED
      BY <1>3, <3>1 DEF Monitor!Mark, Monitor!Busy
  <2>3. n < MaxRuns
    BY <1>1, <1>3, MonitorCounts DEF Monitor!Mark
  <2>4. monitorRun = 0 /\ \A r \in Monitor!Run : monitorReader[r] \in {"none", "done"}
    BY <1>1, <2>1, <2>2 DEF MonitorReaders, Monitor!Run
  <2>5. monitorSince \in Nat /\ monitorSoonest \in Nat
    BY <1>1 DEF MonitorSamples
  <2>6. ASSUME NEW of, NEW longest \in Nat, MonitorTasks(of, longest, n), \A r \in DOMAIN of : of[r] # 0,
               monitorSoonest' >= longest
        PROVE  DOMAIN of = {}
    <3>1. monitorSince >= longest
      BY <2>1, <2>5, <2>6
    <3>2. ASSUME NEW r \in DOMAIN of PROVE FALSE
      <4>1. of[r] \in 0..longest /\ of[r] # 0 /\ monitorSince + of[r] <= longest
        BY <2>1, <2>6 DEF MonitorTasks
      <4> QED
        BY <2>5, <3>1, <4>1
    <3> QED
      BY <3>2
  <2>7. MonitorTasks(monitorPoller, POLL, n)' /\ MonitorTasks(monitorAsker, TPS_FIRST, n)'
    <3>1. /\ monitorSoonest' >= POLL => DOMAIN monitorPoller = {}
          /\ monitorSoonest' >= TPS_FIRST => DOMAIN monitorAsker = {}
      <4>1. ASSUME monitorSoonest' >= POLL PROVE \A r \in DOMAIN monitorPoller : monitorPoller[r] # 0
        <5>1. monitorSampling # {} => monitorSince = 0
          BY <1>1, <2>1 DEF MonitorSamples
        <5>2. monitorSampling = {}
          BY <2>1, <2>5, <4>1, <5>1, MonitorSleeps
        <5> QED
          BY <2>2, <5>2
      <4> QED
        BY <1>1, <2>2, <2>6, <4>1
    <3> QED
      BY <1>1, <2>1, <3>1 DEF MonitorTasks
  <2>8. MonitorReaders(n)' /\ MonitorPlayers'
    BY <1>1, <2>1, <2>3, <2>4 DEF MonitorReaders, MonitorPlayers
  <2>9. MonitorSamples(n)'
    BY <1>1, <2>1, <2>5, <2>4 DEF MonitorSamples
  <2> QED
    BY <1>n, <2>7, <2>8, <2>9 DEF MonitorOf
<1>4. CASE Monitor!Register
  <2>1. /\ UNCHANGED <<monitorStatus, monitorHeard, monitorOnline, monitorSampling, monitorSince, monitorSoonest>>
        /\ monitorStatus = "Starting" /\ monitorRun = 0
        /\ monitorShown' = [players |-> 0, run |-> 0] /\ monitorTick' = 0
    BY <1>4 DEF Monitor!Register, Monitor!Reset
  <2>2. /\ monitorRun' = n + 1
        /\ monitorReader' = [monitorReader EXCEPT ![n + 1] = "read"]
        /\ monitorPoller' = Monitor!Sleeping(monitorPoller, n + 1, POLL)
        /\ monitorAsker' = Monitor!Sleeping(monitorAsker, n + 1, TPS_FIRST)
    BY <1>1, <1>4, MonitorCounts DEF Monitor!Register
  <2>3. /\ n + 1 \in Monitor!Run /\ n + 1 \in 0..MaxRuns
        /\ \A r \in Monitor!Run : monitorReader[r] \in {"none", "done"}
    BY <1>1, <2>1 DEF MonitorReaders, Monitor!Run
  <2>4. monitorOnline = {} /\ Monitor!Cardinality({}) = 0
    <3>1. Monitor!Cardinality({}) = Cardinality({})
      BY DEF Monitor!Cardinality, Cardinality
    <3> QED
      BY <1>1, <2>3, <3>1, FS_EmptySet DEF MonitorPlayers
  <2>5. MonitorReaders(n + 1)'
    <3>1. /\ monitorReader'[n + 1] = "read"
          /\ \A r \in Monitor!Run \ {n + 1} : monitorReader'[r] = monitorReader[r]
          /\ monitorReader' \in [Monitor!Run -> {"none", "read", "joined", "eof", "clear", "done"}]
      BY <1>1, <2>2, <2>3 DEF MonitorReaders
    <3>2. \A r \in Monitor!Run : monitorReader'[r] # "none" <=> r <= n + 1
      BY <1>1, <2>3, <3>1 DEF MonitorReaders, Monitor!Run
    <3> QED
      BY <1>1, <2>1, <2>2, <2>3, <3>1, <3>2 DEF MonitorReaders
  <2>6. MonitorPlayers'
    BY <1>1, <2>1, <2>2, <2>3, <2>4 DEF MonitorPlayers, MonitorReaders
  <2>7. ASSUME NEW of, NEW new, NEW longest \in Nat, MonitorTasks(of, longest, n),
               new = Monitor!Sleeping(of, n + 1, longest)
        PROVE  /\ DOMAIN new = DOMAIN of \cup {n + 1} /\ \A r \in DOMAIN of \ {n + 1} : new[r] = of[r]
               /\ DOMAIN new \subseteq 1..(n + 1)
               /\ \A r \in DOMAIN new : new[r] \in 0..longest
               /\ monitorSoonest' >= longest => DOMAIN new \subseteq {n + 1}
    BY <2>1, <2>3, <2>7 DEF MonitorTasks, Monitor!Sleeping
  <2>8. MonitorTasks(monitorPoller, POLL, n + 1)' /\ MonitorTasks(monitorAsker, TPS_FIRST, n + 1)'
    <3>1. monitorStatus' = "Starting" /\ monitorRun' # 0
      BY <1>1, <2>1, <2>2
    <3> QED
      BY <1>1, <2>2, <2>7, <3>1 DEF MonitorTasks
  <2>9. MonitorSamples(n + 1)'
    <3>1. monitorSampling \subseteq DOMAIN monitorPoller' /\ \A r \in monitorSampling : monitorPoller'[r] = 0 \/ r = n + 1
      <4>1. /\ DOMAIN monitorPoller' = DOMAIN monitorPoller \cup {n + 1}
            /\ \A r \in DOMAIN monitorPoller \ {n + 1} : monitorPoller'[r] = monitorPoller[r]
        BY <1>1, <2>2, <2>7
      <4> QED
        BY <1>1, <4>1 DEF MonitorSamples
    <3>2. n + 1 \notin monitorSampling
      BY <1>1 DEF MonitorSamples, MonitorTasks
    <3> QED
      BY <1>1, <2>1, <2>2, <3>1, <3>2 DEF MonitorSamples
  <2> QED
    BY <2>3, <2>5, <2>6, <2>8, <2>9 DEF MonitorOf, MonitorInv

<1>5. CASE Monitor!RequestStop
  <2>1. /\ UNCHANGED <<monitorRun, monitorReader, monitorHeard, monitorOnline, monitorShown, monitorTick,
                       monitorSampling, monitorPoller, monitorAsker, monitorSince, monitorSoonest>>
        /\ monitorStatus' = "Stopping" /\ monitorRun # 0
    BY <1>5 DEF Monitor!RequestStop, Monitor!tasks
  <2>2. MonitorTasks(monitorPoller, POLL, n)' /\ MonitorTasks(monitorAsker, TPS_FIRST, n)'
    BY <1>1, <2>1 DEF MonitorTasks
  <2>3. MonitorReaders(n)' /\ MonitorPlayers' /\ MonitorSamples(n)'
    BY <1>1, <2>1 DEF MonitorReaders, MonitorPlayers, MonitorSamples
  <2> QED
    BY <1>n, <2>2, <2>3 DEF MonitorOf
\* The run of a reader at work is the last; and where it goes.
<1>r. ASSUME NEW r \in Monitor!Run, monitorReader[r] \in {"read", "joined", "eof"},
             NEW next \in {"read", "joined", "eof", "clear"}, monitorReader' = [monitorReader EXCEPT ![r] = next]
      PROVE  /\ monitorRun = n /\ r = n /\ monitorStatus # "Stopped"
             /\ \A q \in Monitor!Run : q # n => monitorReader[q] \in {"none", "done"} /\ monitorReader'[q] = monitorReader[q]
             /\ monitorReader'[n] = next
             /\ monitorReader' \in [Monitor!Run -> {"none", "read", "joined", "eof", "clear", "done"}]
             /\ \A q \in Monitor!Run : monitorReader'[q] # "none" <=> q <= n
  BY <1>1, <1>r DEF MonitorReaders, Monitor!Run
<1>6. ASSUME NEW r \in Monitor!Run, Monitor!ReadDone(r) PROVE MonitorInv'
  <2>1. /\ UNCHANGED <<monitorRun, monitorReader, monitorHeard, monitorOnline, monitorShown, monitorTick,
                       monitorSampling, monitorPoller, monitorAsker, monitorSince, monitorSoonest>>
        /\ monitorStatus' = "Running" /\ monitorReader[r] = "read"
    BY <1>6 DEF Monitor!ReadDone, Monitor!tasks
  <2>2. monitorRun = r /\ r # 0
    BY <1>1, <2>1 DEF MonitorReaders, Monitor!Run
  <2>3. MonitorTasks(monitorPoller, POLL, n)' /\ MonitorTasks(monitorAsker, TPS_FIRST, n)'
    BY <1>1, <2>1, <2>2 DEF MonitorTasks
  <2>4. MonitorReaders(n)' /\ MonitorPlayers' /\ MonitorSamples(n)'
    BY <1>1, <2>1, <2>2 DEF MonitorReaders, MonitorPlayers, MonitorSamples
  <2> QED
    BY <1>n, <2>3, <2>4 DEF MonitorOf
<1>7. ASSUME NEW r \in Monitor!Run, NEW p \in Player, NEW line \in Monitor!Line, Monitor!ReadPlayer(r, p, line)
      PROVE  MonitorInv'
  <2>1. /\ UNCHANGED <<monitorStatus, monitorRun, monitorShown, monitorTick,
                       monitorSampling, monitorPoller, monitorAsker, monitorSince, monitorSoonest>>
        /\ monitorReader[r] = "read" /\ monitorReader' = [monitorReader EXCEPT ![r] = "joined"]
        /\ monitorHeard' = Monitor!Cardinality(monitorOnline')
    BY <1>7 DEF Monitor!ReadPlayer, Monitor!tasks
  <2>2. MonitorReaders(n)'
    BY <1>1, <1>r, <2>1 DEF MonitorReaders, Monitor!Run
  <2>3. MonitorPlayers'
    BY <1>1, <1>r, <2>1 DEF MonitorPlayers, Monitor!Run
  <2>4. MonitorSamples(n)'
    BY <1>1, <2>1 DEF MonitorSamples
  <2> QED
    BY <1>n, <1>t, <2>1, <2>2, <2>3, <2>4 DEF MonitorOf
<1>8. ASSUME NEW r \in Monitor!Run, Monitor!ShowPlayers(r) PROVE MonitorInv'
  <2>1. /\ UNCHANGED <<monitorStatus, monitorRun, monitorHeard, monitorOnline, monitorTick,
                       monitorSampling, monitorPoller, monitorAsker, monitorSince, monitorSoonest>>
        /\ monitorReader[r] = "joined" /\ monitorReader' = [monitorReader EXCEPT ![r] = "read"]
        /\ monitorShown' = [monitorShown EXCEPT !.players = monitorHeard]
    BY <1>8 DEF Monitor!ShowPlayers, Monitor!tasks
  <2>2. MonitorReaders(n)'
    BY <1>1, <1>r, <2>1 DEF MonitorReaders, Monitor!Run
  <2>3. monitorShown' = [players |-> monitorHeard, run |-> monitorShown.run]
    BY <1>1, <2>1 DEF MonitorPlayers
  <2>4. MonitorPlayers'
    BY <1>1, <1>r, <2>1, <2>3 DEF MonitorPlayers, Monitor!Run
  <2>5. MonitorSamples(n)'
    BY <1>1, <2>1, <2>3 DEF MonitorSamples
  <2> QED
    BY <1>n, <1>t, <2>1, <2>2, <2>4, <2>5 DEF MonitorOf
<1>9. ASSUME NEW r \in Monitor!Run, Monitor!ReadTime(r) PROVE MonitorInv'
  <2>1. /\ UNCHANGED <<monitorStatus, monitorRun, monitorReader, monitorHeard, monitorOnline, monitorShown,
                       monitorSampling, monitorPoller, monitorAsker, monitorSince, monitorSoonest>>
        /\ monitorReader[r] = "read" /\ monitorTick' = r
    BY <1>9 DEF Monitor!ReadTime, Monitor!tasks
  <2>2. monitorRun = r
    BY <1>1, <2>1 DEF MonitorReaders
  <2>3. MonitorReaders(n)' /\ MonitorPlayers' /\ MonitorSamples(n)'
    BY <1>1, <2>1, <2>2 DEF MonitorReaders, MonitorPlayers, MonitorSamples
  <2> QED
    BY <1>n, <1>t, <2>1, <2>3 DEF MonitorOf
<1>10. ASSUME NEW r \in Monitor!Run, Monitor!Exit(r) PROVE MonitorInv'
  <2>1. /\ UNCHANGED <<monitorStatus, monitorRun, monitorHeard, monitorOnline, monitorShown, monitorTick,
                       monitorSampling, monitorPoller, monitorAsker, monitorSince, monitorSoonest>>
        /\ monitorReader[r] = "read" /\ monitorReader' = [monitorReader EXCEPT ![r] = "eof"]
    BY <1>10 DEF Monitor!Exit, Monitor!tasks
  <2>2. MonitorReaders(n)'
    BY <1>1, <1>r, <2>1 DEF MonitorReaders, Monitor!Run
  <2>3. MonitorPlayers'
    BY <1>1, <1>r, <2>1 DEF MonitorPlayers, Monitor!Run
  <2>4. MonitorSamples(n)'
    BY <1>1, <2>1 DEF MonitorSamples
  <2> QED
    BY <1>n, <1>t, <2>1, <2>2, <2>3, <2>4 DEF MonitorOf
<1>11. ASSUME NEW r \in Monitor!Run, Monitor!EndOfStream(r) PROVE MonitorInv'
  <2>1. /\ UNCHANGED <<monitorHeard, monitorOnline, monitorShown, monitorTick,
                       monitorSampling, monitorPoller, monitorAsker, monitorSoonest>>
        /\ monitorReader[r] = "eof" /\ monitorReader' = [monitorReader EXCEPT ![r] = "clear"]
        /\ monitorStatus' = "Stopped" /\ monitorRun' = 0 /\ monitorSince' = 0
    BY <1>11 DEF Monitor!EndOfStream, Monitor!tasks
  <2>2. MonitorReaders(n)'
    BY <1>1, <1>r, <2>1 DEF MonitorReaders, Monitor!Run
  <2>3. MonitorPlayers'
    BY <1>1, <1>r, <2>1 DEF MonitorPlayers, Monitor!Run
  <2>4. MonitorSamples(n)'
    BY <1>1, <2>1 DEF MonitorSamples
  <2>5. MonitorTasks(monitorPoller, POLL, n)' /\ MonitorTasks(monitorAsker, TPS_FIRST, n)'
    BY <1>1, <2>1 DEF MonitorTasks
  <2> QED
    BY <1>n, <2>2, <2>3, <2>4, <2>5 DEF MonitorOf
<1>12. ASSUME NEW r \in Monitor!Run, Monitor!Clear(r) PROVE MonitorInv'
  <2>1. /\ UNCHANGED <<monitorStatus, monitorRun, monitorHeard, monitorTick,
                       monitorSampling, monitorPoller, monitorAsker, monitorSince, monitorSoonest>>
        /\ monitorReader[r] = "clear" /\ monitorReader' = [monitorReader EXCEPT ![r] = "done"]
        /\ monitorShown' = [players |-> 0, run |-> 0] /\ monitorOnline' = {}
    BY <1>12 DEF Monitor!Clear, Monitor!Cleared, Monitor!Reset, Monitor!tasks
  <2>2. /\ r = n /\ monitorRun = 0 /\ monitorStatus = "Stopped"
        /\ \A q \in Monitor!Run : q # n => monitorReader[q] \in {"none", "done"} /\ monitorReader'[q] = monitorReader[q]
        /\ monitorReader'[n] = "done"
        /\ monitorReader' \in [Monitor!Run -> {"none", "read", "joined", "eof", "clear", "done"}]
        /\ \A q \in Monitor!Run : monitorReader'[q] # "none" <=> q <= n
    BY <1>1, <2>1 DEF MonitorReaders, Monitor!Run
  <2>3. MonitorReaders(n)'
    BY <1>1, <2>1, <2>2 DEF MonitorReaders, Monitor!Run
  <2>4. MonitorPlayers'
    BY <1>1, <2>1, <2>2 DEF MonitorPlayers, Monitor!Run
  <2>5. MonitorSamples(n)'
    BY <1>1, <2>1 DEF MonitorSamples
  <2> QED
    BY <1>n, <1>t, <2>1, <2>3, <2>4, <2>5 DEF MonitorOf
<1>13. ASSUME NEW r \in Monitor!Run, Monitor!Poll(r) PROVE MonitorInv'
  <2>1. /\ UNCHANGED <<monitorStatus, monitorRun, monitorReader, monitorHeard, monitorOnline, monitorShown,
                       monitorTick, monitorAsker, monitorSince, monitorSoonest>>
        /\ r \in DOMAIN monitorPoller /\ r \notin monitorSampling /\ monitorPoller[r] = 0
        /\ \/ /\ monitorStatus = "Stopped" /\ monitorPoller' = Monitor!Ended(monitorPoller, r)
              /\ UNCHANGED monitorSampling
           \/ /\ monitorStatus # "Stopped" /\ monitorPoller' = Monitor!Sleeping(monitorPoller, r, POLL)
              /\ UNCHANGED monitorSampling
           \/ /\ monitorStatus # "Stopped" /\ monitorSampling' = monitorSampling \cup {r}
              /\ UNCHANGED monitorPoller
    BY <1>13 DEF Monitor!Poll, Monitor!EndsWithServer
  <2>2. POLL \in 0..POLL
    BY <1>1
  <2>3. MonitorTasks(monitorPoller, POLL, n)'
    BY <1>1, <2>1, <2>2, MonitorTaskSleeps DEF MonitorTasks
  <2>4. MonitorTasks(monitorAsker, TPS_FIRST, n)'
    BY <1>1, <2>1 DEF MonitorTasks
  <2>5. MonitorReaders(n)' /\ MonitorPlayers'
    BY <1>1, <2>1 DEF MonitorReaders, MonitorPlayers
  <2>6. MonitorSamples(n)'
    BY <1>1, <2>1 DEF MonitorSamples, Monitor!Ended, Monitor!Sleeping
  <2> QED
    BY <1>n, <2>3, <2>4, <2>5, <2>6 DEF MonitorOf
<1>14. ASSUME NEW r \in Monitor!Run, Monitor!Write(r) PROVE MonitorInv'
  <2>1. /\ UNCHANGED <<monitorStatus, monitorRun, monitorReader, monitorHeard, monitorOnline,
                       monitorTick, monitorAsker, monitorSince, monitorSoonest>>
        /\ r \in monitorSampling /\ monitorSampling' = monitorSampling \ {r}
        /\ monitorPoller' = Monitor!Sleeping(monitorPoller, r, POLL)
    BY <1>14 DEF Monitor!Write
  <2>2. POLL \in 0..POLL /\ r \in DOMAIN monitorPoller /\ (monitorStatus # "Stopped" \/ monitorSince = 0)
    BY <1>1, <2>1 DEF MonitorSamples
  <2>3. MonitorTasks(monitorPoller, POLL, n)'
    BY <1>1, <2>1, <2>2, MonitorTaskSleeps DEF MonitorTasks
  <2>4. MonitorTasks(monitorAsker, TPS_FIRST, n)'
    BY <1>1, <2>1 DEF MonitorTasks
  <2>5. monitorShown' = monitorShown \/ monitorShown' = [monitorShown EXCEPT !.run = r]
    BY <1>14 DEF Monitor!Write, Monitor!Sampled
  <2>6. /\ monitorShown'.players = monitorShown.players
        /\ monitorShown' = [players |-> monitorShown'.players, run |-> monitorShown'.run]
        /\ monitorShown'.run \in {monitorShown.run, r}
    BY <1>1, <2>5 DEF MonitorPlayers
  <2>7. MonitorReaders(n)' /\ MonitorPlayers'
    BY <1>1, <2>1, <2>6 DEF MonitorReaders, MonitorPlayers
  <2>8. MonitorSamples(n)'
    BY <1>1, <2>1, <2>2, <2>6 DEF MonitorSamples, MonitorTasks, Monitor!Sleeping
  <2> QED
    BY <1>n, <2>3, <2>4, <2>7, <2>8 DEF MonitorOf
<1>15. ASSUME NEW r \in Monitor!Run, Monitor!Ask(r) PROVE MonitorInv'
  <2>1. /\ UNCHANGED <<monitorStatus, monitorRun, monitorReader, monitorHeard, monitorOnline, monitorShown,
                       monitorTick, monitorPoller, monitorSampling, monitorSince, monitorSoonest>>
        /\ r \in DOMAIN monitorAsker
        /\ \/ monitorStatus = "Stopped" /\ monitorAsker' = Monitor!Ended(monitorAsker, r)
           \/ monitorStatus # "Stopped" /\ monitorAsker' = Monitor!Sleeping(monitorAsker, r, TPS)
    BY <1>15 DEF Monitor!Ask
  <2>2. MonitorTasks(monitorAsker, TPS_FIRST, n)'
    BY <1>1, <2>1, MonitorTaskSleeps DEF MonitorTasks
  <2>3. MonitorTasks(monitorPoller, POLL, n)'
    BY <1>1, <2>1 DEF MonitorTasks
  <2>4. MonitorReaders(n)' /\ MonitorPlayers' /\ MonitorSamples(n)'
    BY <1>1, <2>1 DEF MonitorReaders, MonitorPlayers, MonitorSamples
  <2> QED
    BY <1>n, <2>2, <2>3, <2>4 DEF MonitorOf
<1>16. CASE UNCHANGED Monitor!vars
  <2>1. UNCHANGED <<monitorStatus, monitorRun, monitorReader, monitorHeard, monitorOnline, monitorShown,
                    monitorTick, monitorPoller, monitorAsker, monitorSampling, monitorSince, monitorSoonest>>
    BY <1>16 DEF Monitor!vars, Monitor!tasks
  <2>2. MonitorReaders(n)' /\ MonitorPlayers' /\ MonitorSamples(n)'
    BY <1>1, <2>1 DEF MonitorReaders, MonitorPlayers, MonitorSamples
  <2> QED
    BY <1>n, <1>t, <2>1, <2>2 DEF MonitorOf
<1> QED
  BY <1>2, <1>3, <1>4, <1>5, <1>6, <1>7, <1>8, <1>9, <1>10, <1>11, <1>12, <1>13, <1>14, <1>15, <1>16
     DEF Monitor!Next, Monitor!ReadWork

\* At most one task is left of those that sleep, and none twice.
LEMMA MonitorLone ==
  ASSUME NEW n, NEW of, NEW longest, MonitorTasks(of, longest, n), monitorSoonest >= longest
  PROVE  ~(Monitor!Cardinality(DOMAIN of) > 1)
<1>1. Monitor!Cardinality(DOMAIN of) = Cardinality(DOMAIN of)
  BY DEF Monitor!Cardinality, Cardinality
<1>2. IsFiniteSet({n}) /\ Cardinality({n}) = 1 /\ DOMAIN of \subseteq {n}
  BY FS_Singleton DEF MonitorTasks
<1>3. Cardinality(DOMAIN of) \in Nat /\ Cardinality(DOMAIN of) <= 1
  BY <1>2, FS_Subset, FS_CardinalityType
<1> QED
  BY <1>1, <1>3

\* One task samples the server and shows its time, unless it was started again before the
\* last task woke from its sleep, after the last sample that outlasted the server; and the
\* speed is computed from two lines of one server.
THEOREM OneTaskSamples == Monitor!Spec => []Monitor!OneSampler
<1>1. MonitorInv => Monitor!OneSampler
  <2> SUFFICES ASSUME NEW n \in 0..MaxRuns, MonitorOf(n) PROVE Monitor!OneSampler
    BY DEF MonitorInv
  <2>1. ASSUME monitorSoonest >= POLL
        PROVE  /\ ~(Monitor!Cardinality(DOMAIN monitorPoller) > 1)
               /\ monitorStatus = "Running" => monitorShown.run \in {0, monitorRun}
    BY <2>1, MonitorLone DEF MonitorOf, MonitorReaders, MonitorSamples
  <2>2. monitorSoonest \in Nat /\ POLL \in Nat /\ (monitorRun # 0 => monitorTick \in {0, monitorRun})
    BY MonitorSleeps DEF MonitorOf, MonitorSamples
  <2> QED
    BY <2>1, <2>2 DEF Monitor!OneSampler
<1> QED
  BY <1>1, MonitorStarts, MonitorGoes, PTL DEF Monitor!Spec

\* One task asks for the speed, unless the server was started again before the last task
\* woke from its longest sleep.
THEOREM OneTaskAsks == Monitor!Spec => []Monitor!OneAsker
<1>1. MonitorInv => Monitor!OneAsker
  <2> SUFFICES ASSUME NEW n \in 0..MaxRuns, MonitorOf(n) PROVE Monitor!OneAsker
    BY DEF MonitorInv
  <2>1. monitorSoonest >= TPS_FIRST => ~(Monitor!Cardinality(DOMAIN monitorAsker) > 1)
    BY MonitorLone DEF MonitorOf
  <2>2. monitorSoonest \in Nat /\ TPS_FIRST \in Nat
    BY MonitorSleeps DEF MonitorOf, MonitorSamples
  <2> QED
    BY <2>1, <2>2 DEF Monitor!OneAsker
<1> QED
  BY <1>1, MonitorStarts, MonitorGoes, PTL DEF Monitor!Spec

\* The number of players shown is that of the players online whenever no reader is between
\* the two, and nobody is online on a server that has stopped, or crashed.
THEOREM PlayersShownAreCounted == Monitor!Spec => []Monitor!ShownIsCounted
<1>1. MonitorInv => Monitor!ShownIsCounted
  <2> SUFFICES ASSUME NEW n \in 0..MaxRuns, MonitorOf(n),
                      \A r \in Monitor!Run : monitorReader[r] \notin {"joined", "eof", "clear"}
               PROVE  /\ monitorShown.players = Monitor!Cardinality(monitorOnline)
                      /\ monitorRun = 0 => monitorOnline = {}
    BY DEF MonitorInv, Monitor!ShownIsCounted
  <2>1. Monitor!Cardinality({}) = 0
    <3>1. Monitor!Cardinality({}) = Cardinality({})
      BY DEF Monitor!Cardinality, Cardinality
    <3> QED
      BY <3>1, FS_EmptySet
  <2>2. CASE \E r \in Monitor!Run : monitorReader[r] = "read"
    BY <2>2 DEF MonitorOf, MonitorReaders, MonitorPlayers, Monitor!Run
  <2>3. CASE \A r \in Monitor!Run : monitorReader[r] # "read"
    <3>1. \A r \in Monitor!Run : monitorReader[r] \in {"none", "done"}
      BY <2>3 DEF MonitorOf, MonitorReaders
    <3> QED
      BY <2>1, <3>1 DEF MonitorOf, MonitorPlayers
  <2> QED
    BY <2>2, <2>3
<1> QED
  BY <1>1, MonitorStarts, MonitorGoes, PTL DEF Monitor!Spec

-----------------------------------------------------------------------------
(***************************************************************************)
(* The heartbeat (Heartbeat).                                              *)
(***************************************************************************)

\* The longest sleep is one of them.
LEMMA BeatLongest ==
  /\ Beat!Longest \in Nat /\ Beat!Slowest = Beat!Longest + 2
  /\ Beat!Sleeps \subseteq 0..Beat!Longest
  /\ ACTIVE \in Beat!Sleeps /\ RETRY \in Beat!Sleeps /\ IDLE_CHECK \in Beat!Sleeps
  /\ \A i \in BeatInterval : Beat!Larger(i, FLOOR) \in Beat!Sleeps
<1>1. Beat!Sleeps \subseteq Nat
  BY BeatSleeps DEF Beat!Sleeps, Beat!Larger
<1>2. \E n \in Beat!Sleeps : \A i \in Beat!Sleeps : i <= n
  <2>1. PICK last \in BeatInterval : \A i \in BeatInterval : i <= last
    BY BeatSleeps
  <2>2. PICK a : a = Beat!Larger(last, FLOOR)
    OBVIOUS
  <2>3. a \in Nat /\ \A i \in BeatInterval : Beat!Larger(i, FLOOR) <= a
    BY BeatSleeps, <2>1, <2>2 DEF Beat!Larger
  <2>4. \A i \in Beat!Sleeps : i <= a \/ i \in {ACTIVE, RETRY, IDLE_CHECK}
    BY <2>3 DEF Beat!Sleeps
  <2>5. \E n \in {a, ACTIVE, RETRY, IDLE_CHECK} : a <= n /\ ACTIVE <= n /\ RETRY <= n /\ IDLE_CHECK <= n
    <3>1. ASSUME NEW x \in Nat, NEW y \in Nat PROVE \E n \in {x, y} : x <= n /\ y <= n
      <4>1. CASE x <= y
        BY <4>1
      <4>2. CASE y <= x
        BY <4>2
      <4> QED
        BY <4>1, <4>2
    <3>2. PICK b \in {a, ACTIVE} : a <= b /\ ACTIVE <= b
      BY <2>3, <3>1, BeatSleeps
    <3>3. PICK c \in {RETRY, IDLE_CHECK} : RETRY <= c /\ IDLE_CHECK <= c
      BY <3>1, BeatSleeps
    <3>4. b \in Nat /\ c \in Nat
      BY <2>3, BeatSleeps
    <3>5. PICK n \in {b, c} : b <= n /\ c <= n
      BY <3>1, <3>4
    <3> QED
      BY <2>3, <3>2, <3>3, <3>4, <3>5, BeatSleeps
  <2>6. PICK n \in {a, ACTIVE, RETRY, IDLE_CHECK} : a <= n /\ ACTIVE <= n /\ RETRY <= n /\ IDLE_CHECK <= n
    BY <2>5
  <2>7. a \in Beat!Sleeps /\ n \in Beat!Sleeps
    BY <2>1, <2>2, <2>6 DEF Beat!Sleeps
  <2>8. \A i \in Beat!Sleeps : i <= n
    BY <1>1, <2>3, <2>4, <2>6, <2>7
  <2> QED
    BY <2>7, <2>8
<1>3. Beat!Longest \in Beat!Sleeps /\ \A i \in Beat!Sleeps : i <= Beat!Longest
  BY <1>2 DEF Beat!Longest
<1>4. ACTIVE \in Beat!Sleeps /\ RETRY \in Beat!Sleeps /\ IDLE_CHECK \in Beat!Sleeps
  BY DEF Beat!Sleeps
<1>5. \A i \in BeatInterval : Beat!Larger(i, FLOOR) \in Beat!Sleeps
  BY DEF Beat!Sleeps
<1> QED
  BY <1>1, <1>3, <1>4, <1>5 DEF Beat!Slowest

BeatTypes ==
    /\ beatInterval \in BeatInterval /\ beatGame \in Beat!Status /\ beatLocked \in BOOLEAN
    /\ beatReachable \in BOOLEAN
    /\ beatPc \in {"load", "post", "sleep"}
    /\ beatPause \in 0..Beat!Longest /\ beatWait \in Nat
    /\ beatPc = "sleep" => beatWait <= Beat!Longest
    /\ beatPc = "post" => beatWait \in {0, 1}
    /\ beatAge \in Nat /\ beatCalm \in Nat

\* The request that is under way reports what is.
BeatReports == beatSnapshot = beatGame /\ beatPause = Beat!Cadence(beatGame)

\* Since the last change the loop has not yet reported: it finishes what it was at, and
\* then reports within one request.
BeatIsLate ==
    \/ beatPc = "sleep" /\ beatCalm + beatWait <= Beat!Longest + 1
    \/ beatPc = "load" /\ beatCalm <= Beat!Longest + 1
    \/ beatPc = "post" /\ beatCalm <= beatWait
    \/ beatPc = "post" /\ BeatReports /\ beatCalm <= Beat!Longest + 1 + beatWait

\* It has, and reports again when it has slept.
BeatHasReported ==
    /\ beatShown = beatGame
    /\ beatPc = "sleep" => beatAge + beatWait <= Beat!Cadence(beatGame)
    /\ beatPc = "load" => beatAge <= Beat!Cadence(beatGame)
    /\ beatPc = "post" => BeatReports /\ beatAge <= Beat!Cadence(beatGame) + beatWait

\* While the dashboard can be reached and no lock hides the server, it is told in time.
BeatInv ==
    /\ BeatTypes
    /\ beatInterval # 0 /\ beatReachable /\ ~beatLocked => BeatIsLate \/ BeatHasReported

LEMMA BeatCadence ==
  ASSUME beatInterval \in BeatInterval, NEW status
  PROVE  /\ Beat!Cadence(status) \in 0..Beat!Longest
         /\ Beat!AnyServerActive(status) => Beat!Cadence(status) = ACTIVE
  BY BeatLongest DEF Beat!Cadence

LEMMA BeatStarts == Beat!Init => BeatInv
<1> SUFFICES ASSUME Beat!Init PROVE BeatInv
  OBVIOUS
<1>1. Beat!Longest \in Nat
  BY BeatLongest
<1>2. /\ beatInterval \in BeatInterval /\ beatGame = "stopped" /\ beatLocked = FALSE /\ beatReachable = TRUE
      /\ beatPc = "load" /\ beatPause = 0 /\ beatWait = 0 /\ beatAge = 0 /\ beatCalm = 0
  BY DEF Beat!Init
<1>3. BeatTypes
  <2>1. beatLocked \in BOOLEAN /\ beatReachable \in BOOLEAN
    BY <1>2, Zenon
  <2>2. beatPause \in 0..Beat!Longest /\ beatWait \in Nat /\ beatAge \in Nat /\ beatCalm \in Nat
    BY <1>1, <1>2
  <2>3. beatGame \in Beat!Status
    BY <1>2 DEF Beat!Status
  <2> QED
    BY <1>2, <2>1, <2>2, <2>3, Zenon DEF BeatTypes
<1> QED
  BY <1>1, <1>2, <1>3 DEF BeatInv, BeatIsLate

LEMMA BeatGoes == BeatInv /\ [Beat!Next]_Beat!vars => BeatInv'
<1> SUFFICES ASSUME BeatInv, [Beat!Next]_Beat!vars PROVE BeatInv'
  OBVIOUS
<1>1. BeatTypes /\ Beat!Longest \in Nat
  BY BeatLongest DEF BeatInv
\* What the loop and its report are of stays.
<1>s. ASSUME UNCHANGED <<beatInterval, beatGame, beatLocked, beatReachable, beatPc, beatSnapshot, beatPause,
                         beatWait, beatShown, beatAge, beatCalm>>
      PROVE  BeatInv'
  BY <1>s DEF BeatInv, BeatTypes, BeatIsLate, BeatHasReported, BeatReports, Beat!Cadence
\* Something changes: what was reported is old.
<1>c. ASSUME BeatTypes', beatCalm' = 0 PROVE BeatInv'
  <2>1. BeatIsLate'
    <3>1. beatPc' = "sleep" => beatWait' \in Nat /\ beatWait' <= Beat!Longest
      BY <1>c DEF BeatTypes
    <3>2. beatPc' = "post" => beatWait' \in Nat
      BY <1>c DEF BeatTypes
    <3>3. beatPc' \in {"load", "post", "sleep"}
      BY <1>c DEF BeatTypes
    <3> QED
      BY <1>1, <1>c, <3>1, <3>2, <3>3 DEF BeatIsLate
  <2> QED
    BY <1>c, <2>1 DEF BeatInv
<1>2. CASE Beat!Tick
  <2>1. /\ UNCHANGED <<beatInterval, beatGame, beatLocked, beatReachable, beatPc, beatSnapshot, beatPause, beatShown>>
        /\ \/ beatPc = "sleep" /\ beatWait > 0 /\ beatWait' = beatWait - 1
           \/ beatPc = "post" /\ beatWait = 0 /\ beatWait' = 1
        /\ beatAge' = Beat!UpTo(Beat!Slowest + 1, beatAge)
        /\ beatCalm' = Beat!UpTo(Beat!Slowest + 1, beatCalm)
    BY <1>2 DEF Beat!Tick, Beat!world
  <2>2. /\ beatAge' \in Nat /\ beatAge' <= beatAge + 1
        /\ beatCalm' \in Nat /\ beatCalm' <= beatCalm + 1
    BY <1>1, <2>1 DEF BeatTypes, Beat!UpTo
  <2>3. BeatTypes'
    BY <1>1, <2>1, <2>2 DEF BeatTypes
  <2>4. Beat!Cadence(beatGame)' = Beat!Cadence(beatGame) /\ Beat!Cadence(beatGame) \in Nat
    BY <1>1, <2>1, BeatCadence DEF BeatTypes, Beat!Cadence
  <2>5. BeatIsLate => BeatIsLate'
    BY <1>1, <2>1, <2>2, <2>4 DEF BeatTypes, BeatIsLate, BeatReports
  <2>6. BeatHasReported => BeatHasReported'
    BY <1>1, <2>1, <2>2, <2>4 DEF BeatTypes, BeatHasReported, BeatReports
  <2> QED
    BY <2>1, <2>3, <2>5, <2>6 DEF BeatInv

<1>3. CASE Beat!Change
  <2>1. /\ UNCHANGED <<beatPc, beatSnapshot, beatPause, beatWait, beatAge>> /\ beatCalm' = 0
        /\ beatInterval' \in BeatInterval /\ beatGame' \in Beat!Status /\ beatLocked' \in BOOLEAN
        /\ beatReachable' \in BOOLEAN
    BY <1>1, <1>3 DEF Beat!Change, Beat!loop, BeatTypes
  <2> QED
    BY <1>1, <1>c, <2>1 DEF BeatTypes
<1>4. CASE Beat!Crash
  BY <1>1, <1>4, <1>c DEF Beat!Crash, Beat!world, BeatTypes
<1>5. CASE Beat!Off
  <2>1. /\ UNCHANGED <<beatInterval, beatGame, beatLocked, beatReachable, beatPause, beatAge, beatCalm>>
        /\ beatInterval = 0 /\ beatPc' = "sleep" /\ beatWait' = IDLE_CHECK
    BY <1>5 DEF Beat!Off, Beat!Sleep, Beat!world, Beat!history
  <2> QED
    BY <1>1, <2>1, BeatLongest DEF BeatInv, BeatTypes
<1>6. CASE Beat!Post
  <2>1. /\ UNCHANGED <<beatInterval, beatGame, beatLocked, beatReachable, beatShown, beatAge, beatCalm>>
        /\ beatPc = "load" /\ beatPc' = "post" /\ beatWait' = 0
        /\ beatSnapshot' = Beat!Snapshot /\ beatPause' = Beat!Cadence(Beat!Snapshot)
    BY <1>6 DEF Beat!Post, Beat!world, Beat!history
  <2>2. BeatTypes'
    BY <1>1, <2>1, BeatCadence DEF BeatTypes
  <2>3. Beat!Cadence(beatGame)' = Beat!Cadence(beatGame) /\ Beat!Cadence(beatGame) \in Nat
    BY <1>1, <2>1, BeatCadence DEF BeatTypes, Beat!Cadence
  <2>4. ASSUME ~beatLocked PROVE BeatReports'
    BY <2>1, <2>3, <2>4 DEF BeatReports, Beat!Snapshot
  <2> QED
    BY <1>1, <2>1, <2>2, <2>3, <2>4 DEF BeatInv, BeatTypes, BeatIsLate, BeatHasReported
<1>7. ASSUME NEW key, NEW revoked, Beat!Answer(key, revoked) PROVE BeatInv'
  <2>1. /\ UNCHANGED <<beatInterval, beatGame, beatLocked, beatReachable, beatSnapshot, beatPause, beatCalm>>
        /\ beatPc = "post" /\ beatShown' = beatSnapshot /\ beatAge' = 0
        /\ beatPc' = "sleep" /\ beatWait' = beatPause
    BY <1>7 DEF Beat!Answer, Beat!Sleep, Beat!world
  <2>2. BeatTypes'
    BY <1>1, <2>1 DEF BeatTypes
  <2>3. Beat!Cadence(beatGame)' = Beat!Cadence(beatGame) /\ Beat!Cadence(beatGame) \in Nat
    BY <1>1, <2>1, BeatCadence DEF BeatTypes, Beat!Cadence
  <2>4. BeatReports => BeatHasReported'
    BY <2>1, <2>3 DEF BeatReports, BeatHasReported
  <2>5. beatCalm <= beatWait => BeatIsLate'
    BY <1>1, <2>1 DEF BeatTypes, BeatIsLate
  <2> QED
    BY <2>1, <2>2, <2>4, <2>5 DEF BeatInv, BeatIsLate, BeatHasReported
<1>8. CASE Beat!NoAnswer
  <2>1. /\ UNCHANGED <<beatInterval, beatGame, beatLocked, beatReachable, beatPause, beatAge, beatCalm>>
        /\ ~beatReachable /\ beatPc' = "sleep" /\ beatWait' = RETRY
    BY <1>8 DEF Beat!NoAnswer, Beat!Sleep, Beat!world, Beat!history
  <2> QED
    BY <1>1, <2>1, BeatLongest DEF BeatInv, BeatTypes
<1>9. CASE Beat!Wake
  <2>1. /\ UNCHANGED <<beatInterval, beatGame, beatLocked, beatReachable, beatPause, beatWait, beatShown, beatAge,
                       beatCalm>>
        /\ beatPc = "sleep" /\ beatWait = 0 /\ beatPc' = "load"
    BY <1>9 DEF Beat!Wake, Beat!world, Beat!history
  <2>2. Beat!Cadence(beatGame)' = Beat!Cadence(beatGame) /\ Beat!Cadence(beatGame) \in Nat
    BY <1>1, <2>1, BeatCadence DEF BeatTypes, Beat!Cadence
  <2> QED
    BY <1>1, <2>1, <2>2 DEF BeatInv, BeatTypes, BeatIsLate, BeatHasReported
<1>10. CASE Beat!SignOut \/ \E key \in LicenceKey : Beat!UserActivates(key)
  BY <1>10, <1>s DEF Beat!SignOut, Beat!UserActivates, Beat!world, Beat!loop, Beat!history
<1>11. CASE UNCHANGED Beat!vars
  BY <1>11, <1>s DEF Beat!vars, Beat!world, Beat!loop, Beat!history
<1> QED
  BY <1>2, <1>3, <1>4, <1>5, <1>6, <1>7, <1>8, <1>9, <1>10, <1>11 DEF Beat!Next

\* When nothing has changed for the longest that the heartbeat may sleep and ask, the
\* dashboard has the server's status, of a moment ago if a server is active.
THEOREM DashboardHasTheStatus == Beat!Spec => []Beat!DashboardIsCurrent
<1>1. BeatInv => Beat!DashboardIsCurrent
  <2> SUFFICES ASSUME BeatInv, beatCalm > Beat!Slowest, beatInterval # 0, beatReachable, ~beatLocked
               PROVE  /\ beatShown = beatGame
                      /\ beatAge <= IF Beat!AnyServerActive(beatGame) THEN ACTIVE + 1 ELSE Beat!Slowest
    BY DEF Beat!DashboardIsCurrent
  <2>1. BeatTypes /\ Beat!Longest \in Nat /\ Beat!Slowest = Beat!Longest + 2
    BY BeatLongest DEF BeatInv
  <2>2. ~BeatIsLate
    BY <2>1 DEF BeatTypes, BeatIsLate
  <2>3. BeatHasReported
    BY <2>2 DEF BeatInv
  <2>4. /\ Beat!Cadence(beatGame) \in 0..Beat!Longest
        /\ Beat!AnyServerActive(beatGame) => Beat!Cadence(beatGame) = ACTIVE
    BY <2>1, BeatCadence DEF BeatTypes
  <2>5. beatAge <= Beat!Cadence(beatGame) + 1
    BY <2>1, <2>3, <2>4 DEF BeatHasReported, BeatTypes
  <2> QED
    BY <2>1, <2>3, <2>4, <2>5, BeatSleeps DEF BeatHasReported, BeatTypes
<1> QED
  BY <1>1, BeatStarts, BeatGoes, PTL DEF Beat!Spec

-----------------------------------------------------------------------------
(***************************************************************************)
(* The files of the players (PlayerData).                                  *)
(***************************************************************************)

DataTime == Nat
DataContent == [of : WorldProfile, at : DataTime]
DataWork == [step : Data!Step, kind : Data!Kind, server : WorldProfile, mtime : DataContent,
             entries : DataContent \cup {NoThing}, known : BOOLEAN, answer : DataContent \cup {NoThing},
             alone : BOOLEAN, names : DataTime, data : DataTime]
NamesCached == [mtime : DataContent, entries : DataContent, known : BOOLEAN]

DataTypes ==
    /\ dataWrites \in Nat
    /\ dataProfile \in WorldProfile
    /\ dataUsers \in [WorldProfile -> [at : DataTime, known : BOOLEAN]]
    /\ dataDat \in [WorldProfile -> DataTime]
    /\ \A s \in WorldProfile : dataUsers[s].at \in 1..Data!Now /\ dataDat[s] <= Data!Now
    /\ dataUsercache \in NamesCached \cup {NoThing}
    /\ dataPlayerCache \in [mtime : DataContent, data : DataContent] \cup {NoThing}
    /\ dataCall \in [Reader -> DataWork \cup {Data!Idle}]
    /\ \A c \in Reader : dataCall[c] # Data!Idle => dataCall[c].mtime.at <= Data!Now /\ dataCall[c].data <= Data!Now
    /\ dataUsercache # NoThing => dataUsercache.mtime.at <= Data!Now
    /\ dataPlayerCache # NoThing => dataPlayerCache.mtime.at <= Data!Now

\* What a call has read is of its server, and not older than the time it read first.
DataCall(q) ==
    /\ q.names <= dataUsers[q.server].at /\ q.names > 0
    /\ dataDat[q.server] # 0 => q.data <= dataDat[q.server]
    /\ q.step \in {"look", "read", "store", "find"} => q.mtime = [of |-> q.server, at |-> q.names]
    /\ q.step \in {"look", "read"} => q.entries = NoThing
    /\ q.step = "store" => q.entries \in DataContent /\ Data!Current(q.entries, q.server, q.names)
    /\ q.step = "find" => dataUsercache \in NamesCached
    /\ q.step = "find" /\ q.alone => Data!Current(dataUsercache.entries, q.server, q.names)
    /\ q.step \notin {"keep", "answer"} => q.answer = NoThing
    /\ q.step \in {"cached", "load", "keep"} =>
          q.mtime.of = q.server /\ (q.mtime.at # 0 => q.data <= q.mtime.at)
    /\ q.step \in {"cached", "load"} /\ dataDat[q.server] # 0 => q.mtime.at <= dataDat[q.server]
    /\ q.step = "keep" => q.answer \in DataContent /\ Data!Current(q.answer, q.server, q.mtime.at)
    /\ q.step \in {"keep", "answer"} /\ q.answer # NoThing /\ q.mtime.at # 0
       => Data!Current(q.answer, q.server, q.data)
    /\ q.step \in {"time", "cached", "load", "keep", "drop", "answer"} /\ q.entries # NoThing /\ q.alone
       => Data!Current(q.entries, q.server, q.names)

\* A call that is alone is the only one.
DataAlone ==
    \A c, d \in Reader : c # d /\ dataCall[c] # Data!Idle /\ dataCall[d] # Data!Idle => ~dataCall[c].alone

\* No two profiles have files of one time, so that a time tells whose a file is.
OwnedBy(owner, x) == x.at # 0 => owner[x.at] = x.of
DataOwned(owner) ==
    /\ \A s \in WorldProfile : owner[dataUsers[s].at] = s /\ (dataDat[s] # 0 => owner[dataDat[s]] = s)
    /\ dataUsercache # NoThing => OwnedBy(owner, dataUsercache.mtime)
    /\ dataPlayerCache # NoThing => OwnedBy(owner, dataPlayerCache.mtime)
    /\ \A c \in Reader : dataCall[c] # Data!Idle => OwnedBy(owner, dataCall[c].mtime)

\* Calls and caches have what was read, at a time that tells whose it is.
DataInv ==
    /\ DataTypes
    /\ \A c \in Reader : dataCall[c] # Data!Idle => DataCall(dataCall[c])
    /\ DataAlone
    /\ \E owner \in [DataTime -> WorldProfile] : DataOwned(owner)
    /\ Data!CachesAreNotOlder

-----------------------------------------------------------------------------
LEMMA SavedAtTimesOfTheirOwn ==
  /\ Cardinality(Data!File) \in Nat
  /\ Data!Saved \in [Data!File -> 1..Cardinality(Data!File)]
  /\ \A f, g \in Data!File : Data!Saved[f] = Data!Saved[g] => f = g
<1> DEFINE n == Cardinality(Data!File)
<1>1. IsFiniteSet(Data!File)
  <2>1. {"users", "dat"} = {"users"} \cup {"dat"} /\ IsFiniteSet({"users"})
    BY FS_Singleton
  <2>2. IsFiniteSet({"users", "dat"})
    BY <2>1, FS_AddElement
  <2> QED
    BY <2>2, ProfilesAreFinite, FS_Product DEF Data!File
<1>2. n \in Nat /\ ExistsBijection(1..n, Data!File)
  BY <1>1, FS_CardinalityType
<1>3. ExistsBijection(Data!File, 1..n)
  BY <1>2, Fun_ExistsBijSymmetric
<1>4. PICK time \in [Data!File -> 1..n] : \A f, g \in Data!File : time[f] = time[g] => f = g
  BY <1>3 DEF ExistsBijection, Bijection, Injection, IsInjective
<1>5. Data!Cardinality(Data!File) = n
  BY DEF Data!Cardinality, Cardinality
<1>6. Data!Saved = CHOOSE t \in [Data!File -> 1..n] : \A f, g \in Data!File : t[f] = t[g] => f = g
  BY <1>5 DEF Data!Saved
<1> HIDE DEF n
<1>7. /\ Data!Saved \in [Data!File -> 1..n]
      /\ \A f, g \in Data!File : Data!Saved[f] = Data!Saved[g] => f = g
  BY <1>4, <1>6
<1> QED
  BY <1>2, <1>7 DEF n

LEMMA DataInitially == Data!Init => DataInv
<1> SUFFICES ASSUME Data!Init PROVE DataInv
  OBVIOUS
<1> DEFINE t == Data!Saved
           n == Cardinality(Data!File)
<1>1. /\ n \in Nat
      /\ t \in [Data!File -> 1..n]
      /\ \A f, g \in Data!File : t[f] = t[g] => f = g
  BY SavedAtTimesOfTheirOwn
<1>2. Data!Cardinality(Data!File) = n
  BY DEF Data!Cardinality, Cardinality
<1>3. Data!Now = n
  BY <1>1, <1>2 DEF Data!Now, Data!Init
<1>4. \A s \in WorldProfile : <<s, "users">> \in Data!File /\ <<s, "dat">> \in Data!File
  BY DEF Data!File
<1> HIDE DEF t, n
<1>5. /\ \A s \in WorldProfile : t[<<s, "users">>] \in 1..n /\ t[<<s, "dat">>] \in 1..n
      /\ dataUsers = [s \in WorldProfile |-> [at |-> t[<<s, "users">>], known |-> TRUE]]
      /\ dataDat = [s \in WorldProfile |-> t[<<s, "dat">>]]
  BY <1>1, <1>4 DEF Data!Init, t
<1>6. /\ dataCall = [c \in Reader |-> Data!Idle] /\ dataUsercache = NoThing /\ dataPlayerCache = NoThing
      /\ dataProfile \in WorldProfile /\ dataWrites = 0
  BY DEF Data!Init
<1>7. DataTypes
  <2>1. dataUsers \in [WorldProfile -> [at : DataTime, known : BOOLEAN]]
    <3>1. ASSUME NEW a \in 1..n PROVE [at |-> a, known |-> TRUE] \in [at : DataTime, known : BOOLEAN]
      BY <1>1 DEF DataTime
    <3> QED
      BY <1>5, <3>1
  <2>n. \A a \in 1..n : a \in DataTime /\ a <= n
    BY <1>1 DEF DataTime
  <2>2. dataDat \in [WorldProfile -> DataTime]
    BY <1>5, <2>n
  <2>3. \A s \in WorldProfile : dataUsers[s].at \in 1..n /\ dataDat[s] <= n
    <3> SUFFICES ASSUME NEW s \in WorldProfile PROVE dataUsers[s].at \in 1..n /\ dataDat[s] <= n
      OBVIOUS
    <3>1. dataUsers[s].at = t[<<s, "users">>] /\ dataDat[s] = t[<<s, "dat">>]
      BY <1>5
    <3> QED
      BY <1>5, <2>n, <3>1
  <2> QED
    BY <1>3, <1>6, <2>1, <2>2, <2>3 DEF DataTypes
<1>8. \E owner \in [DataTime -> WorldProfile] : DataOwned(owner)
  <2> DEFINE of(a) == CHOOSE s \in WorldProfile :
                         t[<<s, "users">>] = a \/ t[<<s, "dat">>] = a \/ ~\E u \in WorldProfile :
                            t[<<u, "users">>] = a \/ t[<<u, "dat">>] = a
             owner == [a \in DataTime |-> of(a)]
  <2>1. ASSUME NEW a \in DataTime PROVE of(a) \in WorldProfile
    <3>1. \E s \in WorldProfile : t[<<s, "users">>] = a \/ t[<<s, "dat">>] = a \/ ~\E u \in WorldProfile :
                            t[<<u, "users">>] = a \/ t[<<u, "dat">>] = a
      BY <1>6
    <3> QED
      BY <3>1
  <2>2. ASSUME NEW s \in WorldProfile, NEW a \in DataTime, t[<<s, "users">>] = a \/ t[<<s, "dat">>] = a
        PROVE  of(a) = s
    <3>1. t[<<of(a), "users">>] = a \/ t[<<of(a), "dat">>] = a
      BY <2>2
    <3>2. of(a) \in WorldProfile
      BY <2>1
    <3> HIDE DEF of
    <3> QED
      BY <2>2, <3>1, <3>2, <1>1, <1>4
  <2>3. owner \in [DataTime -> WorldProfile]
    BY <2>1
  <2>4. \A s \in WorldProfile : dataUsers[s].at \in DataTime /\ dataDat[s] \in DataTime
    BY <1>7 DEF DataTypes
  <2> HIDE DEF of
  <2>5. \A s \in WorldProfile : owner[dataUsers[s].at] = s /\ owner[dataDat[s]] = s
    BY <1>5, <2>2, <2>4
  <2> HIDE DEF owner
  <2>6. DataOwned(owner)
    BY <1>6, <2>5 DEF DataOwned
  <2> QED
    BY <2>3, <2>6
<1> QED
  BY <1>6, <1>7, <1>8 DEF DataInv, DataAlone, Data!CachesAreNotOlder

\* The fields of a call after a step of it.
LEMMA DataGoesTo ==
  ASSUME NEW q \in DataWork, NEW step \in Data!Step, NEW r,
         r = [q EXCEPT !.step = step]
  PROVE  /\ r \in DataWork /\ r.step = step /\ r.server = q.server /\ r.mtime = q.mtime
         /\ r.entries = q.entries /\ r.answer = q.answer /\ r.alone = q.alone /\ r.names = q.names
         /\ r.data = q.data
  BY DEF DataWork

\* A call of another is as good as before, whatever a call does.
LEMMA DataOthers ==
  ASSUME DataTypes, NEW q \in DataWork, DataCall(q), UNCHANGED Data!files,
         dataUsercache' = dataUsercache \/ (dataUsercache' \in NamesCached /\ ~q.alone)
  PROVE  DataCall(q)'
  BY DEF DataCall, Data!files, Data!Current

\* A call goes on, and keeps what it has read in a cache or not.
LEMMA DataMoves1 ==
  ASSUME DataInv, NEW c \in Reader, NEW q \in DataWork, dataCall[c] = q, NEW new \in DataWork,
         dataCall' = [dataCall EXCEPT ![c] = new], UNCHANGED Data!files,
         new.alone = q.alone, new.data = q.data, new.mtime.at <= Data!Now,
         \A owner \in [DataTime -> WorldProfile] : DataOwned(owner) => OwnedBy(owner, new.mtime),
         DataCall(new)',
         \/ dataUsercache' = dataUsercache
         \/ /\ dataUsercache' \in NamesCached
            /\ dataUsercache'.mtime = q.mtime
            /\ Data!Current(dataUsercache'.entries, dataUsercache'.mtime.of, dataUsercache'.mtime.at),
         \/ dataPlayerCache' = dataPlayerCache
         \/ dataPlayerCache' = NoThing
         \/ /\ dataPlayerCache' \in [mtime : DataContent, data : DataContent]
            /\ dataPlayerCache'.mtime = q.mtime
            /\ Data!Current(dataPlayerCache'.data, dataPlayerCache'.mtime.of, dataPlayerCache'.mtime.at)
  PROVE  DataInv'
<1>a. q # Data!Idle /\ new # Data!Idle
  BY DEF DataWork, Data!Idle, Data!Step
<1>b. Data!Now' = Data!Now
  BY DEF Data!files, Data!Now
<1>1. /\ DataTypes /\ dataCall \in [Reader -> DataWork \cup {Data!Idle}]
      /\ DataAlone
      /\ q # Data!Idle /\ new # Data!Idle
      /\ Data!Now' = Data!Now
  BY <1>a, <1>b DEF DataInv, DataTypes
<1>2. /\ dataCall'[c] = new /\ \A d \in Reader \ {c} : dataCall'[d] = dataCall[d]
      /\ dataCall' \in [Reader -> DataWork \cup {Data!Idle}]
  BY <1>1
<1>3. q.mtime.at <= Data!Now /\ q.data <= Data!Now
  BY <1>1 DEF DataTypes
<1>4. DataTypes'
  <2>1. UNCHANGED <<dataWrites, dataProfile, dataUsers, dataDat>>
    BY DEF Data!files
  <2>2. /\ dataUsercache' \in NamesCached \cup {NoThing}
        /\ dataUsercache' # NoThing => dataUsercache'.mtime.at <= Data!Now
    BY <1>1, <1>3 DEF DataTypes
  <2>3. /\ dataPlayerCache' \in [mtime : DataContent, data : DataContent] \cup {NoThing}
        /\ dataPlayerCache' # NoThing => dataPlayerCache'.mtime.at <= Data!Now
    BY <1>1, <1>3 DEF DataTypes
  <2>4. \A d \in Reader : dataCall'[d] # Data!Idle =>
           dataCall'[d].mtime.at <= Data!Now /\ dataCall'[d].data <= Data!Now
    BY <1>1, <1>2, <1>3 DEF DataTypes
  <2> QED
    BY <1>1, <1>2, <2>1, <2>2, <2>3, <2>4 DEF DataTypes
<1>5. \A d \in Reader : dataCall'[d] # Data!Idle => DataCall(dataCall[d])' 
  <2> SUFFICES ASSUME NEW d \in Reader, dataCall'[d] # Data!Idle PROVE DataCall(dataCall[d])'
    OBVIOUS
  <2>1. CASE d = c
    BY <2>1, <1>2
  <2>2. CASE d # c
    <3>1. PICK p \in DataWork : p = dataCall[d]
      BY <2>2, <1>1, <1>2
    <3>2. DataCall(p) /\ ~p.alone
      BY <2>2, <3>1, <1>1, <1>2 DEF DataInv, DataAlone
    <3>3. DataCall(p)'
      BY <3>2, <1>1, DataOthers
    <3> QED
      BY <2>2, <3>1, <3>3, <1>2
  <2> QED
    BY <2>1, <2>2
<1>6. DataAlone'
  <2>1. \A d \in Reader : /\ dataCall'[d] = Data!Idle <=> dataCall[d] = Data!Idle
                          /\ dataCall'[d] # Data!Idle => dataCall'[d].alone = dataCall[d].alone
    BY <1>1, <1>2
  <2> QED
    BY <1>1, <2>1 DEF DataAlone
<1>7. \E owner \in [DataTime -> WorldProfile] : DataOwned(owner)'
  <2>1. PICK owner \in [DataTime -> WorldProfile] : DataOwned(owner)
    BY DEF DataInv
  <2>2. OwnedBy(owner, q.mtime) /\ OwnedBy(owner, new.mtime)
    BY <2>1, <1>1 DEF DataOwned
  <2>3. \A d \in Reader : dataCall'[d] # Data!Idle => OwnedBy(owner, dataCall'[d].mtime)
    BY <2>1, <2>2, <1>2 DEF DataOwned
  <2>4. UNCHANGED <<dataUsers, dataDat>>
    BY DEF Data!files
  <2>5. dataUsercache' # NoThing => OwnedBy(owner, dataUsercache'.mtime)
    BY <2>1, <2>2 DEF DataOwned
  <2>6. dataPlayerCache' # NoThing => OwnedBy(owner, dataPlayerCache'.mtime)
    BY <2>1, <2>2 DEF DataOwned
  <2>7. DataOwned(owner)'
    BY <2>1, <2>3, <2>4, <2>5, <2>6 DEF DataOwned, OwnedBy
  <2> QED
    BY <2>7
<1>8. Data!CachesAreNotOlder'
  BY DEF DataInv, Data!CachesAreNotOlder, Data!Current
<1> QED
  BY <1>4, <1>5, <1>6, <1>7, <1>8 DEF DataInv

\* A step that leaves the caches, and the time that a call has read.
LEMMA DataGoesOn ==
  ASSUME DataInv, NEW c \in Reader, NEW q \in DataWork, dataCall[c] = q, NEW new \in DataWork,
         dataCall' = [dataCall EXCEPT ![c] = new], UNCHANGED <<Data!files, Data!caches>>,
         new.alone = q.alone, new.data = q.data, new.mtime = q.mtime, DataCall(new)
  PROVE  DataInv'
<1>1. q # Data!Idle
  BY DEF DataWork, Data!Idle, Data!Step
<1>2. UNCHANGED <<dataUsercache, dataPlayerCache, Data!files>>
  BY DEF Data!caches
<1>3. DataTypes /\ new.mtime.at <= Data!Now
  BY <1>1 DEF DataInv, DataTypes
<1>4. DataCall(new)'
  BY <1>2, <1>3, DataOthers
<1>5. \A owner \in [DataTime -> WorldProfile] : DataOwned(owner) => OwnedBy(owner, new.mtime)
  BY <1>1 DEF DataOwned
<1> QED
  BY <1>2, <1>3, <1>4, <1>5, DataMoves1

\* A file is written, at a time of its own, or the player's is removed.
LEMMA DataWritten ==
  ASSUME DataInv, NEW s \in WorldProfile, UNCHANGED <<dataProfile, dataUsercache, dataPlayerCache, dataCall>>,
         dataWrites' = dataWrites + 1,
         \/ /\ \E known \in BOOLEAN :
                  dataUsers' = [dataUsers EXCEPT ![s] = [at |-> Data!Now + 1, known |-> known]]
            /\ UNCHANGED dataDat
         \/ /\ UNCHANGED dataUsers
            /\ \/ dataDat' = [dataDat EXCEPT ![s] = Data!Now + 1]
               \/ dataDat' = [dataDat EXCEPT ![s] = 0]
  PROVE  DataInv'
<1>1. /\ DataTypes /\ Data!Now \in Nat /\ Data!Now' = Data!Now + 1
  <2>1. Data!Cardinality(Data!File) = Cardinality(Data!File)
    BY DEF Data!Cardinality, Cardinality
  <2> QED
    BY <2>1, SavedAtTimesOfTheirOwn DEF DataInv, DataTypes, Data!Now
<1>2. /\ dataUsers' \in [WorldProfile -> [at : DataTime, known : BOOLEAN]]
      /\ dataDat' \in [WorldProfile -> DataTime]
  <2>1. \A known \in BOOLEAN : [at |-> Data!Now + 1, known |-> known] \in [at : DataTime, known : BOOLEAN]
    BY <1>1 DEF DataTime
  <2> QED
    BY <1>1, <2>1 DEF DataTypes, DataTime
\* What a file's time is now.
<1>3. ASSUME NEW u \in WorldProfile
      PROVE  /\ \/ dataUsers'[u].at = dataUsers[u].at
                \/ u = s /\ dataUsers'[u].at = Data!Now + 1
             /\ \/ dataDat'[u] = dataDat[u]
                \/ dataDat'[u] = 0
                \/ u = s /\ dataDat'[u] = Data!Now + 1
  BY <1>1 DEF DataTypes
<1>4. ASSUME NEW u \in WorldProfile
      PROVE  /\ dataUsers[u].at \in 1..Data!Now /\ dataUsers'[u].at \in 1..(Data!Now + 1)
             /\ dataDat[u] \in 0..Data!Now /\ dataDat'[u] \in 0..(Data!Now + 1)
             /\ dataUsers[u].at <= dataUsers'[u].at
             /\ dataDat'[u] # 0 => dataDat'[u] = dataDat[u] \/ dataDat'[u] = Data!Now + 1
  <2>1. dataUsers[u].at \in 1..Data!Now /\ dataDat[u] \in Nat /\ dataDat[u] <= Data!Now
    BY <1>1 DEF DataTypes, DataTime
  <2> QED
    BY <1>1, <1>3, <2>1
<1>5. DataTypes'
  <2>1. \A c \in Reader : dataCall[c] # Data!Idle =>
           dataCall[c].mtime.at <= Data!Now + 1 /\ dataCall[c].data <= Data!Now + 1
    <3> SUFFICES ASSUME NEW c \in Reader, dataCall[c] # Data!Idle
                 PROVE  dataCall[c].mtime.at <= Data!Now + 1 /\ dataCall[c].data <= Data!Now + 1
      OBVIOUS
    <3>1. /\ dataCall[c].mtime.at \in Nat /\ dataCall[c].data \in Nat
          /\ dataCall[c].mtime.at <= Data!Now /\ dataCall[c].data <= Data!Now
      BY <1>1 DEF DataTypes, DataWork, DataContent, DataTime
    <3> QED
      BY <1>1, <3>1
  <2>2. /\ dataUsercache # NoThing => dataUsercache.mtime.at <= Data!Now + 1
        /\ dataPlayerCache # NoThing => dataPlayerCache.mtime.at <= Data!Now + 1
    BY <1>1 DEF DataTypes, NamesCached, DataContent, DataTime
  <2>3. \A u \in WorldProfile : dataUsers'[u].at \in 1..(Data!Now + 1) /\ dataDat'[u] <= Data!Now + 1
    BY <1>1, <1>4
  <2> QED
    BY <1>1, <1>2, <2>1, <2>2, <2>3 DEF DataTypes
<1>6. \A c \in Reader : dataCall'[c] # Data!Idle => DataCall(dataCall[c])'
  <2> SUFFICES ASSUME NEW c \in Reader, dataCall[c] # Data!Idle PROVE DataCall(dataCall[c])'
    OBVIOUS
  <2>1. PICK q \in DataWork : q = dataCall[c]
    BY <1>1 DEF DataTypes
  <2>2. /\ DataCall(q) /\ q.server \in WorldProfile /\ q.mtime.at \in Nat /\ q.mtime.at <= Data!Now
        /\ q.data \in Nat /\ q.data <= Data!Now /\ q.names \in Nat
    BY <1>1, <2>1 DEF DataInv, DataTypes, DataWork, DataContent, DataTime
  <2>3. /\ q.names <= dataUsers'[q.server].at
        /\ dataDat'[q.server] # 0 => q.data <= dataDat'[q.server]
        /\ q.step \in {"cached", "load"} /\ dataDat'[q.server] # 0 => q.mtime.at <= dataDat'[q.server]
    <3>1. /\ dataUsers[q.server].at \in Nat /\ dataUsers'[q.server].at \in Nat
          /\ dataUsers[q.server].at <= dataUsers'[q.server].at
          /\ dataDat[q.server] \in Nat /\ dataDat'[q.server] \in Nat
          /\ dataDat'[q.server] # 0 => dataDat'[q.server] = dataDat[q.server] \/ dataDat'[q.server] = Data!Now + 1
      BY <1>1, <1>4, <2>2
    <3>2. /\ q.names <= dataUsers[q.server].at
          /\ dataDat[q.server] # 0 => q.data <= dataDat[q.server]
          /\ q.step \in {"cached", "load"} /\ dataDat[q.server] # 0 => q.mtime.at <= dataDat[q.server]
      BY <2>2 DEF DataCall
    <3> QED
      BY <1>1, <2>2, <3>1, <3>2
  <2>4. DataCall(q)'
    BY <2>2, <2>3 DEF DataCall, Data!Current
  <2> QED
    BY <2>1, <2>4
<1>7. \E owner \in [DataTime -> WorldProfile] : DataOwned(owner)'
  <2>1. PICK old \in [DataTime -> WorldProfile] : DataOwned(old)
    BY DEF DataInv
  <2>o. [old EXCEPT ![Data!Now + 1] = s] \in [DataTime -> WorldProfile]
    OBVIOUS
  <2>p. PICK owner \in [DataTime -> WorldProfile] : owner = [old EXCEPT ![Data!Now + 1] = s]
    BY <2>o
  <2>2. /\ owner \in [DataTime -> WorldProfile]
        /\ owner[Data!Now + 1] = s
        /\ \A t \in DataTime : t <= Data!Now => owner[t] = old[t]
    BY <1>1, <2>p DEF DataTime
  <2>3. ASSUME NEW x \in DataContent, x.at <= Data!Now, OwnedBy(old, x) PROVE OwnedBy(owner, x)
    BY <2>2, <2>3 DEF OwnedBy, DataContent
  <2>4. ASSUME NEW u \in WorldProfile
        PROVE  owner[dataUsers'[u].at] = u /\ (dataDat'[u] # 0 => owner[dataDat'[u]] = u)
    <3>1. old[dataUsers[u].at] = u /\ (dataDat[u] # 0 => old[dataDat[u]] = u)
      BY <2>1 DEF DataOwned
    <3>2. dataUsers[u].at \in DataTime /\ dataUsers[u].at <= Data!Now
          /\ dataDat[u] \in DataTime /\ dataDat[u] <= Data!Now
      BY <1>1, <1>4 DEF DataTime
    <3> QED
      BY <1>3, <2>2, <3>1, <3>2
  <2>5. \A c \in Reader : dataCall[c] # Data!Idle => OwnedBy(owner, dataCall[c].mtime)
    <3> SUFFICES ASSUME NEW c \in Reader, dataCall[c] # Data!Idle PROVE OwnedBy(owner, dataCall[c].mtime)
      OBVIOUS
    <3>1. dataCall[c] \in DataWork /\ dataCall[c].mtime.at <= Data!Now
      BY <1>1 DEF DataTypes
    <3>2. dataCall[c].mtime \in DataContent
      BY <3>1 DEF DataWork
    <3> QED
      BY <2>1, <2>3, <3>1, <3>2 DEF DataOwned
  <2>6. /\ dataUsercache # NoThing => OwnedBy(owner, dataUsercache.mtime)
        /\ dataPlayerCache # NoThing => OwnedBy(owner, dataPlayerCache.mtime)
    BY <1>1, <2>1, <2>3 DEF DataOwned, DataTypes, NamesCached
  <2>7. DataOwned(owner)'
    BY <2>4, <2>5, <2>6 DEF DataOwned, OwnedBy
  <2> QED
    BY <2>2, <2>7
<1> QED
  BY <1>5, <1>6, <1>7 DEF DataInv, DataAlone, Data!CachesAreNotOlder, Data!Current

LEMMA DataBegins ==
  ASSUME DataInv, NEW c \in Reader, NEW kind \in Data!Kind, Data!Begin(c, kind)
  PROVE  DataInv'
<1>1. /\ DataTypes /\ dataCall[c] = Data!Idle
      /\ UNCHANGED <<dataWrites, dataProfile, dataUsers, dataDat, dataUsercache, dataPlayerCache>>
      /\ Data!Now' = Data!Now
  BY DEF DataInv, Data!Begin, Data!files, Data!caches, Data!Now
<1>2. PICK alone \in BOOLEAN : alone = (\A d \in Reader : dataCall[d] = Data!Idle)
  OBVIOUS
<1>3. PICK new : new = [step |-> "look", kind |-> kind, server |-> dataProfile,
                        mtime |-> [of |-> dataProfile, at |-> dataUsers[dataProfile].at],
                        entries |-> NoThing, known |-> FALSE, answer |-> NoThing,
                        alone |-> alone, names |-> dataUsers[dataProfile].at, data |-> dataDat[dataProfile]]
  OBVIOUS
<1>4. /\ new.step = "look" /\ new.kind = kind /\ new.server = dataProfile
      /\ new.mtime = [of |-> dataProfile, at |-> dataUsers[dataProfile].at]
      /\ new.entries = NoThing /\ new.answer = NoThing /\ new.alone = alone
      /\ new.names = dataUsers[dataProfile].at /\ new.data = dataDat[dataProfile]
  BY <1>3
<1>5. /\ dataProfile \in WorldProfile
      /\ dataUsers[dataProfile].at \in DataTime /\ dataDat[dataProfile] \in DataTime
      /\ dataUsers[dataProfile].at <= Data!Now /\ dataDat[dataProfile] <= Data!Now
      /\ dataUsers[dataProfile].at > 0
  BY <1>1 DEF DataTypes, DataTime
<1>6. new \in DataWork
  <2>1. [of |-> dataProfile, at |-> dataUsers[dataProfile].at] \in DataContent
    BY <1>5 DEF DataContent
  <2> QED
    BY <1>3, <1>5, <2>1 DEF DataWork, Data!Step
<1>7. new # Data!Idle
  BY <1>4 DEF Data!Idle
<1>8. ASSUME NEW d \in Reader, d # c
      PROVE  dataCall'[d] = IF dataCall[d] # Data!Idle THEN [dataCall[d] EXCEPT !.alone = FALSE] ELSE Data!Idle
  BY <1>8 DEF Data!Begin
<1>9. dataCall'[c] = new /\ DOMAIN dataCall' = Reader
  BY <1>2, <1>3 DEF Data!Begin
<1>10. ASSUME NEW q \in DataWork, NEW r, r = [q EXCEPT !.alone = FALSE]
       PROVE  /\ r \in DataWork /\ r.step = q.step /\ r.kind = q.kind /\ r.server = q.server /\ r.mtime = q.mtime
              /\ r.entries = q.entries /\ r.answer = q.answer /\ r.alone = FALSE /\ r.names = q.names
              /\ r.data = q.data /\ r # Data!Idle
  BY <1>10 DEF DataWork, Data!Idle, Data!Step
<1>11. ASSUME NEW d \in Reader, d # c, dataCall[d] # Data!Idle
       PROVE  \E q \in DataWork, r \in DataWork :
                 /\ q = dataCall[d] /\ r = dataCall'[d] /\ r # Data!Idle
                 /\ r.step = q.step /\ r.kind = q.kind /\ r.server = q.server /\ r.mtime = q.mtime
                 /\ r.entries = q.entries /\ r.answer = q.answer /\ r.alone = FALSE /\ r.names = q.names
                 /\ r.data = q.data
  <2>1. PICK q \in DataWork : q = dataCall[d]
    BY <1>1, <1>11 DEF DataTypes
  <2>2. PICK r : r = [q EXCEPT !.alone = FALSE]
    OBVIOUS
  <2>3. /\ r \in DataWork /\ r.step = q.step /\ r.kind = q.kind /\ r.server = q.server /\ r.mtime = q.mtime
        /\ r.entries = q.entries /\ r.answer = q.answer /\ r.alone = FALSE /\ r.names = q.names
        /\ r.data = q.data /\ r # Data!Idle
    BY <1>10, <2>2
  <2>4. dataCall'[d] = r
    BY <1>8, <1>11, <2>1, <2>2
  <2> QED
    BY <2>1, <2>3, <2>4
<1>12. dataCall' \in [Reader -> DataWork \cup {Data!Idle}]
  <2>1. ASSUME NEW d \in Reader PROVE dataCall'[d] \in DataWork \cup {Data!Idle}
    <3>1. CASE d # c /\ dataCall[d] # Data!Idle
      BY <1>11, <3>1
    <3> QED
      BY <1>6, <1>8, <1>9, <3>1
  <2>2. dataCall' = [d \in Reader |-> dataCall'[d]]
    BY DEF Data!Begin
  <2> QED
    BY <2>1, <2>2
<1>13. DataTypes'
  <2>1. \A d \in Reader : dataCall'[d] # Data!Idle =>
           dataCall'[d].mtime.at <= Data!Now /\ dataCall'[d].data <= Data!Now
    <3> SUFFICES ASSUME NEW d \in Reader, dataCall'[d] # Data!Idle
                 PROVE  dataCall'[d].mtime.at <= Data!Now /\ dataCall'[d].data <= Data!Now
      OBVIOUS
    <3>1. CASE d = c
      BY <1>4, <1>5, <1>9, <3>1
    <3>2. CASE d # c
      <4>1. dataCall[d] # Data!Idle
        BY <1>8, <3>2
      <4>2. dataCall'[d].mtime = dataCall[d].mtime /\ dataCall'[d].data = dataCall[d].data
        BY <1>11, <3>2, <4>1
      <4> QED
        BY <1>1, <4>1, <4>2 DEF DataTypes
    <3> QED
      BY <3>1, <3>2
  <2> QED
    BY <1>1, <1>12, <2>1 DEF DataTypes
<1>14. DataCall(new)'
  BY <1>1, <1>4, <1>5 DEF DataCall, DataTime
<1>15. \A d \in Reader : dataCall'[d] # Data!Idle => DataCall(dataCall[d])'
  <2> SUFFICES ASSUME NEW d \in Reader, dataCall'[d] # Data!Idle PROVE DataCall(dataCall[d])'
    OBVIOUS
  <2>1. CASE d = c
    BY <1>9, <1>14, <2>1
  <2>2. CASE d # c
    <3>1. dataCall[d] # Data!Idle
      BY <1>8, <2>2
    <3>2. PICK q \in DataWork, r \in DataWork :
                 /\ q = dataCall[d] /\ r = dataCall'[d] /\ r # Data!Idle
                 /\ r.step = q.step /\ r.kind = q.kind /\ r.server = q.server /\ r.mtime = q.mtime
                 /\ r.entries = q.entries /\ r.answer = q.answer /\ r.alone = FALSE /\ r.names = q.names
                 /\ r.data = q.data
      BY <1>11, <2>2, <3>1
    <3>3. DataCall(q)
      BY <3>1, <3>2 DEF DataInv
    <3>4. DataCall(r)'
      BY <1>1, <3>2, <3>3 DEF DataCall, Data!Current
    <3> QED
      BY <3>2, <3>4
  <2> QED
    BY <2>1, <2>2
<1>16. DataAlone'
  <2> SUFFICES ASSUME NEW a \in Reader, NEW d \in Reader, a # d, dataCall'[a] # Data!Idle, dataCall'[d] # Data!Idle
               PROVE  ~dataCall'[a].alone
    BY DEF DataAlone
  <2>1. CASE a = c
    <3>1. dataCall[d] # Data!Idle
      BY <1>8, <2>1
    <3> QED
      BY <1>2, <1>4, <1>9, <2>1, <3>1
  <2>2. CASE a # c
    BY <1>8, <1>11, <2>2
  <2> QED
    BY <2>1, <2>2
<1>17. \E owner \in [DataTime -> WorldProfile] : DataOwned(owner)'
  <2>1. PICK owner \in [DataTime -> WorldProfile] : DataOwned(owner)
    BY DEF DataInv
  <2>2. OwnedBy(owner, new.mtime)
    BY <1>4, <1>5, <2>1 DEF DataOwned, OwnedBy
  <2>3. ASSUME NEW d \in Reader, dataCall'[d] # Data!Idle PROVE OwnedBy(owner, dataCall'[d].mtime)
    <3>1. CASE d = c
      BY <1>9, <2>2, <3>1
    <3>2. CASE d # c
      BY <1>8, <1>11, <2>1, <2>3, <3>2 DEF DataOwned
    <3> QED
      BY <3>1, <3>2
  <2>4. DataOwned(owner)'
    BY <1>1, <2>1, <2>3 DEF DataOwned, OwnedBy
  <2> QED
    BY <2>4
<1> QED
  BY <1>1, <1>13, <1>15, <1>16, <1>17 DEF DataInv, Data!CachesAreNotOlder, Data!Current

LEMMA DataStep == DataInv /\ [Data!Next]_Data!vars => DataInv'
<1> SUFFICES ASSUME DataInv, [Data!Next]_Data!vars PROVE DataInv'
  OBVIOUS
<1>t. DataTypes
  BY DEF DataInv
<1>s. {"look", "read", "store", "find", "time", "cached", "load", "keep", "drop", "answer"} \subseteq Data!Step
  BY DEF Data!Step
\* A call that is under way, as a value.
<1>q. ASSUME NEW c \in Reader, dataCall[c] # Data!Idle
      PROVE  \E q \in DataWork : q = dataCall[c] /\ DataCall(q)
  <2>1. dataCall[c] \in DataWork
    BY <1>t, <1>q DEF DataTypes
  <2> QED
    BY <1>q, <2>1 DEF DataInv
<1>n. DataContent \subseteq DataContent \cup {NoThing} /\ NoThing \in DataContent \cup {NoThing}
  OBVIOUS
<1>1. ASSUME NEW s \in WorldProfile, Data!Write(s) \/ Data!Remove(s) PROVE DataInv'
  BY <1>1, DataWritten DEF Data!Write, Data!Remove, Data!caches
<1>2. CASE Data!Switch
  <2>1. /\ UNCHANGED <<dataUsers, dataDat, dataUsercache, dataPlayerCache, dataCall, dataWrites>>
        /\ dataProfile' \in WorldProfile
    BY <1>2 DEF Data!Switch, Data!caches
  <2>2. Data!Now' = Data!Now
    BY <2>1 DEF Data!Now
  <2>3. DataTypes'
    BY <1>t, <2>1, <2>2 DEF DataTypes
  <2>4. \A c \in Reader : dataCall'[c] # Data!Idle => DataCall(dataCall[c])'
    BY <2>1 DEF DataInv, DataCall, Data!Current
  <2>5. \E owner \in [DataTime -> WorldProfile] : DataOwned(owner)'
    BY <2>1 DEF DataInv, DataOwned, OwnedBy
  <2> QED
    BY <2>1, <2>3, <2>4, <2>5 DEF DataInv, DataAlone, Data!CachesAreNotOlder, Data!Current
<1>3. ASSUME NEW c \in Reader, NEW kind \in Data!Kind, Data!Begin(c, kind) PROVE DataInv'
  BY <1>3, DataBegins
\* Looking a player up in the entries of the cache.
<1>r. ASSUME NEW c \in Reader, NEW q \in DataWork, q = dataCall[c], DataCall(q), q.step \in {"look", "find"},
             dataUsercache \in NamesCached, Data!Resolved(c, dataUsercache.entries, dataUsercache.known),
             q.alone => Data!Current(dataUsercache.entries, q.server, q.names),
             UNCHANGED <<Data!files, Data!caches>>
      PROVE  DataInv'
  <2>1. dataUsercache.entries \in DataContent
    BY <1>r DEF NamesCached
  <2>2. PICK step \in {"answer", "drop", "time"} :
           step = IF ~dataUsercache.known \/ q.kind = "uuid" THEN "answer"
                  ELSE IF q.kind = "invalidate" THEN "drop" ELSE "time"
    OBVIOUS
  <2>3. PICK new : new = [q EXCEPT !.entries = dataUsercache.entries, !.step = step]
    OBVIOUS
  <2>4. dataCall' = [dataCall EXCEPT ![c] = new]
    BY <1>r, <2>2, <2>3 DEF Data!Resolved
  <2>5. /\ new \in DataWork /\ new.step = step /\ new.server = q.server /\ new.mtime = q.mtime
        /\ new.entries = dataUsercache.entries /\ new.answer = q.answer /\ new.alone = q.alone
        /\ new.names = q.names /\ new.data = q.data
    <3>1. step \in Data!Step /\ dataUsercache.entries \in DataContent \cup {NoThing}
      BY <1>s, <2>1
    <3> QED
      BY <2>3, <3>1 DEF DataWork
  <2>6. DataCall(new)
    BY <1>r, <2>5 DEF DataCall
  <2> QED
    BY <1>r, <2>4, <2>5, <2>6, DataGoesOn
<1>4. ASSUME NEW c \in Reader, Data!Look(c) PROVE DataInv'
  <2>1. PICK q \in DataWork : q = dataCall[c] /\ DataCall(q)
    BY <1>4, <1>q DEF Data!Look, Data!Calls
  <2>2. q.step = "look" /\ UNCHANGED <<Data!files, Data!caches>>
    BY <1>4, <2>1 DEF Data!Look, Data!Calls
  <2>3. CASE dataUsercache # NoThing /\ dataUsercache.mtime.at = q.mtime.at
    <3>1. Data!Resolved(c, dataUsercache.entries, dataUsercache.known)
      BY <1>4, <2>1, <2>3 DEF Data!Look
    <3>2. PICK owner \in [DataTime -> WorldProfile] : DataOwned(owner)
      BY DEF DataInv
    <3>3. /\ q.mtime = [of |-> q.server, at |-> q.names]
          /\ q.names > 0
      BY <2>1, <2>2 DEF DataCall
    <3>4. OwnedBy(owner, q.mtime) /\ OwnedBy(owner, dataUsercache.mtime)
      BY <3>2, <2>1, <2>2, <2>3, <1>4 DEF DataOwned, Data!Look, Data!Calls
    <3>5. q.names \in Nat
      BY DEF DataWork, DataTime
    <3>6. dataUsercache.mtime.of = q.server /\ dataUsercache.mtime.at = q.names
      BY <2>3, <3>3, <3>4, <3>5 DEF OwnedBy
    <3>7. Data!Current(dataUsercache.entries, q.server, q.names)
      BY <2>3, <3>6 DEF DataInv, Data!CachesAreNotOlder
    <3>8. dataUsercache \in NamesCached
      BY <1>t, <2>3 DEF DataTypes
    <3> QED
      BY <1>r, <2>1, <2>2, <3>1, <3>7, <3>8
  <2>4. CASE ~(dataUsercache # NoThing /\ dataUsercache.mtime.at = q.mtime.at)
    <3>1. PICK new : new = [q EXCEPT !.step = "read"]
      OBVIOUS
    <3>2. dataCall' = [dataCall EXCEPT ![c] = new]
      BY <1>4, <2>1, <2>4, <3>1 DEF Data!Look, Data!Goto
    <3>3. /\ new \in DataWork /\ new.step = "read" /\ new.server = q.server /\ new.mtime = q.mtime
          /\ new.entries = q.entries /\ new.answer = q.answer /\ new.alone = q.alone
          /\ new.names = q.names /\ new.data = q.data
      BY <1>s, <3>1, DataGoesTo
    <3>4. DataCall(new)
      BY <2>1, <2>2, <3>3 DEF DataCall
    <3> QED
      BY <2>1, <2>2, <3>2, <3>3, <3>4, DataGoesOn
  <2> QED
    BY <2>3, <2>4
\* What a call replies.
<1>a. ASSUME NEW c \in Reader, NEW q \in DataWork, q = dataCall[c], DataCall(q),
             NEW step \in {"answer", "keep"}, NEW reply \in DataContent \cup {NoThing},
             dataCall' = [dataCall EXCEPT ![c].step = step, ![c].answer = reply],
             q.step \in {"read", "cached", "load"},
             step = "keep" => q.step = "load" /\ reply \in DataContent /\ Data!Current(reply, q.server, q.mtime.at),
             reply # NoThing => q.step # "read" /\ (q.mtime.at # 0 => Data!Current(reply, q.server, q.data)),
             UNCHANGED <<Data!files, Data!caches>>
      PROVE  DataInv'
  <2>1. PICK new : new = [q EXCEPT !.step = step, !.answer = reply]
    OBVIOUS
  <2>2. dataCall' = [dataCall EXCEPT ![c] = new]
    BY <1>a, <2>1
  <2>3. /\ new \in DataWork /\ new.step = step /\ new.server = q.server /\ new.mtime = q.mtime
        /\ new.entries = q.entries /\ new.answer = reply /\ new.alone = q.alone
        /\ new.names = q.names /\ new.data = q.data
    <3>1. step \in Data!Step
      BY <1>s
    <3> QED
      BY <2>1, <3>1 DEF DataWork
  <2>4. DataCall(new)
    BY <1>a, <2>3 DEF DataCall
  <2> QED
    BY <1>a, <2>2, <2>3, <2>4, DataGoesOn
<1>5. ASSUME NEW c \in Reader, Data!Read(c) PROVE DataInv'
  <2>1. PICK q \in DataWork : q = dataCall[c] /\ DataCall(q)
    BY <1>5, <1>q DEF Data!Read, Data!Calls
  <2>2. q.step = "read" /\ UNCHANGED <<Data!files, Data!caches>>
    BY <1>5, <2>1 DEF Data!Read, Data!Calls
  <2>3. CASE Data!Answer(c, NoThing)
    BY <1>a, <1>n, <2>1, <2>2, <2>3 DEF Data!Answer
  <2>4. CASE dataCall' = [dataCall EXCEPT ![c].step = "store",
                               ![c].entries = [of |-> q.server, at |-> dataUsers[q.server].at],
                               ![c].known = dataUsers[q.server].known]
    <3>1. PICK entries : entries = [of |-> q.server, at |-> dataUsers[q.server].at]
      OBVIOUS
    <3>2. q.server \in WorldProfile /\ dataUsers[q.server].at \in DataTime /\ dataUsers[q.server].known \in BOOLEAN
      BY <1>t DEF DataTypes, DataWork
    <3>3. entries \in DataContent /\ entries.of = q.server /\ entries.at = dataUsers[q.server].at
      BY <3>1, <3>2 DEF DataContent
    <3>4. PICK new : new = [q EXCEPT !.step = "store", !.entries = entries, !.known = dataUsers[q.server].known]
      OBVIOUS
    <3>5. dataCall' = [dataCall EXCEPT ![c] = new]
      BY <2>1, <2>4, <3>1, <3>4
    <3>6. /\ new \in DataWork /\ new.step = "store" /\ new.server = q.server /\ new.mtime = q.mtime
          /\ new.entries = entries /\ new.answer = q.answer /\ new.alone = q.alone
          /\ new.names = q.names /\ new.data = q.data
      <4>1. "store" \in Data!Step /\ entries \in DataContent \cup {NoThing}
        BY <1>s, <3>3
      <4> QED
        BY <3>2, <3>4, <4>1 DEF DataWork
    <3>8. q.names <= dataUsers[q.server].at
      BY <2>1 DEF DataCall
    <3>9. Data!Current(entries, q.server, q.names)
      BY <3>3, <3>8, <3>2 DEF Data!Current, DataWork, DataTime
    <3>10. DataCall(new)
      BY <2>1, <2>2, <3>3, <3>6, <3>9 DEF DataCall
    <3> QED
      BY <2>1, <2>2, <3>5, <3>6, <3>10, DataGoesOn
  <2> QED
    BY <1>5, <2>1, <2>3, <2>4 DEF Data!Read
\* The call, its new value and the step that it is at.
<1>6. ASSUME NEW c \in Reader, Data!Store(c) PROVE DataInv'
  <2>1. PICK q \in DataWork : q = dataCall[c] /\ DataCall(q)
    BY <1>6, <1>q DEF Data!Store, Data!Calls
  <2>2. q.step = "store" /\ UNCHANGED <<Data!files, dataPlayerCache>>
    BY <1>6, <2>1 DEF Data!Store, Data!Calls
  <2>3. PICK new : new = [q EXCEPT !.step = "find"]
    OBVIOUS
  <2>4. dataCall' = [dataCall EXCEPT ![c] = new]
    BY <1>6, <2>1, <2>3 DEF Data!Store, Data!Goto
  <2>5. /\ new \in DataWork /\ new.step = "find" /\ new.server = q.server /\ new.mtime = q.mtime
        /\ new.entries = q.entries /\ new.answer = q.answer /\ new.alone = q.alone
        /\ new.names = q.names /\ new.data = q.data
    BY <1>s, <2>3, DataGoesTo
  <2>6. dataUsercache' = [mtime |-> q.mtime, entries |-> q.entries, known |-> q.known]
    BY <1>6, <2>1 DEF Data!Store, Data!Timed
  <2>7. q.mtime = [of |-> q.server, at |-> q.names] /\ q.entries \in DataContent
        /\ Data!Current(q.entries, q.server, q.names)
    BY <2>1, <2>2 DEF DataCall
  <2>8. /\ dataUsercache' \in NamesCached
        /\ dataUsercache'.mtime = q.mtime
        /\ dataUsercache'.entries = q.entries
    BY <2>6, <2>7 DEF NamesCached, DataWork
  <2>9. Data!Current(q.entries, q.mtime.of, q.mtime.at)
    BY <2>7 DEF Data!Current
  <2>10. DataCall(new)'
    BY <2>1, <2>2, <2>5, <2>7, <2>8 DEF DataCall, Data!files, Data!Current
  <2>11. q # Data!Idle /\ q.mtime.at <= Data!Now
    BY <1>t, <2>1, <2>2 DEF DataTypes, Data!Idle
  <2>12. \A owner \in [DataTime -> WorldProfile] : DataOwned(owner) => OwnedBy(owner, new.mtime)
    BY <2>1, <2>5, <2>11 DEF DataOwned
  <2> QED
    BY <2>1, <2>2, <2>4, <2>5, <2>8, <2>9, <2>10, <2>11, <2>12, DataMoves1
<1>7. ASSUME NEW c \in Reader, Data!Find(c) PROVE DataInv'
  <2>1. PICK q \in DataWork : q = dataCall[c] /\ DataCall(q)
    BY <1>7, <1>q DEF Data!Find, Data!Calls
  <2>2. q.step = "find" /\ UNCHANGED <<Data!files, Data!caches>>
    BY <1>7, <2>1 DEF Data!Find, Data!Calls
  <2>3. dataUsercache \in NamesCached /\ (q.alone => Data!Current(dataUsercache.entries, q.server, q.names))
    BY <2>1, <2>2 DEF DataCall
  <2> QED
    BY <1>7, <1>r, <2>1, <2>2, <2>3 DEF Data!Find
<1>8. ASSUME NEW c \in Reader, Data!ReadTime(c) PROVE DataInv'
  <2>1. PICK q \in DataWork : q = dataCall[c] /\ DataCall(q)
    BY <1>8, <1>q DEF Data!ReadTime, Data!Calls
  <2>2. q.step = "time" /\ UNCHANGED <<Data!files, dataUsercache, dataPlayerCache>>
    BY <1>8, <2>1 DEF Data!ReadTime, Data!Calls, Data!caches
  <2>3. q.server \in WorldProfile /\ dataDat[q.server] \in Nat /\ dataDat[q.server] <= Data!Now
    BY <1>t DEF DataTypes, DataWork, DataTime
  <2>4. PICK mtime : mtime = [of |-> q.server, at |-> dataDat[q.server]]
    OBVIOUS
  <2>5. mtime \in DataContent /\ mtime.of = q.server /\ mtime.at = dataDat[q.server]
    BY <2>3, <2>4 DEF DataContent, DataTime
  <2>6. PICK new : new = [q EXCEPT !.step = "cached", !.mtime = mtime]
    OBVIOUS
  <2>7. dataCall' = [dataCall EXCEPT ![c] = new]
    BY <1>8, <2>1, <2>4, <2>6 DEF Data!ReadTime
  <2>8. /\ new \in DataWork /\ new.step = "cached" /\ new.server = q.server /\ new.mtime = mtime
        /\ new.entries = q.entries /\ new.answer = q.answer /\ new.alone = q.alone
        /\ new.names = q.names /\ new.data = q.data
    BY <1>s, <2>5, <2>6 DEF DataWork
  <2>9. DataCall(new)'
    <3>1. UNCHANGED <<dataUsers, dataDat>>
      BY <2>2 DEF Data!files
    <3>2. new.mtime.at <= dataDat[q.server]
      BY <2>3, <2>5, <2>8
    <3>3. new.mtime.at # 0 => q.data <= new.mtime.at
      BY <2>1, <2>5, <2>8 DEF DataCall
    <3> QED
      BY <2>1, <2>2, <2>5, <2>8, <3>1, <3>2, <3>3 DEF DataCall, Data!Current
  <2>10. \A owner \in [DataTime -> WorldProfile] : DataOwned(owner) => OwnedBy(owner, new.mtime)
    BY <2>3, <2>5, <2>8 DEF DataOwned, OwnedBy
  <2> QED
    BY <2>1, <2>2, <2>3, <2>5, <2>7, <2>8, <2>9, <2>10, DataMoves1
<1>9. ASSUME NEW c \in Reader, Data!Cached(c) PROVE DataInv'
  <2>1. PICK q \in DataWork : q = dataCall[c] /\ DataCall(q)
    BY <1>9, <1>q DEF Data!Cached, Data!Calls
  <2>2. q.step = "cached" /\ UNCHANGED <<Data!files, Data!caches>>
    BY <1>9, <2>1 DEF Data!Cached, Data!Calls
  <2>3. /\ q.mtime.of = q.server /\ (q.mtime.at # 0 => q.data <= q.mtime.at)
        /\ q.mtime.at \in Nat /\ q.data \in Nat
    BY <2>1, <2>2 DEF DataCall, DataWork, DataContent, DataTime
  <2>4. CASE dataPlayerCache # NoThing /\ dataPlayerCache.mtime.at = q.mtime.at
    <3>1. dataPlayerCache.data \in DataContent /\ dataPlayerCache.data.at \in Nat
      BY <1>t, <2>4 DEF DataTypes, DataContent, DataTime
    <3>2. PICK owner \in [DataTime -> WorldProfile] : DataOwned(owner)
      BY DEF DataInv
    <3>3. OwnedBy(owner, q.mtime) /\ OwnedBy(owner, dataPlayerCache.mtime)
      BY <3>2, <2>1, <2>4, <1>9 DEF DataOwned, Data!Cached, Data!Calls
    <3>4. q.mtime.at # 0 => Data!Current(dataPlayerCache.data, q.server, q.data)
      BY <2>3, <2>4, <3>1, <3>3 DEF OwnedBy, DataInv, Data!CachesAreNotOlder, Data!Current
    <3>5. dataCall' = [dataCall EXCEPT ![c].step = "answer", ![c].answer = dataPlayerCache.data]
      BY <1>9, <2>1, <2>4 DEF Data!Cached, Data!Answer
    <3> QED
      BY <1>a, <1>n, <2>1, <2>2, <3>1, <3>4, <3>5
  <2>5. CASE ~(dataPlayerCache # NoThing /\ dataPlayerCache.mtime.at = q.mtime.at)
    <3>1. PICK new : new = [q EXCEPT !.step = "load"]
      OBVIOUS
    <3>2. dataCall' = [dataCall EXCEPT ![c] = new]
      BY <1>9, <2>1, <2>5, <3>1 DEF Data!Cached, Data!Goto
    <3>3. /\ new \in DataWork /\ new.step = "load" /\ new.server = q.server /\ new.mtime = q.mtime
          /\ new.entries = q.entries /\ new.answer = q.answer /\ new.alone = q.alone
          /\ new.names = q.names /\ new.data = q.data
      BY <1>s, <3>1, DataGoesTo
    <3>4. DataCall(new)
      BY <2>1, <2>2, <3>3 DEF DataCall
    <3> QED
      BY <2>1, <2>2, <3>2, <3>3, <3>4, DataGoesOn
  <2> QED
    BY <2>4, <2>5
<1>10. ASSUME NEW c \in Reader, Data!Load(c) PROVE DataInv'
  <2>1. PICK q \in DataWork : q = dataCall[c] /\ DataCall(q)
    BY <1>10, <1>q DEF Data!Load, Data!Calls
  <2>2. q.step = "load" /\ UNCHANGED <<Data!files, Data!caches>>
    BY <1>10, <2>1 DEF Data!Load, Data!Calls
  <2>3. CASE Data!Answer(c, NoThing)
    BY <1>a, <1>n, <2>1, <2>2, <2>3 DEF Data!Answer
  <2>4. CASE ~Data!Answer(c, NoThing)
    <3>1. PICK reply : reply = [of |-> q.server, at |-> dataDat[q.server]]
      OBVIOUS
    <3>2. q.server \in WorldProfile /\ dataDat[q.server] \in DataTime
      BY <1>t DEF DataTypes, DataWork
    <3>3. reply \in DataContent /\ reply.of = q.server /\ reply.at = dataDat[q.server]
      BY <3>1, <3>2 DEF DataContent
    <3>4. dataDat[q.server] # 0
      BY <1>10, <2>1, <2>4 DEF Data!Load
    <3>5. Data!Current(reply, q.server, q.mtime.at) /\ Data!Current(reply, q.server, q.data)
      BY <2>1, <2>2, <3>2, <3>3, <3>4 DEF DataCall, Data!Current, DataWork, DataContent, DataTime
    <3>6. PICK step \in {"answer", "keep"} : step = IF q.kind = "data" THEN "keep" ELSE "answer"
      OBVIOUS
    <3>7. dataCall' = [dataCall EXCEPT ![c].step = step, ![c].answer = reply]
      BY <1>10, <2>1, <2>4, <3>1, <3>6 DEF Data!Load
    <3> QED
      BY <1>a, <1>n, <2>1, <2>2, <3>3, <3>5, <3>7
  <2> QED
    BY <2>3, <2>4
\* A call that writes the cache of the player and answers.
<1>k. ASSUME NEW c \in Reader, NEW q \in DataWork, q = dataCall[c], DataCall(q), q.step \in {"keep", "drop"},
             Data!Goto(c, "answer"), UNCHANGED <<Data!files, dataUsercache>>,
             \/ dataPlayerCache' = NoThing
             \/ q.step = "keep" /\ dataPlayerCache' = [mtime |-> q.mtime, data |-> q.answer]
      PROVE  DataInv'
  <2>1. PICK new : new = [q EXCEPT !.step = "answer"]
    OBVIOUS
  <2>2. dataCall' = [dataCall EXCEPT ![c] = new]
    BY <1>k, <2>1 DEF Data!Goto
  <2>3. /\ new \in DataWork /\ new.step = "answer" /\ new.server = q.server /\ new.mtime = q.mtime
        /\ new.entries = q.entries /\ new.answer = q.answer /\ new.alone = q.alone
        /\ new.names = q.names /\ new.data = q.data
    BY <1>s, <2>1, DataGoesTo
  <2>4. DataCall(new)'
    <3>1. UNCHANGED <<dataUsers, dataDat>>
      BY <1>k DEF Data!files
    <3> QED
      BY <1>k, <2>3, <3>1 DEF DataCall, Data!Current
  <2>5. q # Data!Idle /\ q.mtime.at <= Data!Now
    BY <1>t, <1>k DEF DataTypes, Data!Idle
  <2>6. \A owner \in [DataTime -> WorldProfile] : DataOwned(owner) => OwnedBy(owner, new.mtime)
    BY <1>k, <2>3, <2>5 DEF DataOwned
  <2>7. \/ dataPlayerCache' = NoThing
        \/ /\ dataPlayerCache' \in [mtime : DataContent, data : DataContent]
           /\ dataPlayerCache'.mtime = q.mtime
           /\ Data!Current(dataPlayerCache'.data, dataPlayerCache'.mtime.of, dataPlayerCache'.mtime.at)
    <3>1. CASE dataPlayerCache' = NoThing
      BY <3>1
    <3>2. CASE q.step = "keep" /\ dataPlayerCache' = [mtime |-> q.mtime, data |-> q.answer]
      <4>1. /\ q.answer \in DataContent /\ Data!Current(q.answer, q.server, q.mtime.at)
            /\ q.mtime.of = q.server
        BY <1>k, <3>2 DEF DataCall
      <4>2. /\ dataPlayerCache' \in [mtime : DataContent, data : DataContent]
            /\ dataPlayerCache'.mtime = q.mtime /\ dataPlayerCache'.data = q.answer
        BY <3>2, <4>1 DEF DataWork
      <4> QED
        BY <4>1, <4>2
    <3> QED
      BY <1>k, <3>1, <3>2
  <2> QED
    BY <1>k, <2>2, <2>3, <2>4, <2>5, <2>6, <2>7, DataMoves1
<1>11. ASSUME NEW c \in Reader, Data!Keep(c) PROVE DataInv'
  <2>1. PICK q \in DataWork : q = dataCall[c] /\ DataCall(q)
    BY <1>11, <1>q DEF Data!Keep, Data!Calls
  <2> QED
    BY <1>11, <1>k, <2>1 DEF Data!Keep, Data!Calls
<1>12. ASSUME NEW c \in Reader, Data!Drop(c) PROVE DataInv'
  <2>1. PICK q \in DataWork : q = dataCall[c] /\ DataCall(q)
    BY <1>12, <1>q DEF Data!Drop, Data!Calls
  <2> QED
    BY <1>12, <1>k, <2>1 DEF Data!Drop, Data!Calls
<1>13. ASSUME NEW c \in Reader, Data!Return(c) PROVE DataInv'
  <2>1. /\ UNCHANGED <<dataUsers, dataDat, dataUsercache, dataPlayerCache, dataProfile, dataWrites>>
        /\ dataCall' = [dataCall EXCEPT ![c] = Data!Idle]
    BY <1>13 DEF Data!Return, Data!files, Data!caches
  <2>2. /\ dataCall' \in [Reader -> DataWork \cup {Data!Idle}]
        /\ \A d \in Reader : dataCall'[d] # Data!Idle => dataCall'[d] = dataCall[d]
    BY <1>t, <2>1 DEF DataTypes
  <2>3. Data!Now' = Data!Now
    BY <2>1 DEF Data!Now
  <2>4. DataTypes'
    BY <1>t, <2>1, <2>2, <2>3 DEF DataTypes
  <2>5. \A d \in Reader : dataCall'[d] # Data!Idle => DataCall(dataCall[d])'
    BY <2>1, <2>2 DEF DataInv, DataCall, Data!Current
  <2>6. DataAlone'
    BY <2>2 DEF DataInv, DataAlone
  <2>7. \E owner \in [DataTime -> WorldProfile] : DataOwned(owner)'
    BY <2>1, <2>2 DEF DataInv, DataOwned, OwnedBy
  <2> QED
    BY <2>1, <2>4, <2>5, <2>6, <2>7 DEF DataInv, Data!CachesAreNotOlder, Data!Current
<1>14. CASE UNCHANGED Data!vars
  <2>1. UNCHANGED <<dataProfile, dataUsers, dataDat, dataUsercache, dataPlayerCache, dataCall, dataWrites>>
    BY <1>14 DEF Data!vars, Data!files, Data!caches
  <2>2. Data!Now' = Data!Now
    BY <2>1 DEF Data!Now
  <2>3. DataTypes'
    BY <1>t, <2>1, <2>2 DEF DataTypes
  <2>4. \A c \in Reader : dataCall'[c] # Data!Idle => DataCall(dataCall[c])'
    BY <2>1 DEF DataInv, DataCall, Data!Current
  <2>5. \E owner \in [DataTime -> WorldProfile] : DataOwned(owner)'
    BY <2>1 DEF DataInv, DataOwned, OwnedBy
  <2> QED
    BY <2>1, <2>3, <2>4, <2>5 DEF DataInv, DataAlone, Data!CachesAreNotOlder, Data!Current
<1> QED
  BY <1>1, <1>2, <1>3, <1>4, <1>5, <1>6, <1>7, <1>8, <1>9, <1>10, <1>11, <1>12, <1>13, <1>14 DEF Data!Next

\* A call that no other overlaps answers with names and data of the active server's files,
\* none older than they were when the call began, whatever was cached before.
THEOREM AnswersAreCurrent == Data!Spec => []Data!LoneAnswerIsCurrent
<1>1. DataInv => Data!LoneAnswerIsCurrent
  BY DEF DataInv, DataCall, Data!LoneAnswerIsCurrent, Data!Calls
<1> QED
  BY <1>1, DataInitially, DataStep, PTL DEF Data!Spec

\* No content is cached under a later time than its own, or another profile's, whatever
\* overlaps, so that the next call finds out what is stale.
THEOREM CachesAreCurrent == Data!Spec => []Data!CachesAreNotOlder
<1>1. DataInv => Data!CachesAreNotOlder
  BY DEF DataInv
<1> QED
  BY <1>1, DataInitially, DataStep, PTL DEF Data!Spec

-----------------------------------------------------------------------------
(***************************************************************************)
(* Pregeneration (Pregeneration). The task asks for the cells of a square  *)
(* in batches, row after row.                                              *)
(***************************************************************************)

LEMMA SquaresGrow ==
  ASSUME NEW a \in Nat, NEW b \in Nat, a <= b
  PROVE  a * a <= b * b
<1>1. PICK d \in Nat : b = a + d
  <2>1. b - a \in Nat /\ b = a + (b - a)
    OBVIOUS
  <2> QED
    BY <2>1
<1>2. b * b = a * a + 2 * (a * d) + d * d
  BY <1>1
<1>3. a * d \in Nat /\ d * d \in Nat /\ a * a \in Nat
  OBVIOUS
<1> QED
  BY <1>2, <1>3

\* The side of the smallest square is there, and the root of its square is the side.
LEMMA SquareHasASide ==
  ASSUME NEW n \in Nat \ {0}
  PROVE  Chunks!CeilSqrt(n) \in 1..n
<1> DEFINE T == {s \in 1..n : s * s >= n}
<1>1. n \in T
  <2>1. n * n >= n
    <3>1. PICK m \in Nat : n = m + 1
      <4>1. n - 1 \in Nat /\ n = (n - 1) + 1
        OBVIOUS
      <4> QED
        BY <4>1
    <3>2. n * n = n + m * n /\ m * n \in Nat
      BY <3>1
    <3> QED
      BY <3>2
  <2> QED
    BY <2>1
<1>2. PICK s \in T : \A t \in T : s <= t
  <2>1. T \in SUBSET Nat /\ T # {}
    <3>1. \A s \in 1..n : s \in Nat
      OBVIOUS
    <3> QED
      BY <1>1, <3>1, Zenon
  <2> HIDE DEF T
  <2> QED
    BY <2>1, NaturalsHaveALeast
<1>3. (s - 1) * (s - 1) < n
  <2>1. CASE s = 1
    BY <2>1
  <2>2. CASE s # 1
    <3>1. s - 1 \in 1..n /\ s - 1 \notin T
      BY <1>2, <2>2
    <3>2. (s - 1) * (s - 1) \in Int
      BY <3>1
    <3> QED
      BY <3>1, <3>2
  <2> QED
    BY <2>1, <2>2
<1>4. \E t \in 1..n : t * t >= n /\ (t - 1) * (t - 1) < n
  BY <1>2, <1>3
<1> QED
  BY <1>4 DEF Chunks!CeilSqrt

LEMMA SidesAreOdd ==
  ASSUME NEW n \in Nat \ {0}
  PROVE  \E h \in Nat : Chunks!SideOf(n) = 2 * h + 1
<1>1. PICK s \in Nat : s = Chunks!CeilSqrt(n)
  BY SquareHasASide
<1>2. s = (2 * (s \div 2)) + (s % 2) /\ s \div 2 \in Nat /\ s % 2 \in {0, 1}
  OBVIOUS
<1>3. Chunks!SideOf(n) = IF s % 2 = 0 THEN s + 1 ELSE s
  BY <1>1 DEF Chunks!SideOf
<1> QED
  BY <1>2, <1>3

LEMMA RootOfASquare ==
  ASSUME NEW s \in Nat
  PROVE  Chunks!FloorSqrt(s * s) = s
<1>1. PICK q \in Nat : q = s * s
  OBVIOUS
<1>2. s \in 0..q
  <2>1. CASE s = 0
    BY <1>1, <2>1
  <2>2. CASE s # 0
    <3>1. PICK m \in Nat : s = m + 1
      <4>1. s - 1 \in Nat /\ s = (s - 1) + 1
        BY <2>2
      <4> QED
        BY <4>1
    <3>2. s * s = s + m * s /\ m * s \in Nat
      BY <3>1
    <3> QED
      BY <1>1, <3>2
  <2> QED
    BY <2>1, <2>2
<1>3. (s + 1) * (s + 1) > q
  <2>1. (s + 1) * (s + 1) = s * s + 2 * s + 1
    OBVIOUS
  <2> QED
    BY <1>1, <2>1
<1>4. ASSUME NEW t \in 0..q, t * t <= q, (t + 1) * (t + 1) > q PROVE t = s
  <2>1. t * t \in Nat /\ s * s \in Nat /\ (t + 1) * (t + 1) \in Nat /\ (s + 1) * (s + 1) \in Nat
    OBVIOUS
  <2>2. CASE t < s
    <3>1. t + 1 \in Nat /\ t + 1 <= s
      BY <2>2
    <3>2. (t + 1) * (t + 1) <= s * s
      BY <3>1, SquaresGrow
    <3> QED
      BY <1>1, <1>4, <2>1, <3>2
  <2>3. CASE s < t
    <3>1. s + 1 \in Nat /\ s + 1 <= t
      BY <2>3
    <3>2. (s + 1) * (s + 1) <= t * t
      BY <3>1, SquaresGrow
    <3> QED
      BY <1>3, <1>4, <2>1, <3>2
  <2> QED
    BY <2>2, <2>3
<1>5. Chunks!FloorSqrt(q) = CHOOSE t \in 0..q : t * t <= q /\ (t + 1) * (t + 1) > q
  BY DEF Chunks!FloorSqrt
<1>6. s * s <= q
  BY <1>1
<1> QED
  BY <1>1, <1>2, <1>3, <1>4, <1>5, <1>6

-----------------------------------------------------------------------------
\* The cells of a square, those before a batch in the order of the task, and the batch.
ChunksCells(h) == ((-h)..h) \X ((-h)..h)
ChunksBefore(h, x, z) == {c \in ChunksCells(h) : c[2] < z \/ (c[2] < z + BATCH /\ c[1] < x)}
ChunksBatch(h, x, z) ==
    (x..Chunks!Least(x + BATCH - 1, h)) \X (z..Chunks!Least(z + BATCH - 1, h))

\* A square has as many cells as its side squared.
LEMMA CellsOfASquare ==
  ASSUME NEW h \in Nat
  PROVE  /\ IsFiniteSet(ChunksCells(h))
         /\ Cardinality(ChunksCells(h)) = (2 * h + 1) * (2 * h + 1)
<1>1. IsFiniteSet((-h)..h) /\ Cardinality((-h)..h) = 2 * h + 1
  <2>1. -h \in Int /\ h \in Int /\ ~(-h > h) /\ h - (-h) + 1 = 2 * h + 1
    OBVIOUS
  <2>2. PICK a \in Int : a = -h
    BY <2>1
  <2>3. IsFiniteSet(a..h) /\ Cardinality(a..h) = IF a > h THEN 0 ELSE h - a + 1
    BY <2>1, FS_Interval
  <2> QED
    BY <2>1, <2>2, <2>3
<1> QED
  BY <1>1, FS_Product DEF ChunksCells

\* A batch holds the next cells: none of those before it, and all before what follows.
LEMMA BatchFollows ==
  ASSUME NEW h \in Nat, NEW x \in (-h)..h, NEW z \in Int, z >= -h, z <= h
  PROVE  /\ ChunksBatch(h, x, z) \subseteq ChunksCells(h)
         /\ ChunksBefore(h, x, z) \cap ChunksBatch(h, x, z) = {}
         /\ x + BATCH <= h => ChunksBefore(h, x, z) \cup ChunksBatch(h, x, z) = ChunksBefore(h, x + BATCH, z)
         /\ x + BATCH > h => ChunksBefore(h, x, z) \cup ChunksBatch(h, x, z) = ChunksBefore(h, -h, z + BATCH)
<1>1. BATCH \in Nat /\ BATCH > 0
  BY BatchesAreSquares
<1>2. ASSUME NEW a \in Int, NEW b \in Int
      PROVE  /\ <<a, b>> \in ChunksCells(h) <=> -h <= a /\ a <= h /\ -h <= b /\ b <= h
             /\ <<a, b>> \in ChunksBatch(h, x, z) <=>
                  x <= a /\ a <= h /\ a < x + BATCH /\ z <= b /\ b <= h /\ b < z + BATCH
             /\ \A u \in Int, v \in Int :
                  <<a, b>> \in ChunksBefore(h, u, v) <=>
                     <<a, b>> \in ChunksCells(h) /\ (b < v \/ (b < v + BATCH /\ a < u))
  BY <1>1 DEF ChunksCells, ChunksBatch, ChunksBefore, Chunks!Least
<1>3. /\ ChunksCells(h) \subseteq Int \X Int
      /\ \A u, v : ChunksBefore(h, u, v) \subseteq ChunksCells(h)
      /\ ChunksBatch(h, x, z) \subseteq Int \X Int
  BY <1>1 DEF ChunksCells, ChunksBatch, ChunksBefore, Chunks!Least
<1>4. ASSUME NEW S \in SUBSET (Int \X Int), NEW T \in SUBSET (Int \X Int),
             \A a \in Int, b \in Int : <<a, b>> \in S <=> <<a, b>> \in T
      PROVE  S = T
  BY <1>4
<1>5. ChunksBatch(h, x, z) \subseteq ChunksCells(h)
  <2>1. \A a \in Int, b \in Int : <<a, b>> \in ChunksBatch(h, x, z) => <<a, b>> \in ChunksCells(h)
    BY <1>2
  <2> QED
    BY <1>3, <2>1
<1>6. ChunksBefore(h, x, z) \cap ChunksBatch(h, x, z) = {}
  <2>1. \A a \in Int, b \in Int : ~(<<a, b>> \in ChunksBatch(h, x, z) /\ <<a, b>> \in ChunksBefore(h, x, z))
    <3> SUFFICES ASSUME NEW a \in Int, NEW b \in Int, <<a, b>> \in ChunksBatch(h, x, z),
                        <<a, b>> \in ChunksBefore(h, x, z)
                 PROVE  FALSE
      OBVIOUS
    <3>1. b < z \/ (b < z + BATCH /\ a < x)
      BY <1>2
    <3>2. x <= a /\ z <= b
      BY <1>2
    <3> QED
      BY <3>1, <3>2
  <2> QED
    BY <1>3, <2>1
<1>7. ASSUME x + BATCH <= h
      PROVE  ChunksBefore(h, x, z) \cup ChunksBatch(h, x, z) = ChunksBefore(h, x + BATCH, z)
  <2>1. \A a \in Int, b \in Int : <<a, b>> \in ChunksBefore(h, x, z) \cup ChunksBatch(h, x, z)
                                    <=> <<a, b>> \in ChunksBefore(h, x + BATCH, z)
    <3> SUFFICES ASSUME NEW a \in Int, NEW b \in Int
                 PROVE  <<a, b>> \in ChunksBefore(h, x, z) \/ <<a, b>> \in ChunksBatch(h, x, z)
                          <=> <<a, b>> \in ChunksBefore(h, x + BATCH, z)
      OBVIOUS
    <3>1. x + BATCH \in Int
      BY <1>1
    <3>2. /\ <<a, b>> \in ChunksBefore(h, x, z) <=>
               <<a, b>> \in ChunksCells(h) /\ (b < z \/ (b < z + BATCH /\ a < x))
          /\ <<a, b>> \in ChunksBefore(h, x + BATCH, z) <=>
               <<a, b>> \in ChunksCells(h) /\ (b < z \/ (b < z + BATCH /\ a < x + BATCH))
      BY <1>2, <3>1
    <3> QED
      BY <1>1, <1>2, <1>7, <3>2
  <2> QED
    BY <1>3, <1>4, <2>1
<1>8. ASSUME x + BATCH > h
      PROVE  ChunksBefore(h, x, z) \cup ChunksBatch(h, x, z) = ChunksBefore(h, -h, z + BATCH)
  <2>1. \A a \in Int, b \in Int : <<a, b>> \in ChunksBefore(h, x, z) \cup ChunksBatch(h, x, z)
                                    <=> <<a, b>> \in ChunksBefore(h, -h, z + BATCH)
    <3> SUFFICES ASSUME NEW a \in Int, NEW b \in Int
                 PROVE  <<a, b>> \in ChunksBefore(h, x, z) \/ <<a, b>> \in ChunksBatch(h, x, z)
                          <=> <<a, b>> \in ChunksBefore(h, -h, z + BATCH)
      OBVIOUS
    <3>1. z + BATCH \in Int /\ -h \in Int
      BY <1>1
    <3>2. /\ <<a, b>> \in ChunksBefore(h, x, z) <=>
               <<a, b>> \in ChunksCells(h) /\ (b < z \/ (b < z + BATCH /\ a < x))
          /\ <<a, b>> \in ChunksBefore(h, -h, z + BATCH) <=>
               <<a, b>> \in ChunksCells(h) /\ (b < z + BATCH \/ (b < z + BATCH + BATCH /\ a < -h))
      BY <1>2, <3>1
    <3> QED
      BY <1>1, <1>2, <1>8, <3>2
  <2> QED
    BY <1>3, <1>4, <2>1
<1> QED
  BY <1>5, <1>6, <1>7, <1>8

\* Before the batch at (x, z) of a square with half h: the cells before it were sent or lost, and
\* counted; those of a batch that is waited for were sent or lost.
ChunksAt(h, x, z) ==
    /\ chunksEnded = "not"
    /\ chunksSide = 2 * h + 1 /\ chunksTotal = chunksSide * chunksSide
    /\ chunksAt = <<x, z>> /\ x \in (-h)..h /\ z >= -h
    /\ chunksStep \in {"check", "write", "sleep"} /\ (chunksStep # "check" => z <= h)
    /\ chunksGenerated \cup chunksLost
         = ChunksBefore(h, x, z) \cup (IF chunksStep = "sleep" THEN ChunksBatch(h, x, z) ELSE {})
    /\ chunksCompleted = Cardinality(ChunksBefore(h, x, z))

\* A running task is at some batch of its square; a complete one has the square.
ChunksInv ==
    /\ chunksRunning => \E h \in Nat, x \in Int, z \in Int : ChunksAt(h, x, z)
    /\ chunksEnded = "complete" => chunksGenerated \cup chunksLost = Chunks!Square /\ chunksCompleted = chunksTotal

LEMMA ChunksHalf ==
  ASSUME NEW h \in Nat, chunksSide = 2 * h + 1
  PROVE  Chunks!Half = h /\ Chunks!Square = ChunksCells(h)
<1>1. Chunks!Half = h
  BY DEF Chunks!Half
<1> QED
  BY <1>1 DEF Chunks!Square, ChunksCells

LEMMA ChunksStart == Chunks!Init => ChunksInv
  BY DEF Chunks!Init, ChunksInv

LEMMA ChunksGo == ChunksInv /\ [Chunks!Next]_Chunks!vars => ChunksInv'
<1> SUFFICES ASSUME ChunksInv, [Chunks!Next]_Chunks!vars PROVE ChunksInv'
  OBVIOUS
\* The cells before and in the batch of a task are finitely many and of its square.
<1>f. ASSUME NEW h \in Nat, NEW x \in Int, NEW z \in Int, ChunksAt(h, x, z)
      PROVE  /\ Chunks!Half = h /\ Chunks!Square = ChunksCells(h)
             /\ chunksAt[1] = x /\ chunksAt[2] = z /\ Chunks!Batch = ChunksBatch(h, x, z)
  <2>1. Chunks!Half = h /\ Chunks!Square = ChunksCells(h)
    BY <1>f, ChunksHalf DEF ChunksAt
  <2>2. chunksAt[1] = x /\ chunksAt[2] = z
    BY <1>f DEF ChunksAt
  <2> QED
    BY <2>1, <2>2 DEF Chunks!Batch, ChunksBatch
\* A task goes on, or is over.
<1>g. ASSUME chunksEnded' # "complete", ~chunksRunning' PROVE ChunksInv'
  BY <1>g DEF ChunksInv
<1>u. ASSUME UNCHANGED <<chunksRunning, chunksTotal, chunksCompleted, chunksSide, chunksAt, chunksStep,
                         chunksGenerated, chunksLost, chunksEnded>>
      PROVE  ChunksInv'
  BY <1>u DEF ChunksInv, ChunksAt, Chunks!Square, Chunks!Half
<1>1. ASSUME NEW n \in 1..MaxChunks, Chunks!Start(n) PROVE ChunksInv'
  <2>n. n \in Nat \ {0}
    BY BatchesAreSquares
  <2>1. PICK h \in Nat : Chunks!SideOf(n) = 2 * h + 1
    BY <2>n, SidesAreOdd
  <2>2. PICK s \in Nat : s = 2 * h + 1
    OBVIOUS
  <2>3. PICK square \in Nat : square = s * s
    OBVIOUS
  <2>4. Chunks!SideOf(n) * Chunks!SideOf(n) = square /\ Chunks!FloorSqrt(square) = s
    BY <2>1, <2>2, <2>3, RootOfASquare
  <2>5. CASE square >= U32
    <3>1. ~chunksRunning /\ chunksEnded' = "panic" /\ UNCHANGED chunksRunning
      BY <1>1, <2>4, <2>5 DEF Chunks!Start
    <3> QED
      BY <1>g, <3>1
  <2>6. CASE ~(square >= U32)
    <3>1. /\ chunksTotal' = square /\ chunksCompleted' = 0 /\ chunksSide' = s
          /\ chunksAt' = <<-(s \div 2), -(s \div 2)>>
          /\ chunksStep' = "check" /\ chunksGenerated' = {} /\ chunksLost' = {} /\ chunksEnded' = "not"
      BY <1>1, <2>4, <2>6 DEF Chunks!Start
    <3>2. s \div 2 = h
      BY <2>2
    <3>3. ChunksBefore(h, -h, -h) = {}
      BY BatchesAreSquares DEF ChunksBefore, ChunksCells
    <3>4. PICK x \in Int : x = -h
      OBVIOUS
    <3>5. ChunksAt(h, x, x)'
      <4>1. chunksStep' = "check" /\ chunksEnded' = "not"
        BY <3>1
      <4>2. x \in (-h)..h /\ x >= -h /\ chunksAt' = <<x, x>>
        BY <3>1, <3>2, <3>4
      <4>3. chunksSide' = 2 * h + 1 /\ chunksTotal' = chunksSide' * chunksSide'
        BY <2>2, <2>3, <3>1
      <4>4. /\ chunksGenerated' \cup chunksLost' = ChunksBefore(h, x, x) \cup {}
            /\ chunksCompleted' = Cardinality(ChunksBefore(h, x, x))
        BY <3>1, <3>3, <3>4, FS_EmptySet
      <4> QED
        BY <4>1, <4>2, <4>3, <4>4 DEF ChunksAt
    <3> QED
      BY <3>1, <3>5 DEF ChunksInv
  <2> QED
    BY <2>5, <2>6
<1>2. CASE Chunks!SendBatch
  <2>1. PICK h \in Nat, x \in Int, z \in Int : ChunksAt(h, x, z)
    BY <1>2 DEF Chunks!SendBatch, ChunksInv
  <2>2. /\ UNCHANGED <<chunksRunning, chunksTotal, chunksCompleted, chunksSide, chunksAt, chunksEnded>>
        /\ chunksStep = "write" /\ chunksStep' = "sleep"
        /\ chunksGenerated' \cup chunksLost' = (chunksGenerated \cup chunksLost) \cup ChunksBatch(h, x, z)
    BY <1>2, <1>f, <2>1 DEF Chunks!SendBatch
  <2>3. ChunksAt(h, x, z)'
    BY <2>1, <2>2 DEF ChunksAt
  <2> QED
    BY <2>1, <2>2, <2>3 DEF ChunksInv, ChunksAt
<1>3. CASE Chunks!CountBatch
  <2>1. PICK h \in Nat, x \in Int, z \in Int : ChunksAt(h, x, z)
    BY <1>3 DEF Chunks!CountBatch, ChunksInv
  <2>2. /\ x \in (-h)..h /\ z >= -h /\ z <= h /\ chunksStep = "sleep" /\ chunksEnded = "not"
        /\ chunksGenerated \cup chunksLost = ChunksBefore(h, x, z) \cup ChunksBatch(h, x, z)
        /\ chunksCompleted = Cardinality(ChunksBefore(h, x, z))
        /\ chunksSide = 2 * h + 1 /\ chunksTotal = chunksSide * chunksSide
    BY <1>3, <2>1 DEF Chunks!CountBatch, ChunksAt
  <2>3. /\ UNCHANGED <<chunksRunning, chunksTotal, chunksSide, chunksGenerated, chunksLost, chunksEnded>>
        /\ chunksStep' = "check"
        /\ chunksAt' = IF x + BATCH <= h THEN <<x + BATCH, z>> ELSE <<-h, z + BATCH>>
        /\ chunksCompleted' = Chunks!Least(chunksCompleted + Cardinality(ChunksBatch(h, x, z)), chunksTotal)
    <3>1. Chunks!Cardinality(Chunks!Batch) = Cardinality(Chunks!Batch)
      BY DEF Chunks!Cardinality, Cardinality
    <3> QED
      BY <1>3, <1>f, <2>1, <3>1 DEF Chunks!CountBatch
  <2>4. PICK u \in Int, v \in Int :
           /\ chunksAt' = <<u, v>> /\ u \in (-h)..h /\ v >= -h
           /\ ChunksBefore(h, u, v) = ChunksBefore(h, x, z) \cup ChunksBatch(h, x, z)
    <3>1. CASE x + BATCH <= h
      <4>1. x + BATCH \in Int /\ x + BATCH \in (-h)..h
        BY <2>2, <3>1, BatchesAreSquares
      <4> QED
        BY <2>2, <2>3, <3>1, <4>1, BatchFollows
    <3>2. CASE x + BATCH > h
      <4>1. z + BATCH \in Int /\ z + BATCH >= -h /\ -h \in Int /\ -h \in (-h)..h /\ ~(x + BATCH <= h)
        BY <2>2, <3>2, BatchesAreSquares
      <4> QED
        BY <2>2, <2>3, <3>2, <4>1, BatchFollows
    <3> QED
      BY <3>1, <3>2, BatchesAreSquares
  <2>5. Cardinality(ChunksBefore(h, u, v)) = chunksCompleted + Cardinality(ChunksBatch(h, x, z))
        /\ Cardinality(ChunksBefore(h, u, v)) <= chunksTotal /\ Cardinality(ChunksBefore(h, u, v)) \in Nat
        /\ chunksTotal \in Nat
    <3>1. /\ ChunksBefore(h, x, z) \subseteq ChunksCells(h) /\ ChunksBefore(h, u, v) \subseteq ChunksCells(h)
          /\ ChunksBatch(h, x, z) \subseteq ChunksCells(h)
          /\ ChunksBefore(h, x, z) \cap ChunksBatch(h, x, z) = {}
      BY <2>2, BatchFollows DEF ChunksBefore
    <3>2. /\ IsFiniteSet(ChunksCells(h)) /\ Cardinality(ChunksCells(h)) = chunksTotal
      BY <2>2, CellsOfASquare
    <3>3. /\ IsFiniteSet(ChunksBefore(h, x, z)) /\ IsFiniteSet(ChunksBefore(h, u, v))
          /\ IsFiniteSet(ChunksBatch(h, x, z))
          /\ Cardinality(ChunksBefore(h, u, v)) <= chunksTotal
      BY <3>1, <3>2, FS_Subset
    <3>4. Cardinality(ChunksBefore(h, u, v))
            = Cardinality(ChunksBefore(h, x, z)) + Cardinality(ChunksBatch(h, x, z)) - Cardinality({})
      BY <2>4, <3>1, <3>3, FS_Union
    <3>5. /\ Cardinality(ChunksBefore(h, x, z)) \in Nat /\ Cardinality(ChunksBatch(h, x, z)) \in Nat
          /\ Cardinality(ChunksBefore(h, u, v)) \in Nat /\ chunksTotal \in Nat /\ Cardinality({}) = 0
      BY <3>2, <3>3, FS_CardinalityType, FS_EmptySet
    <3> QED
      BY <2>2, <3>3, <3>4, <3>5
  <2>6. chunksCompleted' = Cardinality(ChunksBefore(h, u, v))
    BY <2>3, <2>5 DEF Chunks!Least
  <2>7. ChunksAt(h, u, v)'
    BY <2>2, <2>3, <2>4, <2>6 DEF ChunksAt
  <2> QED
    BY <2>2, <2>3, <2>7 DEF ChunksInv
<1>4. CASE Chunks!GiveUp
  BY <1>4, <1>g DEF Chunks!GiveUp, Chunks!End
<1>5. CASE Chunks!Complete
  <2>1. PICK h \in Nat, x \in Int, z \in Int : ChunksAt(h, x, z)
    BY <1>5 DEF Chunks!Complete, ChunksInv
  <2>2. /\ UNCHANGED <<chunksTotal, chunksCompleted, chunksSide, chunksGenerated, chunksLost>> /\ ~chunksRunning' /\ z > h
    BY <1>5, <1>f, <2>1 DEF Chunks!Complete, Chunks!End, Chunks!task
  <2>3. chunksStep = "check"
    BY <2>1, <2>2 DEF ChunksAt
  <2>4. ChunksBefore(h, x, z) = ChunksCells(h)
    BY <2>2 DEF ChunksBefore, ChunksCells
  <2>5. chunksGenerated \cup chunksLost = Chunks!Square /\ chunksCompleted = chunksTotal
    BY <1>f, <2>1, <2>3, <2>4, CellsOfASquare DEF ChunksAt
  <2>6. Chunks!Square' = Chunks!Square
    BY <2>2 DEF Chunks!Square, Chunks!Half
  <2> QED
    BY <2>2, <2>5, <2>6 DEF ChunksInv
<1>6. CASE Chunks!Cancel
  BY <1>6, <1>u DEF Chunks!Cancel, Chunks!task
<1>7. CASE Chunks!Stop
  BY <1>7, <1>u DEF Chunks!Stop, Chunks!task
<1>8. CASE UNCHANGED Chunks!vars
  BY <1>8, <1>u DEF Chunks!vars, Chunks!task
<1>9. CASE Chunks!CheckServer
  <2>1. PICK h \in Nat, x \in Int, z \in Int : ChunksAt(h, x, z)
    BY <1>9 DEF Chunks!CheckServer, ChunksInv
  <2>2. /\ UNCHANGED <<chunksRunning, chunksTotal, chunksCompleted, chunksSide, chunksAt, chunksGenerated,
                       chunksLost, chunksEnded>>
        /\ chunksStep = "check" /\ chunksStep' = "write" /\ z <= h
    BY <1>9, <1>f, <2>1 DEF Chunks!CheckServer
  <2>3. ChunksAt(h, x, z)'
    BY <2>1, <2>2 DEF ChunksAt
  <2> QED
    BY <2>1, <2>2, <2>3 DEF ChunksInv, ChunksAt
<1>10. CASE Chunks!SendFails
  BY <1>10, <1>g DEF Chunks!SendFails
<1> QED
  BY <1>1, <1>2, <1>3, <1>4, <1>5, <1>6, <1>7, <1>8, <1>9, <1>10 DEF Chunks!Next

\* A pregeneration that says it is complete has sent every cell of its square, but for those
\* whose server was gone when they were written, and has counted each once: the square that has
\* the requested number of cells at least (run_pregen).
THEOREM CompleteIsCovered == Chunks!Spec => []Chunks!SquareIsCovered
<1>1. ChunksInv => Chunks!SquareIsCovered
  <2>1. ASSUME NEW h \in Nat, NEW x \in Int, NEW z \in Int, ChunksAt(h, x, z), chunksStep # "sleep"
        PROVE  chunksCompleted = Chunks!Cardinality(chunksGenerated \cup chunksLost)
    <3>1. Chunks!Cardinality(chunksGenerated \cup chunksLost) = Cardinality(chunksGenerated \cup chunksLost)
      BY DEF Chunks!Cardinality, Cardinality
    <3>2. chunksGenerated \cup chunksLost = ChunksBefore(h, x, z)
      BY <2>1 DEF ChunksAt
    <3> QED
      BY <2>1, <3>1, <3>2 DEF ChunksAt
  <2> QED
    BY <2>1 DEF ChunksInv, Chunks!SquareIsCovered
<1> QED
  BY <1>1, ChunksStart, ChunksGo, PTL DEF Chunks!Spec

-----------------------------------------------------------------------------
(***************************************************************************)
(* The repair of a boot that failed (BootRepair).                          *)
(***************************************************************************)

\* No mod was added yet.
NothingAdded == records = {} /\ mods = {} /\ left = {} /\ matched = {}


\* How far a repair is: nothing was attempted; the mod is resolved, downloaded and
\* identified, or looked for; it was added; or the repair has failed.
RepairIsAt ==
    \/ pc \in {"start", "analyze", "verify"} /\ NothingAdded /\ attempted = {}
    \/ pc = "resolve" /\ NothingAdded /\ log \in attempted
    \/ /\ pc = "download" /\ NothingAdded /\ log \in attempted
       /\ \E p \in Project : chosen = {p}
    \/ /\ pc = "identify" /\ records = {} /\ log \in attempted
       /\ \E p \in Project : chosen = {p} /\ mods = {p} /\ left = {}
    \/ /\ pc = "probe" /\ records = {} /\ log \in attempted
       /\ unprobed \subseteq Project /\ mods \ left = matched
       /\ unprobed \cap (matched \cup left) = {} /\ left \cap matched = {}
       /\ matched # {} => \E p \in Project : matched = {p} /\ log \in declares[p]
    \/ /\ pc \in {"start", "analyze", "done"} /\ "Repaired" \in records /\ log \in attempted
       /\ \E p \in Project : mods \ left = {p} /\ log \in declares[p]
    \/ pc = "done" /\ "Repaired" \notin records /\ mods \ left = {}

\* The inductive invariant.
RepairInv == related \subseteq Project /\ RepairIsAt

LEMMA RepairStarts == Init => RepairInv
  BY DEF Init, RepairInv, RepairIsAt, NothingAdded, staged

LEMMA RepairGoes == RepairInv /\ [Next]_vars => RepairInv'
<1> SUFFICES ASSUME RepairInv, [Next]_vars PROVE RepairInv'
  OBVIOUS
<1> USE DEF RepairInv, RepairIsAt
<1>1. CASE Begin
  BY <1>1 DEF Begin, Goto, Return, NothingAdded, staged, world, resolver, search, answer
<1>2. CASE Analyze
  BY <1>2 DEF Analyze, Goto, Return, NothingAdded, staged, world, resolver, search, answer
<1>3. CASE Verify
  BY <1>3 DEF Verify, Goto, Return, NothingAdded, staged, world, resolver, search, answer
<1>4. CASE Resolve
  <2>1. pc = "resolve" /\ NothingAdded /\ log \in attempted
        /\ UNCHANGED <<world, matched, attempted, staged>>
    BY <1>4 DEF Resolve
  <2>2. \A l \in Listings(log) : l[1] \in Project
    BY DEF Listings
  <2>3. ASSUME NEW kind, Unresolved(kind) PROVE RepairInv'
    <3>1. CASE unprobed' = related /\ Goto("probe")
      BY <2>1, <3>1 DEF Goto, NothingAdded, staged, world, answer
    <3>2. CASE Return({"Failed"})
      BY <2>1, <3>2 DEF Return, NothingAdded, staged, world
    <3> QED
      BY <2>3, <3>1, <3>2 DEF Unresolved
  <2>4. ASSUME NEW l \in Listings(log), chosen' = {l[1]}, Goto("download") PROVE RepairInv'
    BY <2>1, <2>2, <2>4 DEF Goto, NothingAdded, staged, world, answer
  <2> QED
    BY <1>4, <2>3, <2>4 DEF Resolve
<1>5. CASE Download
  BY <1>5 DEF Download, CopyFails, Goto, Return, NothingAdded, staged, world, resolver, search, answer
<1>6. CASE Identify
  BY <1>6 DEF Identify, Declared, Discard, Success, Return, staged, world, search
<1>7. CASE Probe
  <2>1. /\ pc = "probe" /\ records = {} /\ log \in attempted
        /\ unprobed \subseteq Project /\ mods \ left = matched
        /\ unprobed \cap (matched \cup left) = {} /\ left \cap matched = {}
        /\ matched # {} => \E p \in Project : matched = {p} /\ log \in declares[p]
        /\ UNCHANGED <<world, attempted>> /\ related \subseteq Project
    BY <1>7 DEF Probe, NothingAdded
  <2>2. PICK p \in unprobed :
            /\ unprobed' = unprobed \ {p}
            /\ \/ UNCHANGED <<matched, staged>> /\ Goto("probe")
               \/ CopyFails(p) /\ UNCHANGED matched /\ Goto("probe")
               \/ ~Declared(p) /\ Discard({p}) /\ UNCHANGED matched /\ Goto("probe")
               \/ /\ Declared(p) /\ matched = {} /\ matched' = {p}
                  /\ mods' = mods \cup {p} /\ UNCHANGED left
                  /\ Goto("probe")
               \/ /\ Declared(p) /\ matched # {} /\ matched' = {}
                  /\ Discard(Matches(p)) /\ Return({"Failed"})
    BY <1>7 DEF Probe
  <2>3. p \in Project /\ p \notin left /\ p \notin matched /\ unprobed' \subseteq Project /\ p \notin unprobed'
    BY <2>1, <2>2
  \* The match stays what it was; what a failed copy or removal left is no candidate any more.
  <2>4. ASSUME UNCHANGED matched, Goto("probe"), mods' \ left' = mods \ left, left' \subseteq left \cup {p}
        PROVE  RepairInv'
    BY <2>1, <2>2, <2>3, <2>4 DEF Goto, world, answer
  <2>5. CASE UNCHANGED <<matched, staged>> /\ Goto("probe")
    BY <2>4, <2>5 DEF staged
  <2>6. CASE CopyFails(p) /\ UNCHANGED matched /\ Goto("probe")
    BY <2>1, <2>3, <2>4, <2>6 DEF CopyFails
  <2>7. CASE ~Declared(p) /\ Discard({p}) /\ UNCHANGED matched /\ Goto("probe")
    BY <2>1, <2>3, <2>4, <2>7 DEF Discard
  <2>8. CASE /\ Declared(p) /\ matched = {} /\ matched' = {p}
             /\ mods' = mods \cup {p} /\ UNCHANGED left
             /\ Goto("probe")
    <3>1. mods' \ left' = matched' /\ left' \cap matched' = {} /\ unprobed' \cap (matched' \cup left') = {}
      BY <2>1, <2>2, <2>3, <2>8
    <3> QED
      BY <3>1, <2>1, <2>3, <2>8 DEF Goto, Declared, world, answer
  <2>9. CASE /\ Declared(p) /\ matched # {} /\ matched' = {}
             /\ Discard(Matches(p)) /\ Return({"Failed"})
    <3>1. mods' \ left' = {}
      BY <2>1, <2>9 DEF Discard, Matches
    <3>2. pc' = "done" /\ "Repaired" \notin records' /\ related' \subseteq Project
      BY <2>1, <2>9 DEF Return, world
    <3> QED
      BY <3>1, <3>2
  <2> QED
    BY <2>2, <2>5, <2>6, <2>7, <2>8, <2>9
<1>8. CASE Probed
  BY <1>8 DEF Probed, Success, Return, NothingAdded, staged, world, search
<1>9. CASE UNCHANGED vars
  BY <1>9 DEF vars, world, resolver, search, answer, NothingAdded, staged
<1> QED
  BY <1>1, <1>2, <1>3, <1>4, <1>5, <1>6, <1>7, <1>8, <1>9 DEF Next

\* A repair adds what it says or nothing: after a success one new file, which declares
\* the missing mod, after a failure none (attempt_boot_repair).
THEOREM RepairAddsWhatItSays == Spec => []RepairIsExact
<1>1. RepairInv => RepairIsExact
  BY DEF RepairInv, RepairIsAt, RepairIsExact, NothingAdded, staged
<1> QED
  BY <1>1, RepairStarts, RepairGoes, PTL DEF Spec

-----------------------------------------------------------------------------
(***************************************************************************)
(* The tasks, together (MCServices).                                       *)
(***************************************************************************)

\* Each of them goes on in MCServices as it would alone.
LEMMA Parts ==
    MCSpec =>
        /\ Remedy!Spec /\ Tunnel!Spec /\ Players!Spec /\ Monitor!Spec /\ Beat!Spec /\ Data!Spec
        /\ Chunks!Spec
<1>0. MCInit =>
        /\ Remedy!Init /\ Tunnel!Init /\ Players!Init /\ Monitor!Init /\ Beat!Init /\ Data!Init
        /\ Chunks!Init
  BY DEF MCInit
\* A step moves the machine or leaves it alone.
<1>n. [MCNext]_servicesVars =>
        /\ RemedyMoves \/ UNCHANGED remedyVars
        /\ TunnelMoves \/ UNCHANGED remoteVars
        /\ PlayersMoves \/ UNCHANGED playersVars
        /\ MonitorMoves \/ UNCHANGED monitorVars
        /\ BeatMoves \/ UNCHANGED beatVars
        /\ DataMoves \/ UNCHANGED dataVars
        /\ ChunksMoves \/ UNCHANGED chunksVars
  BY DEF MCNext, servicesVars,
      JavaMoves, BackupMoves, SavedMoves, PropertiesMoves, RemedyMoves, TunnelMoves,
      ServerMoves, ModpackMoves, SideMoves, TerrariaMoves, PlayersMoves, NodeMoves,
      MonitorMoves, BeatMoves, DataMoves, StoredMoves, ChunksMoves
<1>1. [MCNext]_servicesVars => [Remedy!Next]_Remedy!vars
  BY <1>n DEF RemedyMoves, remedyVars, Remedy!vars, Remedy!counters
<1>2. [MCNext]_servicesVars => [Tunnel!Next]_Tunnel!vars
  BY <1>n DEF TunnelMoves, remoteVars, Tunnel!vars
<1>3. [MCNext]_servicesVars => [Players!Next]_Players!vars
  BY <1>n DEF PlayersMoves, playersVars, Players!vars, Players!tables
<1>4. [MCNext]_servicesVars => [Monitor!Next]_Monitor!vars
  BY <1>n DEF MonitorMoves, monitorVars, Monitor!vars, Monitor!tasks
<1>5. [MCNext]_servicesVars => [Beat!Next]_Beat!vars
  BY <1>n DEF BeatMoves, beatVars, Beat!vars, Beat!world, Beat!loop, Beat!history
<1>6. [MCNext]_servicesVars => [Data!Next]_Data!vars
  BY <1>n DEF DataMoves, dataVars, Data!vars, Data!files, Data!caches
<1>7. [MCNext]_servicesVars => [Chunks!Next]_Chunks!vars
  BY <1>n DEF ChunksMoves, chunksVars, Chunks!vars, Chunks!world, Chunks!task
<1> QED
       BY <1>0, <1>1, <1>2, <1>3, <1>4, <1>5, <1>6, <1>7, PTL
     DEF MCSpec,
         Remedy!Spec, Tunnel!Spec, Players!Spec, Monitor!Spec, Beat!Spec, Data!Spec,
         Chunks!Spec

\* Nothing is done twice or missed.
THEOREM NothingTwiceOrMissed == MCSpec => []NothingIsTwiceOrMissed
  BY Parts, NoJavaTwice, PortHasOneTunnel, PlayedTimeIsOfSessions, CompleteIsCovered,
     OneTaskSamples, OneTaskAsks, PlayersShownAreCounted, DashboardHasTheStatus, AnswersAreCurrent, CachesAreCurrent, PTL
     DEF NothingIsTwiceOrMissed
=============================================================================
