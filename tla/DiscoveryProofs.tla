--------------------------- MODULE DiscoveryProofs ---------------------------
(***************************************************************************)
(* For reports of any length from any number of masters, discovery reports *)
(* what the lines of each report say, once per pool, and misses no master. *)
(*                                                                         *)
(* The parser is a loop, so what it has made of the lines read so far is   *)
(* an invariant of the loop, stated with Says and Declared, which read     *)
(* nothing in order; the lemmas of the first part say what one more line   *)
(* adds to them.  The pass is a loop over masters and pools around it.     *)
(***************************************************************************)
EXTENDS Discovery, WellFoundedInduction, TLAPS

-----------------------------------------------------------------------------
(* What one more line adds to what a report says *)

LEMMA LineKinds ==
    ASSUME NEW l \in Line
    PROVE  \/ l.kind = "header" /\ l.section \in Pools \cup {"global"}
           \/ l.kind = "setting" /\ l.key \in Keys /\ l.val \in Values
           \/ l.kind = "neither"
BY DEF Line, Header, Setting, Neither

LEMMA Appended ==
    ASSUME NEW L \in Seq(Line), NEW l \in Line
    PROVE  /\ Append(L, l) \in Seq(Line)
           /\ DOMAIN Append(L, l) = 1 .. Len(L) + 1 /\ DOMAIN L = 1 .. Len(L)
           /\ Len(Append(L, l)) = Len(L) + 1 /\ Len(L) \in Nat
           /\ \A i \in 1 .. Len(L) : Append(L, l)[i] = L[i]
           /\ Append(L, l)[Len(L) + 1] = l
OBVIOUS

\* Among finitely many lines there is a last one.
LEMMA LatestIn ==
    ASSUME NEW n \in Nat, NEW S \in SUBSET (1 .. n), S # {}
    PROVE  Latest(S) \in S /\ \A j \in S : j <= Latest(S)
<1> DEFINE B == {m \in Nat : \A j \in S : j <= m}
<1>1. n \in B
  OBVIOUS
<1>2. PICK m \in B : \A k \in B : ~(<<k, m>> \in OpToRel(<, Nat))
  <2>1. B \subseteq Nat /\ B # {}
    BY <1>1
  <2> HIDE DEF B
  <2> QED BY <2>1, NatLessThanWellFounded, WFMin
<1>3. m \in Nat /\ \A j \in S : j <= m
  OBVIOUS
<1>4. \A k \in B : ~(k < m)
  BY <1>2 DEF OpToRel
<1>5. m \in S
  <2> SUFFICES ASSUME m \notin S PROVE FALSE
    OBVIOUS
  <2>1. m # 0
    <3>1. PICK j \in S : j \in 1 .. n
      OBVIOUS
    <3> QED BY <1>3, <3>1
  <2>2. \A j \in S : j <= m - 1
    BY <1>3
  <2> QED BY <1>3, <1>4, <2>1, <2>2
<1> HIDE DEF B
<1> QED BY <1>3, <1>5 DEF Latest

\* The greatest of some numbers is the one that was added last.
LEMMA LatestIs ==
    ASSUME NEW n \in Nat, NEW S \in SUBSET (1 .. n)
    PROVE  Latest(S \cup {n + 1}) = n + 1
<1> DEFINE T == S \cup {n + 1}
<1>1. n + 1 \in T /\ \A j \in T : j <= n + 1
  OBVIOUS
<1>2. \A i \in T : (\A j \in T : j <= i) => i = n + 1
  OBVIOUS
<1> HIDE DEF T
<1>3. Latest(T) = n + 1
  BY <1>1, <1>2 DEF Latest
<1> QED BY <1>3 DEF T

LEMMA HeadersAppended ==
    ASSUME NEW L \in Seq(Line), NEW l \in Line
    PROVE  /\ Headers(L) \subseteq 1 .. Len(L)
           /\ l.kind # "header" => Headers(Append(L, l)) = Headers(L)
           /\ l.kind = "header" => Headers(Append(L, l)) = Headers(L) \cup {Len(L) + 1}
<1> DEFINE M == Append(L, l)
           n == Len(L)
<1>1. /\ DOMAIN M = 1 .. n + 1 /\ DOMAIN L = 1 .. n /\ n \in Nat
      /\ \A i \in 1 .. n : M[i] = L[i]
      /\ M[n + 1] = l
  BY Appended
<1> HIDE DEF M, n
<1>2. 1 .. n + 1 = (1 .. n) \cup {n + 1}
  BY <1>1
<1>3. /\ Headers(L) \subseteq 1 .. n
      /\ l.kind # "header" => Headers(M) = Headers(L)
      /\ l.kind = "header" => Headers(M) = Headers(L) \cup {n + 1}
  BY <1>1, <1>2 DEF Headers
<1> QED BY <1>3 DEF M, n

\* A line stands where it stood, and the one after the last in the section the
\* last one opens, if it opens one.
LEMMA SectionAppended ==
    ASSUME NEW L \in Seq(Line), NEW l \in Line
    PROVE  /\ \A i \in 1 .. Len(L) + 1 : SectionAt(Append(L, l), i) = SectionAt(L, i)
           /\ l.kind # "header" =>
                 SectionAt(Append(L, l), Len(L) + 2) = SectionAt(L, Len(L) + 1)
           /\ l.kind = "header" => SectionAt(Append(L, l), Len(L) + 2) = l.section
<1> DEFINE M == Append(L, l)
           n == Len(L)
           Above(lines, i) == {h \in Headers(lines) : h < i}
<1>1. /\ DOMAIN M = 1 .. n + 1 /\ DOMAIN L = 1 .. n /\ n \in Nat
      /\ \A i \in 1 .. n : M[i] = L[i]
      /\ M[n + 1] = l
  BY Appended
<1>2. /\ Headers(L) \subseteq 1 .. n
      /\ l.kind # "header" => Headers(M) = Headers(L)
      /\ l.kind = "header" => Headers(M) = Headers(L) \cup {n + 1}
  BY HeadersAppended
<1> HIDE DEF M, n
<1>3. \A i \in 1 .. n + 1 : Above(M, i) = Above(L, i)
  BY <1>1, <1>2
<1>4. Above(L, n + 1) = Headers(L)
  BY <1>1, <1>2
<1>5. Above(M, n + 2) = Headers(M)
  BY <1>1, <1>2
<1>6. \A i \in 1 .. n + 1 : SectionAt(M, i) = SectionAt(L, i)
  <2> TAKE i \in 1 .. n + 1
  <2>1. CASE Above(L, i) = {}
    BY <1>3, <2>1 DEF SectionAt
  <2>2. CASE Above(L, i) # {}
    <3>1. SectionAt(M, i) = M[Latest(Above(L, i))].section
      BY <1>3, <2>2 DEF SectionAt
    <3>2. SectionAt(L, i) = L[Latest(Above(L, i))].section
      BY <2>2 DEF SectionAt
    <3>3. Latest(Above(L, i)) \in Above(L, i)
      BY <1>1, <1>2, <2>2, LatestIn
    <3> QED BY <1>1, <1>2, <3>1, <3>2, <3>3
  <2> QED BY <2>1, <2>2
<1>7. l.kind # "header" => SectionAt(M, n + 2) = SectionAt(L, n + 1)
  <2> SUFFICES ASSUME l.kind # "header" PROVE SectionAt(M, n + 2) = SectionAt(L, n + 1)
    OBVIOUS
  <2>1. Above(M, n + 2) = Above(L, n + 1)
    BY <1>2, <1>4, <1>5
  <2>2. CASE Above(L, n + 1) = {}
    BY <2>1, <2>2 DEF SectionAt
  <2>3. CASE Above(L, n + 1) # {}
    <3>1. SectionAt(M, n + 2) = M[Latest(Above(L, n + 1))].section
      BY <2>1, <2>3 DEF SectionAt
    <3>2. SectionAt(L, n + 1) = L[Latest(Above(L, n + 1))].section
      BY <2>3 DEF SectionAt
    <3>3. Latest(Above(L, n + 1)) \in Above(L, n + 1)
      BY <1>1, <1>2, <2>3, LatestIn
    <3> QED BY <1>1, <1>2, <3>1, <3>2, <3>3
  <2> QED BY <2>2, <2>3
<1>8. l.kind = "header" => SectionAt(M, n + 2) = l.section
  <2> SUFFICES ASSUME l.kind = "header" PROVE SectionAt(M, n + 2) = l.section
    OBVIOUS
  <2>1. Above(M, n + 2) = Headers(L) \cup {n + 1}
    BY <1>2, <1>5
  <2>2. Latest(Above(M, n + 2)) = n + 1
    BY <1>1, <1>2, <2>1, LatestIs
  <2>3. SectionAt(M, n + 2) = M[Latest(Above(M, n + 2))].section
    BY <2>1 DEF SectionAt
  <2> QED BY <1>1, <2>2, <2>3
<1> QED BY <1>6, <1>7, <1>8 DEF M, n

\* Says is "" for a section without the setting, and the last line's word if the
\* last line has it.
LEMMA SaysAppended ==
    ASSUME NEW L \in Seq(Line), NEW l \in Line, NEW s, NEW k
    PROVE  /\ (l.kind = "setting" /\ l.key = k /\ SectionAt(L, Len(L) + 1) = s) =>
                 Says(Append(L, l), s, k) = valueOf(l.val)
           /\ ~(l.kind = "setting" /\ l.key = k /\ SectionAt(L, Len(L) + 1) = s) =>
                 Says(Append(L, l), s, k) = Says(L, s, k)
<1> DEFINE M == Append(L, l)
           n == Len(L)
           Hit == l.kind = "setting" /\ l.key = k /\ SectionAt(L, n + 1) = s
<1>1. /\ DOMAIN M = 1 .. n + 1 /\ DOMAIN L = 1 .. n /\ n \in Nat
      /\ \A i \in 1 .. n : M[i] = L[i]
      /\ M[n + 1] = l
  BY Appended
<1>2. \A i \in 1 .. n + 1 : SectionAt(M, i) = SectionAt(L, i)
  BY SectionAppended
<1> HIDE DEF M, n
<1>3. 1 .. n + 1 = (1 .. n) \cup {n + 1}
  BY <1>1
<1>4. Sets(L, s, k) \subseteq 1 .. n
  BY <1>1 DEF Sets
<1>5. CASE Hit
  <2>1. Sets(M, s, k) = Sets(L, s, k) \cup {n + 1}
    BY <1>1, <1>2, <1>3, <1>5 DEF Sets
  <2>2. Latest(Sets(M, s, k)) = n + 1
    BY <1>1, <1>4, <2>1, LatestIs
  <2>3. Says(M, s, k) = valueOf(M[Latest(Sets(M, s, k))].val)
    BY <2>1 DEF Says
  <2> QED BY <1>1, <1>5, <2>2, <2>3 DEF M, n
<1>6. CASE ~Hit
  <2>1. Sets(M, s, k) = Sets(L, s, k)
    BY <1>1, <1>2, <1>3, <1>6 DEF Sets
  <2>2. CASE Sets(L, s, k) = {}
    BY <1>6, <2>1, <2>2 DEF Says, M, n
  <2>3. CASE Sets(L, s, k) # {}
    <3>1. Latest(Sets(L, s, k)) \in 1 .. n
      BY <1>1, <1>4, <2>3, LatestIn
    <3>2. Says(M, s, k) = valueOf(M[Latest(Sets(L, s, k))].val)
      BY <2>1, <2>3 DEF Says
    <3>3. Says(L, s, k) = valueOf(L[Latest(Sets(L, s, k))].val)
      BY <2>3 DEF Says
    <3>4. Says(M, s, k) = Says(L, s, k)
      BY <1>1, <3>1, <3>2, <3>3
    <3> QED BY <1>6, <3>4 DEF M, n
  <2> QED BY <2>2, <2>3
<1> QED BY <1>5, <1>6 DEF n

LEMMA DeclaredAppended ==
    ASSUME NEW L \in Seq(Line), NEW l \in Line
    PROVE  /\ l.kind # "header" => Declared(Append(L, l)) = Declared(L)
           /\ l.kind = "header" =>
                 Declared(Append(L, l)) = Declared(L) \cup ({l.section} \ {"global"})
<1> DEFINE M == Append(L, l)
           n == Len(L)
<1>1. /\ n \in Nat /\ M[n + 1] = l
      /\ \A i \in 1 .. n : M[i] = L[i]
  BY Appended
<1>2. /\ Headers(L) \subseteq 1 .. n
      /\ l.kind # "header" => Headers(M) = Headers(L)
      /\ l.kind = "header" => Headers(M) = Headers(L) \cup {n + 1}
  BY HeadersAppended
<1> HIDE DEF M, n
<1>3. \A h \in Headers(L) : M[h] = L[h]
  BY <1>1, <1>2
<1>4. l.kind # "header" => Declared(M) = Declared(L)
  BY <1>2, <1>3 DEF Declared
<1>5. l.kind = "header" => Declared(M) = Declared(L) \cup ({l.section} \ {"global"})
  BY <1>1, <1>2, <1>3 DEF Declared
<1> QED BY <1>4, <1>5 DEF M

-----------------------------------------------------------------------------
(* The parser *)

\* st is what the lines of L say, and the section the next line stands in.
Understood(L, st) ==
    /\ st \in Config
    /\ st.section = SectionAt(L, Len(L) + 1)
    /\ st.section # "global" => st.section \in Declared(L)
    /\ \A k \in Keys : st.global[k] = Says(L, "global", k)
    /\ \A s \in Pools \ Declared(L) :
          st.pools[s] = NoPool /\ \A k \in Keys : Says(L, s, k) = ""
    /\ \A s \in Pools \cap Declared(L) :
          st.pools[s] # NoPool /\ \A k \in Keys : st.pools[s][k] = Says(L, s, k)

LEMMA ValueType == ASSUME NEW v \in Values PROVE valueOf(v) \in Values
BY ReportAssumption DEF valueOf

LEMMA UnsetType == Unset \in [Keys -> Values] /\ \A k \in Keys : Unset[k] = ""
BY ReportAssumption DEF Unset

LEMMA NothingUnderstood == Understood(<<>>, nothingRead)
<1>1. Headers(<<>>) = {} /\ Declared(<<>>) = {}
  BY DEF Headers, Declared
<1>2. SectionAt(<<>>, Len(<<>>) + 1) = "global"
  BY <1>1 DEF SectionAt
<1>3. \A s, k : Says(<<>>, s, k) = ""
  BY DEF Says, Sets
<1>4. /\ nothingRead \in Config /\ nothingRead.section = "global"
      /\ nothingRead.global = Unset /\ \A s \in Pools : nothingRead.pools[s] = NoPool
  BY UnsetType DEF nothingRead, Config
<1> HIDE DEF nothingRead
<1> QED BY <1>1, <1>2, <1>3, <1>4, UnsetType DEF Understood

\* One more line, whatever it is and wherever it stands.
LEMMA ReadLineRight ==
    ASSUME NEW L \in Seq(Line), NEW l \in Line, NEW st, Understood(L, st)
    PROVE  Understood(Append(L, l), readLine(st, l))
<1> DEFINE M == Append(L, l)
           new == readLine(st, l)
<1>0. /\ st \in Config /\ st.section \in Pools \cup {"global"}
      /\ st.global \in [Keys -> Values]
      /\ st.pools \in [Pools -> [Keys -> Values] \cup {NoPool}]
  BY DEF Understood, Config
<1>a. st.section # "global" => st.section \in Declared(L)
  BY DEF Understood
<1>b. \A k \in Keys : st.global[k] = Says(L, "global", k)
  BY DEF Understood
<1>c. \A s \in Pools \ Declared(L) :
        st.pools[s] = NoPool /\ \A k \in Keys : Says(L, s, k) = ""
  BY DEF Understood
<1>d. \A s \in Pools \cap Declared(L) :
        st.pools[s] # NoPool /\ \A k \in Keys : st.pools[s][k] = Says(L, s, k)
  BY DEF Understood
<1>1. Len(M) + 1 = Len(L) + 2 /\ st.section = SectionAt(L, Len(L) + 1)
  <2>1. Len(M) + 1 = Len(L) + 2
    BY Appended
  <2> QED BY <2>1, Zenon DEF Understood
<1>2. ASSUME NEW s, NEW k
      PROVE  /\ (l.kind = "setting" /\ l.key = k /\ st.section = s) =>
                   Says(M, s, k) = valueOf(l.val)
             /\ ~(l.kind = "setting" /\ l.key = k /\ st.section = s) =>
                   Says(M, s, k) = Says(L, s, k)
  <2>1. /\ (l.kind = "setting" /\ l.key = k /\ SectionAt(L, Len(L) + 1) = s) =>
              Says(M, s, k) = valueOf(l.val)
        /\ ~(l.kind = "setting" /\ l.key = k /\ SectionAt(L, Len(L) + 1) = s) =>
              Says(M, s, k) = Says(L, s, k)
    BY SaysAppended
  <2> QED BY <1>1, <2>1
<1>3. /\ l.kind # "header" => Declared(M) = Declared(L)
      /\ l.kind = "header" => Declared(M) = Declared(L) \cup ({l.section} \ {"global"})
  BY DeclaredAppended
<1>4. /\ l.kind # "header" => SectionAt(M, Len(M) + 1) = st.section
      /\ l.kind = "header" => SectionAt(M, Len(M) + 1) = l.section
  BY <1>1, SectionAppended
<1> HIDE DEF M, new
\* A line that sets nothing changes nothing that is said.
<1>5. ASSUME l.kind # "setting", NEW s, NEW k PROVE Says(M, s, k) = Says(L, s, k)
  BY <1>2, <1>5
<1>6. CASE l.kind = "neither"
  <2>1. new = st
    BY <1>6 DEF readLine, new
  <2>2. Declared(M) = Declared(L) /\ new.section = SectionAt(M, Len(M) + 1)
    BY <1>3, <1>4, <1>6, <2>1
  <2>3. l.kind # "setting"
    BY <1>6
  <2>4. \A s, k : Says(M, s, k) = Says(L, s, k)
    BY <1>5, <2>3, Zenon
  <2>5. \A s \in Pools \ Declared(M) :
          st.pools[s] = NoPool /\ \A k \in Keys : Says(M, s, k) = ""
    BY <1>c, <2>2, <2>4, Zenon
  <2>6. \A s \in Pools \cap Declared(M) :
          st.pools[s] # NoPool /\ \A k \in Keys : st.pools[s][k] = Says(M, s, k)
    BY <1>d, <2>2, <2>4, Zenon
  <2>7. \A k \in Keys : st.global[k] = Says(M, "global", k)
    BY <1>b, <2>4, Zenon
  <2>8. st.section # "global" => st.section \in Declared(M)
    BY <1>a, <2>2, Zenon
  <2>9. Understood(M, st)
    BY <1>0, <2>1, <2>2, <2>5, <2>6, <2>7, <2>8, Zenon DEF Understood
  <2> QED BY <2>1, <2>9 DEF M, new
<1>7. CASE l.kind = "header" /\ l.section = "global"
  <2>1. new = [st EXCEPT !.section = "global"]
    BY <1>7 DEF readLine, new
  <2>2. /\ new \in Config /\ new.section = "global"
        /\ new.global = st.global /\ new.pools = st.pools
    BY <1>0, <2>1 DEF Config
  <2>3. Declared(M) = Declared(L) /\ new.section = SectionAt(M, Len(M) + 1)
    BY <1>3, <1>4, <1>7, <2>2
  <2>4. l.kind # "setting"
    BY <1>7
  <2>5. \A s, k : Says(M, s, k) = Says(L, s, k)
    BY <1>5, <2>4, Zenon
  <2>6. ASSUME NEW s \in Pools \ Declared(M)
        PROVE  new.pools[s] = NoPool /\ \A k \in Keys : Says(M, s, k) = ""
    <3>1. s \in Pools \ Declared(L) /\ new.pools[s] = st.pools[s]
      BY <2>2, <2>3
    <3> QED BY <1>c, <2>5, <3>1, Zenon
  <2>7. ASSUME NEW s \in Pools \cap Declared(M)
        PROVE  new.pools[s] # NoPool /\ \A k \in Keys : new.pools[s][k] = Says(M, s, k)
    <3>1. s \in Pools \cap Declared(L) /\ new.pools[s] = st.pools[s]
      BY <2>2, <2>3
    <3> QED BY <1>d, <2>5, <3>1, Zenon
  <2>8. \A k \in Keys : new.global[k] = Says(M, "global", k)
    BY <1>b, <2>2, <2>5, Zenon
  <2>9. Understood(M, new)
    BY <2>2, <2>3, <2>6, <2>7, <2>8, Zenon DEF Understood
  <2> QED BY <2>9 DEF M, new
<1>8. CASE l.kind = "header" /\ l.section # "global"
  <2> DEFINE z == l.section
             opened == openPool(st.pools, z)
  <2>0. z \in Pools /\ l.kind # "setting"
    BY <1>8, LineKinds
  <2>1. new = [st EXCEPT !.section = z, !.pools = opened]
    BY <1>8 DEF readLine, new
  <2>2. /\ opened \in [Pools -> [Keys -> Values] \cup {NoPool}]
        /\ \A s \in Pools : s # z => opened[s] = st.pools[s]
        /\ st.pools[z] = NoPool => opened[z] = Unset
        /\ st.pools[z] # NoPool => opened[z] = st.pools[z]
    BY <1>0, <2>0, UnsetType DEF openPool
  <2> HIDE DEF opened
  <2>3. /\ new \in Config /\ new.section = z
        /\ new.global = st.global /\ new.pools = opened
    BY <1>0, <2>0, <2>1, <2>2 DEF Config
  <2> HIDE DEF z
  <2>4. Declared(M) = Declared(L) \cup {z} /\ new.section = SectionAt(M, Len(M) + 1)
    BY <1>3, <1>4, <1>8, <2>3 DEF z
  <2>5. Unset # NoPool
    BY UnsetType, ReportAssumption
  <2>6. opened[z] # NoPool /\ \A k \in Keys : opened[z][k] = Says(L, z, k)
    <3>1. CASE z \in Declared(L)
      <4>1. st.pools[z] # NoPool /\ \A k \in Keys : st.pools[z][k] = Says(L, z, k)
        BY <1>d, <2>0, <3>1
      <4> QED BY <2>2, <4>1
    <3>2. CASE z \notin Declared(L)
      <4>1. st.pools[z] = NoPool /\ \A k \in Keys : Says(L, z, k) = ""
        BY <1>c, <2>0, <3>2
      <4> QED BY <2>2, <2>5, <4>1, UnsetType
    <3> QED BY <3>1, <3>2
  <2>7. ASSUME NEW s \in Pools \cap Declared(M)
        PROVE  opened[s] # NoPool /\ \A k \in Keys : opened[s][k] = Says(M, s, k)
    <3>1. CASE s = z
      BY <1>5, <2>0, <2>6, <3>1, Zenon
    <3>2. CASE s # z
      <4>1. s \in Pools \cap Declared(L) /\ opened[s] = st.pools[s]
        BY <2>2, <2>4, <3>2
      <4> QED BY <1>d, <1>5, <2>0, <4>1, Zenon
    <3> QED BY <3>1, <3>2
  <2>8. ASSUME NEW s \in Pools \ Declared(M)
        PROVE  opened[s] = NoPool /\ \A k \in Keys : Says(M, s, k) = ""
    <3>1. s \in Pools \ Declared(L) /\ opened[s] = st.pools[s]
      BY <2>2, <2>4
    <3> QED BY <1>c, <1>5, <2>0, <3>1, Zenon
  <2>9. \A k \in Keys : st.global[k] = Says(M, "global", k)
    BY <1>b, <1>5, <2>0, Zenon
  <2>10. new.section \in Declared(M)
    BY <2>3, <2>4
  <2>11. Understood(M, new)
    BY <2>3, <2>4, <2>7, <2>8, <2>9, <2>10, Zenon DEF Understood
  <2> QED BY <2>11 DEF M, new
<1>9. CASE l.kind = "setting" /\ st.section = "global"
  <2> DEFINE v == valueOf(l.val)
  <2>0. l.key \in Keys /\ v \in Values
    BY <1>9, LineKinds, ValueType
  <2> HIDE DEF v
  <2>1. new = [st EXCEPT !.global[l.key] = v]
    BY <1>9 DEF readLine, new, v
  <2>2. /\ new \in Config /\ new.section = st.section /\ new.pools = st.pools
        /\ new.global = [st.global EXCEPT ![l.key] = v]
    BY <1>0, <2>0, <2>1 DEF Config
  <2>3. Declared(M) = Declared(L) /\ new.section = SectionAt(M, Len(M) + 1)
    BY <1>3, <1>4, <1>9, <2>2
  <2>4. ASSUME NEW s \in Pools, NEW k PROVE Says(M, s, k) = Says(L, s, k)
    <3>1. s # st.section
      BY <1>9, ReportAssumption
    <3> QED BY <1>2, <3>1, Zenon
  <2>5. ASSUME NEW k \in Keys PROVE new.global[k] = Says(M, "global", k)
    <3>1. CASE k = l.key
      <4>1. Says(M, "global", k) = v
        BY <1>2, <1>9, <3>1, Zenon DEF v
      <4> QED BY <1>0, <2>2, <3>1, <4>1
    <3>2. CASE k # l.key
      <4>1. Says(M, "global", k) = Says(L, "global", k)
        BY <1>2, <3>2, Zenon
      <4>2. new.global[k] = st.global[k]
        BY <1>0, <2>2, <3>2
      <4> QED BY <1>b, <4>1, <4>2, Zenon
    <3> QED BY <3>1, <3>2
  <2>6. ASSUME NEW s \in Pools \ Declared(M)
        PROVE  new.pools[s] = NoPool /\ \A k \in Keys : Says(M, s, k) = ""
    <3>1. s \in Pools \ Declared(L) /\ new.pools[s] = st.pools[s]
      BY <2>2, <2>3
    <3> QED BY <1>c, <2>4, <3>1, Zenon
  <2>7. ASSUME NEW s \in Pools \cap Declared(M)
        PROVE  new.pools[s] # NoPool /\ \A k \in Keys : new.pools[s][k] = Says(M, s, k)
    <3>1. s \in Pools \cap Declared(L) /\ new.pools[s] = st.pools[s]
      BY <2>2, <2>3
    <3> QED BY <1>d, <2>4, <3>1, Zenon
  <2>8. new.section = "global" /\ \A k \in Keys : new.global[k] = Says(M, "global", k)
    BY <1>9, <2>2, <2>5, Zenon
  <2>9. Understood(M, new)
    BY <2>2, <2>3, <2>6, <2>7, <2>8, Zenon DEF Understood
  <2> QED BY <2>9 DEF M, new
<1>10. CASE l.kind = "setting" /\ st.section # "global"
  <2> DEFINE v == valueOf(l.val)
             z == st.section
  <2>0. /\ l.key \in Keys /\ v \in Values /\ z \in Pools \cap Declared(L)
    BY <1>0, <1>a, <1>10, LineKinds, ValueType
  <2>1. st.pools[z] \in [Keys -> Values]
    BY <1>0, <1>d, <2>0
  <2> HIDE DEF v
  <2>2. new = [st EXCEPT !.pools[st.section][l.key] = v]
    BY <1>10 DEF readLine, new, v
  <2>3. /\ new \in Config /\ new.section = z /\ new.global = st.global
        /\ new.pools = [st.pools EXCEPT ![z] = [st.pools[z] EXCEPT ![l.key] = v]]
    BY <1>0, <2>0, <2>1, <2>2 DEF Config
  <2> HIDE DEF z
  <2>4. Declared(M) = Declared(L) /\ new.section = SectionAt(M, Len(M) + 1)
    BY <1>3, <1>4, <1>10, <2>3 DEF z
  <2>5. ASSUME NEW s, s # z, NEW k PROVE Says(M, s, k) = Says(L, s, k)
    BY <1>2, <2>5, Zenon DEF z
  <2>6. new.pools[z] = [st.pools[z] EXCEPT ![l.key] = v]
    BY <1>0, <2>0, <2>3
  <2>7. ASSUME NEW k \in Keys PROVE new.pools[z][k] = Says(M, z, k)
    <3>1. CASE k = l.key
      <4>1. Says(M, z, k) = v
        BY <1>2, <1>10, <3>1, Zenon DEF v, z
      <4> QED BY <2>1, <2>6, <3>1, <4>1
    <3>2. CASE k # l.key
      <4>1. Says(M, z, k) = Says(L, z, k)
        BY <1>2, <3>2, Zenon
      <4>2. new.pools[z][k] = st.pools[z][k]
        BY <2>1, <2>6, <3>2
      <4> QED BY <1>d, <2>0, <4>1, <4>2, Zenon
    <3> QED BY <3>1, <3>2
  <2>8. new.pools[z] # NoPool
    BY <2>0, <2>1, <2>6, ReportAssumption
  <2>9. \A s \in Pools : s # z => new.pools[s] = st.pools[s]
    BY <1>0, <2>3
  <2>10. ASSUME NEW s \in Pools \cap Declared(M)
         PROVE  new.pools[s] # NoPool /\ \A k \in Keys : new.pools[s][k] = Says(M, s, k)
    <3>1. CASE s = z
      BY <2>7, <2>8, <3>1, Zenon
    <3>2. CASE s # z
      <4>1. s \in Pools \cap Declared(L) /\ new.pools[s] = st.pools[s]
        BY <2>4, <2>9, <3>2
      <4> QED BY <1>d, <2>5, <3>2, <4>1, Zenon
    <3> QED BY <3>1, <3>2
  <2>11. ASSUME NEW s \in Pools \ Declared(M)
         PROVE  new.pools[s] = NoPool /\ \A k \in Keys : Says(M, s, k) = ""
    <3>1. s \in Pools \ Declared(L) /\ new.pools[s] = st.pools[s] /\ s # z
      BY <2>0, <2>4, <2>9
    <3> QED BY <1>c, <2>5, <3>1, Zenon
  <2>12. \A k \in Keys : new.global[k] = Says(M, "global", k)
    <3>1. "global" # z
      BY <1>10 DEF z
    <3> QED BY <1>b, <2>3, <2>5, <3>1, Zenon
  <2>13. new.section \in Declared(M)
    BY <2>0, <2>3, <2>4
  <2>14. Understood(M, new)
    BY <2>3, <2>4, <2>10, <2>11, <2>12, <2>13, Zenon DEF Understood
  <2> QED BY <2>14 DEF M, new
<1> QED BY <1>6, <1>7, <1>8, <1>9, <1>10, LineKinds

-----------------------------------------------------------------------------
(* The pass *)

\* A pool of the master at hand is due once it is dealt with, any other at once.
Due(t) ==
    pc \in {"parse", "pools"} /\ t.pool.pid = p =>
        pc = "pools" /\ t.pool.name \notin names

Reported == {t \in Told : Due(t)}

\* The results list it.
Reports ==
    /\ Lists(found, {t \in Reported : t.path # ""})
    /\ Lists(unstatused, {t.pool : t \in {u \in Reported : u.path = ""}})

\* The parser has made of the lines read so far what they say.
Reading ==
    /\ pc \in {"parse", "pools"} => p \in DOMAIN said /\ Understood(said[p], parsed)
    /\ pc # "pools" => names = {}

\* No process is looked at twice.
OnceEach ==
    /\ pc = "list" => said = <<>>
    /\ pc = "done" => queue = {}
    /\ queue \cap DOMAIN said = {}

\* A master that has stood so far waits for its turn or has had it.
Standing ==
    \A q \in steady :
        \/ q \in queue /\ ident[q] = "master"
        \/ via = "masters" /\ q \in Range(masters)
        \/ via = "pools" /\ q \in DOMAIN said

IInv == TypeOK /\ Reports /\ Reading /\ OnceEach /\ Standing

\* One more element, once.
LEMMA ListsAppended ==
    ASSUME NEW T, NEW seq \in Seq(T), NEW S, NEW e \in T, Lists(seq, S), e \notin S
    PROVE  Lists(Append(seq, e), S \cup {e})
<1> DEFINE new == Append(seq, e)
           n == Len(seq)
<1>1. /\ n \in Nat /\ DOMAIN seq = 1 .. n /\ DOMAIN new = 1 .. n + 1
      /\ \A i \in 1 .. n : new[i] = seq[i]
      /\ new[n + 1] = e
  OBVIOUS
<1> HIDE DEF new, n
<1>2. 1 .. n + 1 = (1 .. n) \cup {n + 1}
  BY <1>1
<1>3. /\ \A i \in 1 .. n : seq[i] \in S
      /\ \A x \in S : \E i \in 1 .. n : x = seq[i]
      /\ \A a, b \in 1 .. n : seq[a] = seq[b] => a = b
  BY <1>1 DEF Lists, Range, IsInjective
<1>4. Range(new) = S \cup {e}
  BY <1>1, <1>2, <1>3 DEF Range
<1>5. IsInjective(new)
  BY <1>1, <1>2, <1>3 DEF IsInjective
<1> QED BY <1>4, <1>5 DEF Lists, new

LEMMA TellsFields ==
    ASSUME NEW L, NEW q, NEW s
    PROVE  /\ Tells(L, q, s).pool.pid = q /\ Tells(L, q, s).pool.name = s
           /\ Tells(L, q, s).pool.socket = parseSocket(Says(L, s, "listen"))
BY DEF Tells

\* A pool is told of by its own master, under its own name.
LEMMA ToldInItsOwn ==
    ASSUME NEW L, NEW q, NEW t \in ToldIn(L, q)
    PROVE  /\ t.pool.pid = q /\ t.pool.name \in Pools \cap Declared(L)
           /\ t = Tells(L, q, t.pool.name) /\ t.pool.socket # <<>>
<1>1. PICK s \in Pools \cap Declared(L) : t = Tells(L, q, s)
  BY DEF ToldIn
<1>2. t.pool.pid = q /\ t.pool.name = s
  BY <1>1, TellsFields
<1> QED BY <1>1, <1>2 DEF ToldIn

\* What the pass makes of a pool is what the report tells of it.
LEMMA PoolTold ==
    ASSUME NEW s \in Pools, Understood(said[p], parsed), parsed.pools[s] # NoPool
    PROVE  /\ s \in Declared(said[p])
           /\ Tells(said[p], p, s) =
                [pool |-> [pid |-> p, name |-> s,
                           socket |-> parseSocket(parsed.pools[s]["listen"])],
                 path |-> statusPath(parsed.pools[s]), at |-> statusSocket(parsed.pools[s])]
<1> DEFINE L == said[p]
<1>1. s \in Pools \cap Declared(L)
  BY DEF Understood
<1>2. {"listen", "pm.status_path", "pm.status_listen"} \subseteq Keys
  BY DiscoveryAssumption
<1>3. \A k \in Keys : parsed.pools[s][k] = Says(L, s, k)
  BY <1>1 DEF Understood
<1>4. \A k \in Keys : parsed.global[k] = Says(L, "global", k)
  BY DEF Understood
<1>5. /\ parsed.pools[s]["listen"] = Says(L, s, "listen")
      /\ parsed.pools[s]["pm.status_path"] = Says(L, s, "pm.status_path")
      /\ parsed.pools[s]["pm.status_listen"] = Says(L, s, "pm.status_listen")
      /\ parsed.global["pm.status_path"] = Says(L, "global", "pm.status_path")
  BY <1>2, <1>3, <1>4
<1>6. statusPath(parsed.pools[s]) =
        IF Says(L, s, "pm.status_path") # "" THEN Says(L, s, "pm.status_path")
        ELSE Says(L, "global", "pm.status_path")
  BY <1>5 DEF statusPath
<1>7. statusSocket(parsed.pools[s]) =
        IF parseSocket(Says(L, s, "pm.status_listen")) # <<>>
        THEN parseSocket(Says(L, s, "pm.status_listen"))
        ELSE parseSocket(Says(L, s, "listen"))
  BY <1>5 DEF statusSocket
<1> QED BY <1>1, <1>5, <1>6, <1>7 DEF Tells

LEMMA InTold == \A x : x \in Told <=> \E q \in DOMAIN said : x \in ToldIn(said[q], q)
BY DEF Told

\* Between two masters nothing becomes due.
LEMMA IdleKeeps ==
    ASSUME Reports, pc \notin {"parse", "pools"}, pc' \notin {"parse", "pools"},
           UNCHANGED <<said, found, unstatused>>
    PROVE  Reports'
<1>1. Told' = Told
  BY DEF Told
<1>2. Reported' = Reported
  BY <1>1 DEF Reported, Due
<1> QED BY <1>2 DEF Reports

\* Nor while its report is read: what is told of the others is all that is due.
LEMMA ReadingKeeps ==
    ASSUME IInv, \/ \E q \in Pids : Parse(q)
                 \/ \E line \in Line : Scan(line)
                 \/ Parsed \/ ParseFails
    PROVE  Reports'
<1>0. /\ pc \in {"parse", "pools"} => p \in DOMAIN said /\ Understood(said[p], parsed)
      /\ queue \cap DOMAIN said = {}
  BY DEF IInv, Reading, OnceEach
<1>1. UNCHANGED <<found, unstatused>>
  BY DEF Parse, Look, Scan, Parsed, ParseFails, Skip, results
<1>2. /\ DOMAIN said' \ {p'} = DOMAIN said \ {p'}
      /\ \A r \in DOMAIN said \ {p'} : said'[r] = said[r]
  BY <1>0 DEF Parse, Look, Scan, Parsed, ParseFails, Skip, history
<1>3. \A x : x \in Reported <=> \E q \in DOMAIN said \ {p'} : x \in ToldIn(said[q], q)
  <2>1. CASE \E q \in Pids : Parse(q)
    <3>1. pc = "next" /\ p' \notin DOMAIN said
      BY <1>0, <2>1 DEF Parse, Look
    <3> QED BY <3>1, InTold DEF Reported, Due
  <2>2. CASE pc = "parse" /\ p' = p
    BY <2>2, InTold, ToldInItsOwn DEF Reported, Due
  <2> QED BY <2>1, <2>2 DEF Scan, Parsed, ParseFails, Skip
<1>4. \A x : x \in Reported' <=> \E q \in DOMAIN said' \ {p'} : x \in ToldIn(said'[q], q)
  <2>0. (\A x : x \in Told <=> \E q \in DOMAIN said : x \in ToldIn(said[q], q))'
    BY InTold, PTL
  <2>1. CASE pc' = "parse"
    BY <2>0, <2>1, ToldInItsOwn DEF Reported, Due
  <2>2. CASE Parsed
    <3>1. /\ pc' = "pools" /\ p' = p /\ said' = said
          /\ names' = {s \in Pools : parsed.pools[s] # NoPool}
      BY <2>2 DEF Parsed, history
    <3>2. \A s \in Pools \cap Declared(said[p]) : s \in names'
      BY <1>0, <2>2, <3>1 DEF Parsed, Understood
    <3>3. \A x \in ToldIn(said[p], p) : x.pool.name \in names'
      BY <3>2, ToldInItsOwn
    <3> QED BY <2>0, <3>1, <3>3, ToldInItsOwn DEF Reported, Due
  <2>3. CASE ParseFails
    <3>1. pc' = "next" /\ p' \notin DOMAIN said'
      BY <2>3 DEF ParseFails, Skip
    <3> QED BY <2>0, <3>1 DEF Reported, Due
  <2> QED BY <2>1, <2>2, <2>3 DEF Parse, Scan
<1>5. \A x : x \in Reported' <=> x \in Reported
  BY <1>2, <1>3, <1>4
<1>6. Reported' = Reported
  BY <1>5
<1> QED BY <1>1, <1>6 DEF IInv, Reports

\* A master is done when all its pools are dealt with.
LEMMA DoneKeeps ==
    ASSUME IInv, MasterDone
    PROVE  Reports'
<1>1. /\ pc = "pools" /\ pc' = "next" /\ names = {}
      /\ UNCHANGED <<said, found, unstatused>>
  BY DEF MasterDone, results, history
<1>2. Told' = Told
  BY <1>1 DEF Told
<1>3. Reported' = Reported
  BY <1>1, <1>2 DEF Reported, Due
<1> QED BY <1>1, <1>3 DEF IInv, Reports

\* A pool with an address becomes due and is reported, where it belongs.
LEMMA PoolKeeps ==
    ASSUME IInv, NEW s \in Pools, Pool(s)
    PROVE  Reports' /\ TypeOK'
<1> DEFINE t == Tells(said[p], p, s)
           Entry == [pool : PoolId, path : Values \ {""}, at : Socket]
<1>1. /\ pc = "pools" /\ s \in names /\ names' = names \ {s}
      /\ UNCHANGED <<via, ident, pc, queue, p, parsed, masters, steady, said>>
  BY DEF Pool, history
<1>2. p \in DOMAIN said /\ Understood(said[p], parsed)
  BY <1>1 DEF IInv, Reading
<1>3. parsed.pools[s] # NoPool /\ names \subseteq Pools
  BY <1>1 DEF IInv, TypeOK
<1>4. /\ s \in Pools \cap Declared(said[p])
      /\ t = [pool |-> [pid |-> p, name |-> s,
                        socket |-> parseSocket(parsed.pools[s]["listen"])],
              path |-> statusPath(parsed.pools[s]), at |-> statusSocket(parsed.pools[s])]
  BY <1>2, <1>3, PoolTold
<1> HIDE DEF t
<1>5. /\ t.pool = [pid |-> p, name |-> s,
                   socket |-> parseSocket(parsed.pools[s]["listen"])]
      /\ t.pool.socket = parseSocket(parsed.pools[s]["listen"])
      /\ t.path = statusPath(parsed.pools[s]) /\ t.at = statusSocket(parsed.pools[s])
      /\ t = [pool |-> t.pool, path |-> t.path, at |-> t.at]
      /\ t.pool.pid = p /\ t.pool.name = s
  BY <1>4
<1>6. /\ t.pool.socket # <<>> /\ t.path = "" =>
            unstatused' = Append(unstatused, t.pool) /\ found' = found
      /\ t.pool.socket # <<>> /\ t.path # "" =>
            unstatused' = unstatused /\ found' = Append(found, t)
      /\ t.pool.socket = <<>> => unstatused' = unstatused /\ found' = found
  <2>1. t.pool.socket = [pid |-> p, name |-> s,
                         socket |-> parseSocket(parsed.pools[s]["listen"])].socket
    BY <1>5
  <2> QED BY <1>5, <2>1 DEF Pool
<1>7. t.pool.socket # <<>> => t.pool \in PoolId /\ (t.path # "" => t \in Entry)
  <2>1. /\ "listen" \in Keys /\ "pm.status_path" \in Keys /\ "pm.status_listen" \in Keys
    BY DiscoveryAssumption
  <2>2. parsed.pools[s] \in [Keys -> Values] /\ parsed.global \in [Keys -> Values]
    BY <1>3 DEF IInv, TypeOK, Config
  <2>3. statusPath(parsed.pools[s]) \in Values
    BY <2>1, <2>2 DEF statusPath
  <2>4. \A k \in Keys : parseSocket(parsed.pools[s][k]) \in Socket \cup {<<>>}
    BY <2>2 DEF Socket
  <2>5. parseSocket(parsed.pools[s]["listen"]) # <<>> =>
          /\ parseSocket(parsed.pools[s]["listen"]) \in Socket
          /\ statusSocket(parsed.pools[s]) \in Socket
    BY <2>1, <2>4 DEF statusSocket
  <2>6. p \in Pids
    BY <1>2 DEF IInv, TypeOK
  <2>7. t.pool.socket # <<>> => t.pool \in PoolId
    BY <1>5, <2>5, <2>6 DEF PoolId
  <2>8. t.pool.socket # <<>> /\ t.path # "" => t \in Entry
    <3> SUFFICES ASSUME t.pool.socket # <<>>, t.path # "" PROVE t \in Entry
      OBVIOUS
    <3>1. t.pool \in PoolId /\ t.path \in Values \ {""} /\ t.at \in Socket
      BY <1>5, <2>3, <2>5, <2>7
    <3> QED BY <1>5, <3>1, Zenon
  <2> QED BY <2>7, <2>8
<1>8. found \in Seq(Entry) /\ unstatused \in Seq(PoolId)
  BY DEF IInv, TypeOK
<1> HIDE DEF Entry
<1>9. found' \in Seq(Entry) /\ unstatused' \in Seq(PoolId)
  <2>1. CASE t.pool.socket = <<>>
    BY <1>6, <1>8, <2>1
  <2>2. CASE t.pool.socket # <<>> /\ t.path = ""
    <3>1. /\ t.pool \in PoolId /\ found' = found
          /\ unstatused' = Append(unstatused, t.pool)
      BY <1>6, <1>7, <2>2
    <3> QED BY <1>8, <3>1
  <2>3. CASE t.pool.socket # <<>> /\ t.path # ""
    <3>1. t \in Entry /\ found' = Append(found, t) /\ unstatused' = unstatused
      BY <1>6, <1>7, <2>3
    <3> QED BY <1>8, <3>1
  <2> QED BY <2>1, <2>2, <2>3
<1>10. TypeOK'
  BY <1>1, <1>9 DEF IInv, TypeOK, Entry
<1>11. Reported' = Reported \cup (IF t.pool.socket # <<>> THEN {t} ELSE {})
  <2>1. t.pool.socket # <<>> => t \in Told
    BY <1>2, <1>4, InTold DEF ToldIn, t
  <2>2. \A x \in Told : x.pool.pid = p /\ x.pool.name = s =>
                           x = t /\ x.pool.socket # <<>>
    BY InTold, ToldInItsOwn DEF t
  <2>3. Told' = Told
    BY <1>1 DEF Told
  <2>4. \A x : x \in Reported' <=> x \in Reported \/ (t.pool.socket # <<>> /\ x = t)
    BY <1>1, <1>5, <2>1, <2>2, <2>3 DEF Reported, Due
  <2> QED BY <2>4
<1>12. \A u \in Reported : u.pool # t.pool
  BY <1>1, <1>5 DEF Reported, Due
<1>13. CASE t.pool.socket = <<>>
  BY <1>6, <1>11, <1>13, <1>10 DEF IInv, Reports
<1>14. CASE t.pool.socket # <<>> /\ t.path # ""
  <2> DEFINE Open == {u \in Reported : u.path # ""}
  <2>0. t \notin Open /\ Lists(found, Open) /\ found' = Append(found, t) /\ t \in Entry
    BY <1>6, <1>7, <1>12, <1>14 DEF IInv, Reports
  <2> HIDE DEF Open
  <2>1. Lists(found', Open \cup {t})
    BY <1>8, <2>0, ListsAppended
  <2>2. /\ {u \in Reported' : u.path # ""} = {u \in Reported : u.path # ""} \cup {t}
        /\ {u \in Reported' : u.path = ""} = {u \in Reported : u.path = ""}
    BY <1>11, <1>14
  <2>3. unstatused' = unstatused
    BY <1>6, <1>14
  <2> QED BY <1>10, <2>1, <2>2, <2>3 DEF IInv, Reports, Open
<1>15. CASE t.pool.socket # <<>> /\ t.path = ""
  <2> DEFINE Closed(R) == {u.pool : u \in {w \in R : w.path = ""}}
  <2>1. t.pool \notin Closed(Reported)
    BY <1>12
  <2>2. Closed(Reported') = Closed(Reported) \cup {t.pool}
    BY <1>11, <1>15
  <2>3. {u \in Reported' : u.path # ""} = {u \in Reported : u.path # ""}
    BY <1>11, <1>15
  <2>4. Lists(unstatused, Closed(Reported)) /\ found' = found
    BY <1>6, <1>15 DEF IInv, Reports
  <2> HIDE DEF Closed
  <2>5. unstatused' = Append(unstatused, t.pool) /\ t.pool \in PoolId
    BY <1>6, <1>7, <1>15
  <2>6. Lists(Append(unstatused, t.pool), Closed(Reported) \cup {t.pool})
    BY <1>8, <2>1, <2>4, <2>5, ListsAppended
  <2> QED BY <1>10, <2>2, <2>3, <2>4, <2>5, <2>6 DEF IInv, Reports, Closed
<1> QED BY <1>13, <1>14, <1>15


LEMMA InitIInv == Init => IInv
<1> SUFFICES ASSUME Init PROVE IInv
  OBVIOUS
<1>1. /\ pc = "list" /\ queue = {} /\ p = NoPid /\ parsed = nothingRead /\ names = {}
      /\ masters = <<>> /\ found = <<>> /\ unstatused = <<>> /\ steady = {} /\ said = <<>>
  BY DEF Init
<1>2. TypeOK
  <2>1. nothingRead \in Config
    BY NothingUnderstood DEF Understood
  <2> QED BY <1>1, <2>1 DEF Init, TypeOK
<1>3. Told = {}
  BY <1>1 DEF Told
<1>4. Reports
  BY <1>1, <1>3 DEF Reports, Reported, Lists, Range, IsInjective
<1> QED BY <1>1, <1>2, <1>4 DEF IInv, Reading, OnceEach, Standing

\* Every step keeps the types; Pool's case is above.
LEMMA TypeKept ==
    ASSUME IInv, Next, ~(\E s \in Pools : Pool(s))
    PROVE  TypeOK'
<1>0. /\ TypeOK /\ (pc # "pools" => names = {})
      /\ (pc \in {"parse", "pools"} => p \in DOMAIN said /\ Understood(said[p], parsed))
  BY DEF IInv, Reading
<1>1. CASE List \/ ListFails
  BY <1>0, <1>1 DEF List, ListFails, TypeOK, results, history
<1>2. CASE \E q \in Pids : PassOver(q)
  BY <1>0, <1>2 DEF PassOver, Look, TypeOK
<1>3. CASE \E q \in Pids : Name(q)
  <2>1. masters' \in Seq(Pids)
    <3>1. PICK q \in Pids : masters' = Append(masters, q)
      BY <1>3 DEF Name
    <3>2. masters \in Seq(Pids)
      BY <1>0 DEF TypeOK
    <3> QED BY <3>1, <3>2
  <2> QED BY <1>0, <1>3, <2>1 DEF Name, Look, TypeOK
<1>4. CASE \E q \in Pids : Parse(q)
  <2>1. PICK q \in Pids : Parse(q)
    BY <1>4
  <2>2. parsed' \in Config /\ names' = {} /\ p' \in Pids
    BY <1>0, <2>1, NothingUnderstood DEF Parse, Look, Understood
  <2>3. /\ DOMAIN said' = DOMAIN said \cup {q}
        /\ \A r \in DOMAIN said' : said'[r] \in Seq(Line)
    <3>1. said' = [r \in DOMAIN said \cup {q} |-> IF r = q THEN <<>> ELSE said[r]]
      BY <2>1 DEF Parse
    <3>2. <<>> \in Seq(Line)
      OBVIOUS
    <3>3. \A r \in DOMAIN said : said[r] \in Seq(Line)
      BY <1>0 DEF TypeOK
    <3> QED BY <3>1, <3>2, <3>3
  <2> QED BY <1>0, <2>1, <2>2, <2>3 DEF Parse, Look, TypeOK
<1>5. CASE pc = "parse" /\ \E line \in Lines[p] : Scan(line)
  <2>1. PICK line \in Line : Scan(line)
    BY <1>0, <1>5, DiscoveryAssumption DEF TypeOK
  <2>2. p \in DOMAIN said /\ said[p] \in Seq(Line) /\ Understood(said[p], parsed)
    BY <1>0, <1>5 DEF TypeOK
  <2>3. Understood(Append(said[p], line), readLine(parsed, line))
    BY <2>2, ReadLineRight
  <2>4. parsed' \in Config /\ names' = {}
    BY <1>0, <1>5, <2>1, <2>3 DEF Scan, Understood
  <2>5. /\ DOMAIN said' = DOMAIN said
        /\ \A r \in DOMAIN said' : said'[r] \in Seq(Line)
    <3>1. said' = [said EXCEPT ![p] = Append(said[p], line)]
      BY <2>1 DEF Scan
    <3>2. Append(said[p], line) \in Seq(Line)
      BY <2>2, Appended
    <3>3. \A r \in DOMAIN said : said[r] \in Seq(Line)
      BY <1>0 DEF TypeOK
    <3> QED BY <2>2, <3>1, <3>2, <3>3
  <2> QED BY <1>0, <2>1, <2>4, <2>5 DEF Scan, TypeOK, results
<1>6. CASE Parsed
  BY <1>0, <1>6 DEF Parsed, TypeOK, results, history
<1>7. CASE ParseFails
  BY <1>0, <1>7 DEF ParseFails, Skip, TypeOK, results
<1>8. CASE MasterDone \/ Finish
  BY <1>0, <1>8 DEF MasterDone, Finish, TypeOK, results, history
<1>9. CASE \E q \in Pids, id \in {"master", "other", "gone"} : Change(q, id)
  BY <1>0, <1>9 DEF Change, TypeOK, results
<1> QED BY <1>1, <1>2, <1>3, <1>4, <1>5, <1>6, <1>7, <1>8, <1>9 DEF Next

\* What has been read stays understood, and no process is listed for another turn.
LEMMA ReadingKept ==
    ASSUME IInv, Next
    PROVE  Reading' /\ OnceEach'
<1>0. TypeOK /\ Reading /\ OnceEach
  BY DEF IInv
<1>1. CASE List \/ ListFails
  BY <1>0, <1>1 DEF List, ListFails, Reading, OnceEach, history
<1>2. CASE \E q \in Pids : PassOver(q) \/ Name(q)
  BY <1>0, <1>2 DEF PassOver, Name, Look, Reading, OnceEach
<1>3. CASE \E q \in Pids : Parse(q)
  <2>1. PICK q \in Pids : Parse(q)
    BY <1>3
  <2>2. /\ DOMAIN said' = DOMAIN said \cup {q} /\ said'[q] = <<>>
        /\ p' = q /\ parsed' = nothingRead /\ pc = "next" /\ pc' = "parse"
        /\ names' = names /\ queue' = queue \ {q}
    BY <2>1 DEF Parse, Look
  <2>3. Understood(said'[p'], parsed')
    BY <2>2, NothingUnderstood
  <2> QED BY <1>0, <2>2, <2>3 DEF Reading, OnceEach
<1>4. CASE pc = "parse" /\ \E line \in Lines[p] : Scan(line)
  <2>1. PICK line \in Line : Scan(line)
    BY <1>0, <1>4, DiscoveryAssumption DEF TypeOK, Reading
  <2>2. p \in DOMAIN said /\ said[p] \in Seq(Line) /\ Understood(said[p], parsed)
    BY <1>0, <1>4 DEF TypeOK, Reading
  <2>3. Understood(Append(said[p], line), readLine(parsed, line))
    BY <2>2, ReadLineRight
  <2>4. /\ DOMAIN said' = DOMAIN said /\ said'[p] = Append(said[p], line)
        /\ p' = p /\ parsed' = readLine(parsed, line) /\ pc' = pc
        /\ names' = names /\ queue' = queue
    BY <2>1, <2>2 DEF Scan
  <2> QED BY <1>0, <1>4, <2>2, <2>3, <2>4 DEF Reading, OnceEach
<1>5. CASE Parsed
  BY <1>0, <1>5 DEF Parsed, Reading, OnceEach, history
<1>6. CASE ParseFails
  BY <1>0, <1>6 DEF ParseFails, Skip, Reading, OnceEach
<1>7. CASE \E s \in Pools : Pool(s)
  BY <1>0, <1>7 DEF Pool, Reading, OnceEach, history
<1>8. CASE MasterDone \/ Finish
  BY <1>0, <1>8 DEF MasterDone, Finish, Reading, OnceEach, history
<1>9. CASE \E q \in Pids, id \in {"master", "other", "gone"} : Change(q, id)
  BY <1>0, <1>9 DEF Change, Reading, OnceEach
<1> QED BY <1>1, <1>2, <1>3, <1>4, <1>5, <1>6, <1>7, <1>8, <1>9 DEF Next

\* A steady master is dropped only when it changes or cannot be parsed itself.
LEMMA StandingKept ==
    ASSUME IInv, Next
    PROVE  Standing'
<1>0. TypeOK /\ Standing
  BY DEF IInv
<1>1. CASE List
  BY <1>0, <1>1 DEF List, Standing
<1>2. CASE \E q \in Pids : PassOver(q)
  BY <1>0, <1>2 DEF PassOver, Look, Standing, masterIdentity
<1>3. CASE \E q \in Pids : Name(q)
  <2>1. PICK q \in Pids : Name(q)
    BY <1>3
  <2>2. q \in Range(masters') /\ Range(masters) \subseteq Range(masters')
    <3>1. /\ masters' = Append(masters, q) /\ masters \in Seq(Pids)
      BY <1>0, <2>1 DEF Name, TypeOK
    <3>2. /\ DOMAIN masters' = 1 .. Len(masters) + 1 /\ DOMAIN masters = 1 .. Len(masters)
          /\ Len(masters) \in Nat /\ masters'[Len(masters) + 1] = q
          /\ \A i \in 1 .. Len(masters) : masters'[i] = masters[i]
      BY <3>1
    <3> QED BY <3>2 DEF Range
  <2> QED BY <1>0, <2>1, <2>2 DEF Name, Look, Standing
<1>4. CASE \E q \in Pids : Parse(q)
  <2>1. PICK q \in Pids : Parse(q)
    BY <1>4
  <2>2. DOMAIN said' = DOMAIN said \cup {q} /\ via = "pools" /\ queue' = queue \ {q}
    BY <2>1 DEF Parse, Look
  <2> QED BY <1>0, <2>1, <2>2 DEF Parse, Look, Standing
<1>5. CASE \E line \in Line : Scan(line)
  <2>1. DOMAIN said' = DOMAIN said
    BY <1>5 DEF Scan
  <2> QED BY <1>0, <1>5, <2>1 DEF Scan, Standing, results
<1>6. CASE ParseFails
  <2>1. DOMAIN said' = DOMAIN said \ {p} /\ steady' = steady \ {p}
    BY <1>6 DEF ParseFails, Skip
  <2> QED BY <1>0, <1>6, <2>1 DEF ParseFails, Skip, Standing, results
<1>7. CASE UNCHANGED <<via, ident, queue, masters, steady, said>>
  BY <1>0, <1>7 DEF Standing
<1>8. CASE \E q \in Pids, id \in {"master", "other", "gone"} : Change(q, id)
  BY <1>0, <1>8 DEF Change, Standing, TypeOK, results
<1>9. CASE pc = "parse" /\ \E line \in Lines[p] : Scan(line)
  <2>1. \E line \in Line : Scan(line)
    BY <1>9, DiscoveryAssumption DEF IInv, TypeOK, Reading
  <2> QED BY <1>5, <2>1
<1>10. CASE ListFails \/ Parsed \/ (\E s \in Pools : Pool(s)) \/ MasterDone \/ Finish
  <2>1. UNCHANGED <<via, ident, queue, masters, steady, said>>
    BY <1>10 DEF ListFails, Parsed, Pool, MasterDone, Finish, results, history
  <2> QED BY <1>7, <2>1
<1> QED BY <1>1, <1>2, <1>3, <1>4, <1>6, <1>8, <1>9, <1>10 DEF Next

LEMMA ReportsKept ==
    ASSUME IInv, Next
    PROVE  Reports'
<1>0. Reports
  BY DEF IInv
<1>1. CASE List \/ ListFails \/ Finish
  BY <1>0, <1>1, IdleKeeps DEF List, ListFails, Finish, results, history
<1>2. CASE \E q \in Pids : PassOver(q) \/ Name(q)
  BY <1>0, <1>2, IdleKeeps DEF PassOver, Name, Look
<1>3. CASE \E q \in Pids : Parse(q)
  BY <1>3, ReadingKeeps
<1>4. CASE pc = "parse" /\ \E line \in Lines[p] : Scan(line)
  <2>1. \E line \in Line : Scan(line)
    BY <1>4, DiscoveryAssumption DEF IInv, TypeOK, Reading
  <2> QED BY <2>1, ReadingKeeps
<1>5. CASE Parsed \/ ParseFails
  BY <1>5, ReadingKeeps
<1>6. CASE \E s \in Pools : Pool(s)
  BY <1>6, PoolKeeps
<1>7. CASE MasterDone
  BY <1>7, DoneKeeps
<1>8. CASE \E q \in Pids, id \in {"master", "other", "gone"} : Change(q, id)
  BY <1>0, <1>8, IdleKeeps DEF Change, results
<1> QED BY <1>1, <1>2, <1>3, <1>4, <1>5, <1>6, <1>7, <1>8 DEF Next

\* The inductive invariant of the pass, every step of it and the process table's
\* changes between them.
THEOREM Invariance == Spec => []IInv
<1>1. IInv /\ [Next]_vars => IInv'
  <2> SUFFICES ASSUME IInv, [Next]_vars PROVE IInv'
    OBVIOUS
  <2>1. CASE Next
    <3>1. TypeOK'
      BY <2>1, TypeKept, PoolKeeps
    <3> QED BY <2>1, <3>1, ReportsKept, ReadingKept, StandingKept DEF IInv
  <2>2. CASE UNCHANGED vars
    BY <2>2 DEF vars, results, history, IInv, TypeOK, Reports, Reported, Told, Due,
       Reading, OnceEach, Standing
  <2> QED BY <2>1, <2>2
<1> QED BY <1>1, InitIInv, PTL DEF Spec

\* TypeOK, with it that nothing is reported without an address or found without
\* a status path, for any masters, pools and reports.
THEOREM TypeCorrect == Spec => []TypeOK
<1>1. IInv => TypeOK
  BY DEF IInv
<1> QED BY <1>1, Invariance, PTL

\* Parser and pass together report what the reports say and nothing else, each
\* pool once, for reports of any length and any number of masters.
THEOREM PoolsAsReportedHolds == Spec => []PoolsAsReported
<1>1. IInv => PoolsAsReported
  <2> SUFFICES ASSUME IInv, pc = "done"
               PROVE  /\ Lists(found, {t \in Told : t.path # ""})
                      /\ Lists(unstatused, {t.pool : t \in {u \in Told : u.path = ""}})
    BY DEF PoolsAsReported
  <2>1. Reported = Told
    BY DEF Reported, Due
  <2> QED BY <2>1 DEF IInv, Reports
<1> QED BY <1>1, Invariance, PTL

\* What discovery writes, read back when the target is dialled, is what php-fpm
\* listens on.
LEMMA WrittenAndRead ==
    ASSUME NEW v, parseSocket(v) # <<>>
    PROVE  /\ ParseAddress(parseSocket(v)) = Listens(v)
           /\ parseSocket(v)[1] = "unix://" =>
                 ParseAddress(Tail(parseSocket(v))) = ParseAddress(parseSocket(v))
<1>0. /\ PathValues \cap ColonValues = {} /\ PathValues \cap PortValues = {}
      /\ ColonValues \cap PortValues = {}
      /\ "unix://" \notin PathValues /\ "tcp://" \notin PathValues
  BY DiscoveryAssumption
<1>1. CASE v \in PathValues
  <2> DEFINE a == parseSocket(v)
  <2>1. a = <<"unix://", v>>
    BY <1>0, <1>1 DEF parseSocket
  <2> HIDE DEF a
  <2>2. Tail(a) = <<v>> /\ a # <<>> /\ a[1] = "unix://"
    BY <2>1
  <2>3. ParseAddress(a) = <<"unix", <<v>>>>
    BY <1>0, <2>2 DEF ParseAddress
  <2>4. ParseAddress(<<v>>) = <<"unix", <<v>>>>
    BY <1>0, <1>1 DEF ParseAddress
  <2>5. Listens(v) = <<"unix", <<v>>>>
    BY <1>0, <1>1 DEF Listens
  <2> QED BY <2>2, <2>3, <2>4, <2>5 DEF a
<1>2. CASE v \in ColonValues
  <2> DEFINE a == parseSocket(v)
  <2>1. a = <<"tcp://", v>>
    BY <1>0, <1>2 DEF parseSocket
  <2> HIDE DEF a
  <2>2. Tail(a) = <<v>> /\ a # <<>> /\ a[1] = "tcp://"
    BY <2>1
  <2>3. ParseAddress(a) = <<"tcp", <<v>>>>
    BY <1>0, <2>2 DEF ParseAddress
  <2>4. Listens(v) = <<"tcp", <<v>>>>
    BY <1>0, <1>2 DEF Listens
  <2> QED BY <2>2, <2>3, <2>4 DEF a
<1>3. CASE v \in PortValues
  <2> DEFINE a == parseSocket(v)
  <2>1. a = <<"tcp://", "127.0.0.1:", v>>
    BY <1>0, <1>3 DEF parseSocket
  <2> HIDE DEF a
  <2>2. Tail(a) = <<"127.0.0.1:", v>> /\ a # <<>> /\ a[1] = "tcp://"
    BY <2>1
  <2>3. ParseAddress(a) = <<"tcp", <<"127.0.0.1:", v>>>>
    BY <1>0, <2>2 DEF ParseAddress
  <2>4. Listens(v) = <<"tcp", <<"127.0.0.1:", v>>>>
    BY <1>0, <1>3 DEF Listens
  <2> QED BY <2>2, <2>3, <2>4 DEF a
<1> QED BY <1>1, <1>2, <1>3 DEF parseSocket

\* Every pool found is dialled where its own section says its status page is.
THEOREM ScrapedWhereServedHolds == Spec => []ScrapedWhereServed
<1>1. IInv => ScrapedWhereServed
  <2> SUFFICES ASSUME IInv, pc = "done", NEW i \in DOMAIN found
      PROVE  LET d == found[i]
                 told(key) == Says(said[d.pool.pid], d.pool.name, key)
                 dialled == ParseAddress(statusAddress(TargetFromDiscovered(d)))
             IN  /\ dialled = Listens(IF parseSocket(told("pm.status_listen")) # <<>>
                                      THEN told("pm.status_listen") ELSE told("listen"))
                 /\ d.pool.socket[1] = "unix://" =>
                        ParseAddress(Tail(d.pool.socket)) = ParseAddress(d.pool.socket)
    BY DEF ScrapedWhereServed
  <2> DEFINE d == found[i]
             q == d.pool.pid
             own == Says(said[q], d.pool.name, "pm.status_listen")
             shared == Says(said[q], d.pool.name, "listen")
  <2>1. d \in Told
    BY DEF IInv, Reports, Reported, Lists, Range
  <2>2. d = Tells(said[q], q, d.pool.name) /\ d.pool.socket # <<>>
    BY <2>1, InTold, ToldInItsOwn
  <2>3. /\ d.pool.socket = parseSocket(shared)
        /\ d.at = IF parseSocket(own) # <<>> THEN parseSocket(own) ELSE parseSocket(shared)
    <3> DEFINE t == Tells(said[q], q, d.pool.name)
    <3>1. /\ t.pool.socket = parseSocket(shared)
          /\ t.at = IF parseSocket(own) # <<>> THEN parseSocket(own)
                    ELSE parseSocket(shared)
      BY DEF Tells
    <3> QED BY <2>2, <3>1
  <2> HIDE DEF d, own, shared
  <2>4. statusAddress(TargetFromDiscovered(d)) = d.at
    BY <2>2, <2>3 DEF statusAddress, TargetFromDiscovered
  <2>5. ParseAddress(d.at) =
          Listens(IF parseSocket(own) # <<>> THEN own ELSE shared)
    BY <2>2, <2>3, WrittenAndRead
  <2>6. d.pool.socket[1] = "unix://" =>
          ParseAddress(Tail(d.pool.socket)) = ParseAddress(d.pool.socket)
    BY <2>2, <2>3, WrittenAndRead
  <2> QED BY <2>4, <2>5, <2>6 DEF d, own, shared
<1> QED BY <1>1, Invariance, PTL

\* No master is missed for what another one did.
THEOREM NoMasterMissedHolds == Spec => []NoMasterMissed
<1>1. IInv => NoMasterMissed
  <2> SUFFICES ASSUME IInv, pc = "done", NEW q \in steady
               PROVE  IF via = "masters" THEN q \in Range(masters) ELSE q \in DOMAIN said
    BY DEF NoMasterMissed
  <2> QED BY DEF IInv, OnceEach, Standing
<1> QED BY <1>1, Invariance, PTL


=============================================================================
