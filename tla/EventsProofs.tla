---------------------------- MODULE EventsProofs ----------------------------
(***************************************************************************)
(* Proofs about EventRouting, for any nodes, services and groups and       *)
(* catalogs of any length: whom an event reaches, and how often, although  *)
(* every broker that receives it chooses its handlers anew.                *)
(*                                                                         *)
(* Then those about Emitter, the bus of the events that stay in a broker,  *)
(* for any closures and any number of events: when one goroutine emits     *)
(* the event, and closures that share their code are only ever registered  *)
(* with Once and never removed, no listener runs twice or is lost,         *)
(* although a removal goes by the code pointer.                            *)
(***************************************************************************)
EXTENDS EventRouting, Emitter, FiniteSetTheorems, SequenceTheorems, WellFoundedInduction, TLAPS

Unhandled == \A e \in Entries : handled[e] = 0
Silent == \A n \in Nodes : wire[n] = 0
OnTheWay(g) == \E e \in Listening : Group(e) = g /\ wire[e.node] > 0

\* Between two events nothing is on its way.
Between == phase = "idle" => Unhandled /\ Silent

\* Only those who listen handle the event, and nobody sends it to the sender.
OnlyListening == wire[Self] = 0 /\ \A e \in Entries : handled[e] > 0 => e \in Listening

\* A group was reached, or a node that has a listener of it will be.
Reaching == phase # "idle" => \A g \in ListeningGroups : Reached(g) \/ OnTheWay(g)

\* A group that alone listens had its handler, or one message is on its way.
SentOnce(g) ==
  \E n \in Nodes :
    /\ wire[n] = 1 /\ \A m \in Nodes \ {n} : wire[m] = 0
    /\ \E e \in Listening : Group(e) = g /\ e.node = n
Alone(g) == (RunsOnce(g) /\ Silent) \/ (SentOnce(g) /\ Unhandled)
Single == phase = "emit" => \A g \in Groups : ListeningGroups = {g} => Alone(g)

\* A group with a listener on the sender's node had exactly that handler there.
LocalRan(g) ==
  \E e \in Listening :
    /\ Group(e) = g /\ e.node = Self /\ handled[e] = 1
    /\ \A d \in Entries : d.node = Self /\ Group(d) = g /\ d # e => handled[d] = 0
Preferred ==
  phase = "emit" =>
    \A g \in Groups : (\E d \in Listening : d.node = Self /\ Group(d) = g) => LocalRan(g)

IInv == TypeOK /\ Between /\ OnlyListening /\ Reaching /\ Single /\ Preferred

-----------------------------------------------------------------------------
(* Positions *)

\* A set of numbers has a least one, as the set of the intervals up to them has.
LEMMA Least ==
  ASSUME NEW S, S \subseteq Nat, S # {}
  PROVE  \E x \in S : \A y \in S : x <= y
<1> DEFINE T == {1..i : i \in S}
<1>1. T \subseteq FiniteSubsetsOf(Nat) /\ T # {}
  <2>1. ASSUME NEW i \in S PROVE 1..i \in FiniteSubsetsOf(Nat)
    BY FS_Interval DEF FiniteSubsetsOf
  <2>2. QED
    BY <2>1
<1>2. PICK X \in T : \A Y \in T : ~(<<Y, X>> \in StrictSubsetOrdering(Nat))
  <2>1. IsWellFoundedOn(StrictSubsetOrdering(Nat), FiniteSubsetsOf(Nat))
    BY FS_StrictSubsetOrderingWellFounded
  <2> HIDE DEF T
  <2>2. QED
    BY <1>1, <2>1, WFMin
<1>3. PICK x \in S : X = 1..x
  BY <1>2
<1>4. ASSUME NEW y \in S, y < x PROVE FALSE
  <2>1. 1..y \in T
    OBVIOUS
  <2>2. x \in Nat /\ y \in Nat
    OBVIOUS
  <2>3. 1..y \subseteq 1..x
    BY <1>4, <2>2
  <2>4. x \in 1..x /\ x \notin 1..y
    BY <1>4, <2>2
  <2>5. <<1..y, 1..x>> \in StrictSubsetOrdering(Nat)
    BY <2>2, <2>3, <2>4 DEF StrictSubsetOrdering
  <2>6. QED
    BY <1>2, <1>3, <2>1, <2>5
<1>5. QED
  BY <1>4

\* The least position.
LEMMA MinIs ==
  ASSUME NEW S, S \subseteq Nat, S # {}
  PROVE  Min(S) \in S
BY Least DEF Min

\* The greatest one.
LEMMA MaxIs ==
  ASSUME NEW n \in Nat, NEW S, S \subseteq 1..n, S # {}
  PROVE  Max(S) \in S
<1> DEFINE T == {n - i : i \in S}
<1>1. T \subseteq Nat /\ T # {}
  <2>1. ASSUME NEW i \in S PROVE n - i \in Nat
    <3>1. i \in 1..n
      OBVIOUS
    <3>2. QED
      BY <3>1
  <2>2. QED
    BY <2>1
<1>2. PICK x \in T : \A y \in T : x <= y
  BY <1>1, Least
<1>3. PICK i \in S : x = n - i
  BY <1>2
<1>4. ASSUME NEW j \in S PROVE i >= j
  BY <1>2, <1>3
<1>5. QED
  BY <1>4 DEF Max

\* How many positions there are in a set of them.
LEMMA Count ==
  ASSUME NEW n \in Nat, NEW S \in SUBSET (1..n)
  PROVE  /\ Cardinality(S) \in Nat
         /\ Cardinality(S) > 0 <=> S # {}
         /\ (\A i, j \in S : i = j) /\ S # {} => Cardinality(S) = 1
<1>1. IsFiniteSet(S)
  <2>1. IsFiniteSet(1..n)
    BY FS_Interval
  <2>2. QED
    BY <2>1, FS_Subset
<1>2. Cardinality(S) \in Nat /\ (Cardinality(S) = 0 <=> S = {})
  BY <1>1, FS_CardinalityType, FS_EmptySet
<1>3. ASSUME \A i, j \in S : i = j, S # {} PROVE Cardinality(S) = 1
  <2>1. PICK i \in S : S = {i}
    BY <1>3
  <2>2. QED
    BY <2>1, FS_Singleton
<1>4. QED
  BY <1>2, <1>3

-----------------------------------------------------------------------------
(* The lookup *)

\* What Find returns for a group: entries of that group, for at least one position
\* if there is one; for one only with a strategy or of local entries; and a local
\* one if that is preferred.
FoundIn(is, r, self, preferLocal, balanced) ==
  /\ DOMAIN r \subseteq is
  /\ \A i \in DOMAIN r : \E j \in is : r[i] = list[j]
  /\ is # {} => DOMAIN r # {}
  /\ balanced => \A i, j \in DOMAIN r : i = j
  /\ preferLocal /\ (\E j \in is : list[j].node = self) =>
       /\ \A i, j \in DOMAIN r : i = j
       /\ \A i \in DOMAIN r : r[i].node = self

\* Find chooses so for every group, from the positions it considers.
LEMMA FindIs ==
  ASSUME list \in Seq(Entries), NEW gs \in SUBSET Groups, NEW self \in Nodes,
         NEW preferLocal \in BOOLEAN, NEW localOnly \in BOOLEAN, NEW balanced \in BOOLEAN,
         NEW f \in Find(list, gs, self, preferLocal, localOnly, balanced), NEW g \in Groups
  PROVE  FoundIn(Matching(list, g, gs, self, localOnly), f[g], self, preferLocal, balanced)
<1> DEFINE is == Matching(list, g, gs, self, localOnly)
           local == {i \in is : list[i].node = self}
           r == f[g]
<1>1. r \in FindInGroup(list, is, self, preferLocal, balanced)
  BY DEF Find
<1>2. DOMAIN list = 1..Len(list) /\ Len(list) \in Nat /\ is \subseteq 1..Len(list)
  BY DEF Matching
<1> HIDE DEF is
<1>3. CASE preferLocal /\ local # {}
  <2>1. Min(local) \in local
    <3>1. ASSUME NEW i \in is PROVE i \in Nat
      BY <1>2
    <3>2. local \subseteq Nat
      BY <3>1
    <3>3. QED
      BY <1>3, <3>2, MinIs
  <2>2. r = [i \in {Min(local)} |-> list[i]]
    BY <1>1, <1>3 DEF FindInGroup
  <2> HIDE DEF r
  <2>3. DOMAIN r = {Min(local)} /\ r[Min(local)] = list[Min(local)]
    BY <2>2
  <2>4. QED
    BY <2>1, <2>3 DEF FoundIn, r, is
<1>4. CASE ~(preferLocal /\ local # {}) /\ balanced /\ is # {}
  <2>1. Max(is) \in is
    BY <1>2, <1>4, MaxIs
  <2>2. PICK k \in is : r = [i \in {k} |-> PointersTo(list, is)[k]]
    BY <1>1, <1>4 DEF FindInGroup
  <2> HIDE DEF r
  <2>3. DOMAIN r = {k} /\ r[k] = list[Max(is)]
    BY <2>2 DEF PointersTo
  <2>4. QED
    BY <1>4, <2>1, <2>3 DEF FoundIn, r, is
<1>5. CASE ~(preferLocal /\ local # {}) /\ ~(balanced /\ is # {})
  <2>1. is # {} => Max(is) \in is
    BY <1>2, MaxIs
  <2>2. r = PointersTo(list, is)
    BY <1>1, <1>5 DEF FindInGroup
  <2> HIDE DEF r
  <2>3. DOMAIN r = is /\ \A i \in is : r[i] = list[Max(is)]
    BY <2>2 DEF PointersTo
  <2>4. QED
    BY <1>5, <2>1, <2>3 DEF FoundIn, r, is
<1>6. QED
  BY <1>3, <1>4, <1>5

\* Who is among the results, and how often.
LEMMA TimesIs ==
  ASSUME list \in Seq(Entries), NEW f, \A g \in Groups : DOMAIN f[g] \subseteq DOMAIN list,
         NEW e \in Entries
  PROVE  LET r == f[Group(e)] IN
         /\ Times(f, e) \in Nat
         /\ Times(f, e) > 0 <=> \E i \in DOMAIN r : r[i] = e
         /\ (\A i, j \in DOMAIN r : i = j) /\ (\E i \in DOMAIN r : r[i] = e) => Times(f, e) = 1
<1> DEFINE S == {i \in DOMAIN f[Group(e)] : f[Group(e)][i] = e}
<1>1. Group(e) \in Groups
  BY GroupOfAssumption DEF Group, Entries
<1>2. S \in SUBSET (1..Len(list)) /\ Len(list) \in Nat
  BY <1>1
<1>3. /\ Cardinality(S) \in Nat
      /\ Cardinality(S) > 0 <=> S # {}
      /\ (\A i, j \in S : i = j) /\ S # {} => Cardinality(S) = 1
  BY <1>2, Count
<1>4. Times(f, e) = Cardinality(S)
  BY DEF Times
<1>5. S # {} <=> \E i \in DOMAIN f[Group(e)] : f[Group(e)][i] = e
  OBVIOUS
<1>6. (\A i, j \in DOMAIN f[Group(e)] : i = j) => \A i, j \in S : i = j
  OBVIOUS
<1> HIDE DEF S
<1>7. QED
  BY <1>3, <1>4, <1>5, <1>6

\* How many of them are on a node.
LEMMA TimesOnIs ==
  ASSUME list \in Seq(Entries), NEW f, NEW n
  PROVE  LET IsOn(i) == i \in DOMAIN f[Group(list[i])] /\ f[Group(list[i])][i].node = n IN
         /\ TimesOn(f, n) \in Nat
         /\ TimesOn(f, n) > 0 <=> \E i \in DOMAIN list : IsOn(i)
         /\ (\A i, j \in DOMAIN list : IsOn(i) /\ IsOn(j) => i = j) /\ (\E i \in DOMAIN list : IsOn(i))
              => TimesOn(f, n) = 1
<1> DEFINE IsOn(i) == i \in DOMAIN f[Group(list[i])] /\ f[Group(list[i])][i].node = n
           S == {i \in DOMAIN list : IsOn(i)}
<1>1. S \in SUBSET (1..Len(list)) /\ Len(list) \in Nat
  OBVIOUS
<1>2. /\ Cardinality(S) \in Nat
      /\ Cardinality(S) > 0 <=> S # {}
      /\ (\A i, j \in S : i = j) /\ S # {} => Cardinality(S) = 1
  BY <1>1, Count
<1>3. TimesOn(f, n) = Cardinality(S)
  BY DEF TimesOn
<1>4. S # {} <=> \E i \in DOMAIN list : IsOn(i)
  OBVIOUS
<1>5. (\A i, j \in DOMAIN list : IsOn(i) /\ IsOn(j) => i = j) => \A i, j \in S : i = j
  OBVIOUS
<1> HIDE DEF S
<1>6. QED
  BY <1>2, <1>3, <1>4, <1>5

\* Who is considered when node self looks for the handlers of groups gs.
Hears(e, gs, self, localOnly) ==
  e \in ToSet(list) /\ MatchGroup(e, gs) /\ (localOnly => e.node = self)

\* Who runs for the results f of Find, that somebody of each group does, who is sent
\* the event, and that a single group has it sent once.
WhoRuns(f, gs, self, localOnly, balanced) ==
  \A e \in Entries :
    /\ Times(f, e) \in Nat
    /\ Times(f, e) > 0 => Hears(e, gs, self, localOnly)
    /\ Times(f, e) > 0 => TimesOn(f, e.node) > 0
    /\ balanced /\ Times(f, e) > 0 =>
         Times(f, e) = 1 /\ \A d \in Entries \ {e} : Group(d) = Group(e) => Times(f, d) = 0

SomebodyRuns(f, gs, self, localOnly, preferLocal) ==
  \A e \in Entries : Hears(e, gs, self, localOnly) =>
    /\ \E d \in Entries : Group(d) = Group(e) /\ Times(f, d) > 0
    /\ preferLocal /\ e.node = self =>
         \E d \in Entries :
           /\ Group(d) = Group(e) /\ d.node = self /\ Times(f, d) = 1
           /\ \A c \in Entries \ {d} : Group(c) = Group(e) => Times(f, c) = 0

SentForOne(f, gs, self, localOnly, balanced) ==
  balanced /\ (\A d, e \in Entries :
                 Hears(d, gs, self, localOnly) /\ Hears(e, gs, self, localOnly)
                   => Group(d) = Group(e)) =>
    \A n \in Nodes : TimesOn(f, n) > 0 =>
      TimesOn(f, n) = 1 /\ \A m \in Nodes \ {n} : TimesOn(f, m) = 0

\* So it is for what Find returns, on the sender and on a receiver.
LEMMA FoundIs ==
  ASSUME list \in Seq(Entries), NEW gs \in SUBSET Groups, NEW self \in Nodes,
         NEW preferLocal \in BOOLEAN, NEW localOnly \in BOOLEAN, NEW balanced \in BOOLEAN,
         NEW f \in Find(list, gs, self, preferLocal, localOnly, balanced)
  PROVE  /\ WhoRuns(f, gs, self, localOnly, balanced)
         /\ SomebodyRuns(f, gs, self, localOnly, preferLocal)
         /\ SentForOne(f, gs, self, localOnly, balanced)
         /\ \A n \in Nodes : TimesOn(f, n) \in Nat
<1> DEFINE Is(g) == Matching(list, g, gs, self, localOnly)
           IsOn(i, n) == i \in DOMAIN f[Group(list[i])] /\ f[Group(list[i])][i].node = n
<1>1. DOMAIN list = 1..Len(list) /\ Len(list) \in Nat /\ \A i \in DOMAIN list : list[i] \in Entries
  OBVIOUS
<1>2. \A e \in Entries : Group(e) \in Groups /\ e.node \in Nodes
  BY GroupOfAssumption DEF Group, Entries
<1>3. ASSUME NEW g, NEW i \in Is(g)
      PROVE  /\ i \in DOMAIN list /\ list[i] \in Entries /\ Group(list[i]) = g
             /\ Hears(list[i], gs, self, localOnly)
  BY <1>1 DEF Matching, Hears, ToSet
<1>4. ASSUME NEW e, Hears(e, gs, self, localOnly) PROVE \E i \in Is(Group(e)) : list[i] = e
  BY <1>4 DEF Matching, Hears, ToSet
<1>5. ASSUME NEW g \in Groups
      PROVE  /\ DOMAIN f[g] \subseteq Is(g)
             /\ \A i \in DOMAIN f[g] : \E j \in Is(g) : f[g][i] = list[j]
             /\ Is(g) # {} => DOMAIN f[g] # {}
             /\ balanced => \A i, j \in DOMAIN f[g] : i = j
             /\ preferLocal /\ (\E j \in Is(g) : list[j].node = self)
                  => /\ \A i, j \in DOMAIN f[g] : i = j
                     /\ \A i \in DOMAIN f[g] : f[g][i].node = self
  <2>1. FoundIn(Is(g), f[g], self, preferLocal, balanced)
    BY FindIs
  <2>2. QED
    BY <2>1, Zenon DEF FoundIn
<1> HIDE DEF Is
<1>6. ASSUME NEW e \in Entries
      PROVE  /\ Times(f, e) \in Nat
             /\ Times(f, e) > 0 <=> \E i \in DOMAIN f[Group(e)] : f[Group(e)][i] = e
             /\ (\A i, j \in DOMAIN f[Group(e)] : i = j) /\ Times(f, e) > 0 => Times(f, e) = 1
  <2>1. \A g \in Groups : DOMAIN f[g] \subseteq DOMAIN list
    BY <1>3, <1>5
  <2>2. QED
    BY <2>1, TimesIs
<1>7. ASSUME NEW n
      PROVE  /\ TimesOn(f, n) \in Nat
             /\ TimesOn(f, n) > 0 <=> \E i \in DOMAIN list : IsOn(i, n)
             /\ (\A i, j \in DOMAIN list : IsOn(i, n) /\ IsOn(j, n) => i = j) /\ TimesOn(f, n) > 0
                  => TimesOn(f, n) = 1
  BY TimesOnIs
\* One of the results is for an entry of the group.
<1>8. ASSUME NEW g \in Groups, NEW i \in DOMAIN f[g]
      PROVE  /\ i \in DOMAIN list /\ Group(list[i]) = g
             /\ f[g][i] \in Entries /\ Group(f[g][i]) = g
             /\ Hears(list[i], gs, self, localOnly) /\ Hears(f[g][i], gs, self, localOnly)
             /\ Times(f, f[g][i]) > 0
  <2>1. i \in Is(g) /\ \E j \in Is(g) : f[g][i] = list[j]
    BY <1>5
  <2>2. /\ i \in DOMAIN list /\ Group(list[i]) = g
        /\ f[g][i] \in Entries /\ Group(f[g][i]) = g
        /\ Hears(list[i], gs, self, localOnly) /\ Hears(f[g][i], gs, self, localOnly)
    BY <1>3, <2>1
  <2>3. QED
    BY <1>6, <2>2
<1> HIDE DEF IsOn
<1>9. ASSUME NEW e \in Entries
      PROVE  /\ Times(f, e) \in Nat
             /\ Times(f, e) > 0 => Hears(e, gs, self, localOnly)
             /\ Times(f, e) > 0 => TimesOn(f, e.node) > 0
  <2>1. ASSUME Times(f, e) > 0 PROVE Hears(e, gs, self, localOnly) /\ TimesOn(f, e.node) > 0
    <3>1. PICK i \in DOMAIN f[Group(e)] : f[Group(e)][i] = e
      BY <1>6, <2>1
    <3>2. Hears(e, gs, self, localOnly) /\ i \in DOMAIN list /\ Group(list[i]) = Group(e)
      BY <1>2, <1>8, <3>1
    <3>3. IsOn(i, e.node)
      BY <3>1, <3>2 DEF IsOn
    <3>4. QED
      BY <1>7, <3>2, <3>3
  <2>2. QED
    BY <1>6, <2>1
<1>10. ASSUME NEW g \in Groups, \A i, j \in DOMAIN f[g] : i = j,
              NEW e \in Entries, Group(e) = g, Times(f, e) > 0
       PROVE  /\ Times(f, e) = 1
              /\ \A d \in Entries \ {e} : Group(d) = g => Times(f, d) = 0
  <2>1. PICK i \in DOMAIN f[g] : f[g][i] = e
    BY <1>6, <1>10
  <2>2. ASSUME NEW d \in Entries \ {e}, Group(d) = g PROVE Times(f, d) = 0
    <3>1. ~(Times(f, d) > 0) /\ Times(f, d) \in Nat
      BY <1>6, <1>10, <2>1, <2>2
    <3>2. QED
      BY <3>1
  <2>3. QED
    BY <1>6, <1>10, <2>2
<1>11. ASSUME NEW e \in Entries, balanced, Times(f, e) > 0
       PROVE  /\ Times(f, e) = 1
              /\ \A d \in Entries \ {e} : Group(d) = Group(e) => Times(f, d) = 0
  BY <1>2, <1>5, <1>10, <1>11
<1>12. ASSUME NEW e \in Entries, Hears(e, gs, self, localOnly)
       PROVE  /\ \E d \in Entries : Group(d) = Group(e) /\ Times(f, d) > 0
              /\ preferLocal /\ e.node = self =>
                   \E d \in Entries :
                     /\ Group(d) = Group(e) /\ d.node = self /\ Times(f, d) = 1
                     /\ \A c \in Entries \ {d} : Group(c) = Group(e) => Times(f, c) = 0
  <2> DEFINE g == Group(e)
  <2>1. g \in Groups /\ \E j \in Is(g) : list[j] = e
    BY <1>2, <1>4, <1>12
  <2> HIDE DEF g
  <2>2. PICK i : i \in DOMAIN f[g]
    BY <1>5, <2>1
  <2>3. f[g][i] \in Entries /\ Group(f[g][i]) = g /\ Times(f, f[g][i]) > 0
    BY <1>8, <2>1, <2>2
  <2>4. ASSUME preferLocal, e.node = self
        PROVE  /\ f[g][i].node = self /\ Times(f, f[g][i]) = 1
               /\ \A c \in Entries \ {f[g][i]} : Group(c) = g => Times(f, c) = 0
    <3>1. (\A k, j \in DOMAIN f[g] : k = j) /\ f[g][i].node = self
      BY <1>5, <2>1, <2>2, <2>4
    <3>2. QED
      BY <1>10, <2>1, <2>3, <3>1
  <2>5. QED
    BY <2>3, <2>4 DEF g
<1>13. ASSUME balanced,
              \A d, e \in Entries : Hears(d, gs, self, localOnly) /\ Hears(e, gs, self, localOnly)
                                      => Group(d) = Group(e),
              NEW n \in Nodes, TimesOn(f, n) > 0
       PROVE  TimesOn(f, n) = 1 /\ \A m \in Nodes \ {n} : TimesOn(f, m) = 0
  <2>1. ASSUME NEW i \in DOMAIN list, NEW j \in DOMAIN list, NEW k, NEW m, IsOn(i, k), IsOn(j, m)
        PROVE  i = j /\ k = m
    <3>1. /\ list[i] \in Entries /\ Group(list[i]) \in Groups
          /\ list[j] \in Entries /\ Group(list[j]) \in Groups
      BY <1>1, <1>2
    <3>2. Hears(list[i], gs, self, localOnly) /\ Hears(list[j], gs, self, localOnly)
      BY <1>8, <2>1, <3>1 DEF IsOn
    <3>3. Group(list[i]) = Group(list[j])
      BY <1>13, <3>1, <3>2
    <3>4. i \in DOMAIN f[Group(list[i])] /\ j \in DOMAIN f[Group(list[i])]
      BY <2>1, <3>3 DEF IsOn
    <3>5. i = j
      BY <1>5, <1>13, <3>1, <3>4
    <3>6. QED
      BY <2>1, <3>5 DEF IsOn
  <2>2. PICK i \in DOMAIN list : IsOn(i, n)
    BY <1>7, <1>13
  <2>3. TimesOn(f, n) = 1
    BY <1>7, <1>13, <2>1
  <2>4. ASSUME NEW m \in Nodes \ {n} PROVE TimesOn(f, m) = 0
    <3>1. ~(TimesOn(f, m) > 0) /\ TimesOn(f, m) \in Nat
      BY <1>7, <2>1, <2>2
    <3>2. QED
      BY <3>1
  <2>5. QED
    BY <2>3, <2>4
<1>14. WhoRuns(f, gs, self, localOnly, balanced)
  BY <1>9, <1>11 DEF WhoRuns
<1>15. SomebodyRuns(f, gs, self, localOnly, preferLocal)
  BY <1>12 DEF SomebodyRuns
<1>16. SentForOne(f, gs, self, localOnly, balanced)
  BY <1>13 DEF SentForOne
<1>17. QED
  BY <1>7, <1>14, <1>15, <1>16

-----------------------------------------------------------------------------
(* The steps *)

\* Who listens, in terms of what is heard.
LEMMA ListeningIs ==
  ASSUME TypeOK
  PROVE  /\ \A e : e \in Listening <=> Hears(e, groups, Self, FALSE)
         /\ \A e \in Listening : e \in Entries /\ e.node \in Nodes /\ Group(e) \in Groups
         /\ ListeningGroups = {Group(e) : e \in Listening}
<1>1. \A e : e \in Listening <=> Hears(e, groups, Self, FALSE)
  BY DEF Listening, Hears, MatchGroup
<1>2. \A e \in Listening : e \in Entries
  BY DEF Listening, ToSet, TypeOK
<1>3. \A e \in Entries : e.node \in Nodes /\ Group(e) \in Groups
  BY GroupOfAssumption DEF Group, Entries
<1>4. QED
  BY <1>1, <1>2, <1>3 DEF ListeningGroups

\* The empty catalog.
LEMMA InitInv == Init => IInv
<1> SUFFICES ASSUME Init PROVE IInv
  OBVIOUS
<1>1. TypeOK
  BY DEF Init, TypeOK
<1>2. /\ phase = "idle" /\ \A e \in Entries : handled[e] = 0
      /\ \A n \in Nodes : wire[n] = 0
  BY DEF Init
<1>3. Between /\ OnlyListening
  BY <1>2, SelfAssumption DEF Between, OnlyListening, Unhandled, Silent
<1>4. QED
  BY <1>1, <1>2, <1>3 DEF IInv, Reaching, Single, Preferred

\* The catalog changes when nothing is on its way.
LEMMA CatalogStep ==
  ASSUME IInv, phase = "idle", list' \in Seq(Entries), UNCHANGED <<phase, groups, wire, handled>>
  PROVE  IInv'
<1>1. TypeOK'
  BY DEF IInv, TypeOK
<1>2. phase' = "idle" /\ Unhandled' /\ Silent'
  BY DEF IInv, Between, Unhandled, Silent
<1>3. Between' /\ OnlyListening'
  BY <1>2, SelfAssumption DEF Between, OnlyListening, Unhandled, Silent
<1>4. QED
  BY <1>1, <1>2, <1>3 DEF IInv, Reaching, Single, Preferred

\* An entry is added at the end.
LEMMA AddStep == ASSUME IInv, NEW e \in Entries, Add(e) PROVE IInv'
<1>1. list \in Seq(Entries) /\ list' = Append(list, e)
  BY DEF IInv, TypeOK, Add
<1>2. list' \in Seq(Entries)
  BY <1>1
<1>3. QED
  BY <1>2, CatalogStep DEF Add

\* The entries of a node are left out, the others keep their order.
LEMMA RemoveByNodeStep == ASSUME IInv, NEW n \in Nodes, RemoveByNode(n) PROVE IInv'
<1> DEFINE kept == {i \in DOMAIN list : list[i].node # n}
<1>1. list \in Seq(Entries) /\ DOMAIN list = 1..Len(list) /\ Len(list) \in Nat
  BY DEF IInv, TypeOK
<1>2. Cardinality(kept) \in Nat
  BY <1>1, Count
<1>3. PICK at \in [1..Cardinality(kept) -> kept] : list' = [k \in DOMAIN at |-> list[at[k]]]
  BY DEF RemoveByNode
<1>4. \A i \in kept : list[i] \in Entries
  BY <1>1
<1> DEFINE c == Cardinality(kept)
<1> HIDE DEF kept, c
<1>5. list' \in [1..Cardinality(kept) -> Entries]
  BY <1>3, <1>4
<1>6. list' \in Seq(Entries)
  BY <1>2, <1>5, SeqDef
<1>7. QED
  BY <1>6, CatalogStep DEF RemoveByNode

\* Sending an event, with a strategy and a preference for local handlers when it is
\* emitted, and without when it is broadcast.
LEMMA SendStep ==
  ASSUME IInv, NEW gs \in SUBSET Groups, NEW kind \in {"emit", "broadcast"}, NEW emitted \in BOOLEAN,
         emitted <=> kind = "emit",
         NEW f \in Find(list, gs, Self, emitted, FALSE, emitted), Send(kind, gs, f)
  PROVE  IInv'
<1>1. /\ phase' = kind /\ groups' = gs /\ list' = list /\ list \in Seq(Entries)
      /\ handled' = [e \in Entries |-> IF e.node = Self THEN Times(f, e) ELSE 0]
      /\ wire' = [n \in Nodes |-> IF n = Self THEN 0 ELSE TimesOn(f, n)]
  BY DEF IInv, TypeOK, Send
<1>2. /\ \A e \in Entries : handled'[e] = IF e.node = Self THEN Times(f, e) ELSE 0
      /\ \A n \in Nodes : wire'[n] = IF n = Self THEN 0 ELSE TimesOn(f, n)
  BY <1>1
<1> DEFINE H(e) == Hears(e, gs, Self, FALSE)
<1>3. \A e \in Entries :
        /\ Times(f, e) \in Nat
        /\ Times(f, e) > 0 => H(e)
        /\ Times(f, e) > 0 => TimesOn(f, e.node) > 0
        /\ emitted /\ Times(f, e) > 0 =>
             /\ Times(f, e) = 1
             /\ \A d \in Entries \ {e} : Group(d) = Group(e) => Times(f, d) = 0
  <2>1. WhoRuns(f, gs, Self, FALSE, emitted)
    BY <1>1, SelfAssumption, FoundIs
  <2>2. QED
    BY <2>1 DEF WhoRuns
<1>4. \A e \in Entries : H(e) =>
        /\ \E d \in Entries : Group(d) = Group(e) /\ Times(f, d) > 0
        /\ emitted /\ e.node = Self =>
             \E d \in Entries :
               /\ Group(d) = Group(e) /\ d.node = Self /\ Times(f, d) = 1
               /\ \A c \in Entries \ {d} : Group(c) = Group(e) => Times(f, c) = 0
  <2>1. SomebodyRuns(f, gs, Self, FALSE, emitted)
    BY <1>1, SelfAssumption, FoundIs
  <2>2. QED
    BY <2>1 DEF SomebodyRuns
<1>5. \A n \in Nodes : TimesOn(f, n) \in Nat
  BY <1>1, SelfAssumption, FoundIs
<1>6. ASSUME emitted, \A d, e \in Entries : H(d) /\ H(e) => Group(d) = Group(e)
      PROVE  \A n \in Nodes : TimesOn(f, n) > 0 =>
               TimesOn(f, n) = 1 /\ \A m \in Nodes \ {n} : TimesOn(f, m) = 0
  <2>1. SentForOne(f, gs, Self, FALSE, emitted)
    BY <1>1, SelfAssumption, FoundIs
  <2>2. QED
    BY <1>6, <2>1 DEF SentForOne
<1>7. TypeOK'
  BY <1>1, <1>3, <1>5 DEF TypeOK
<1>8. \A e : e \in Listening' <=> H(e)
  BY <1>1 DEF Listening, Hears, MatchGroup
<1>9. /\ \A e \in Listening' : e \in Entries /\ e.node \in Nodes /\ Group(e) \in Groups
      /\ ListeningGroups' = {Group(e) : e \in Listening'}
  <2>1. \A e \in Listening' : e \in Entries
    BY <1>1 DEF Listening, ToSet
  <2>2. \A e \in Entries : e.node \in Nodes /\ Group(e) \in Groups
    BY GroupOfAssumption DEF Group, Entries
  <2>3. QED
    BY <2>1, <2>2 DEF ListeningGroups
<1>10. Self \in Nodes /\ \A e \in Entries : e.node \in Nodes
  BY SelfAssumption DEF Entries
<1> HIDE DEF H
<1>11. Between'
  BY <1>1 DEF Between
<1>12. OnlyListening'
  BY <1>2, <1>3, <1>8, <1>10 DEF OnlyListening
<1>13. Reaching'
  <2>1. ASSUME NEW e \in Listening' PROVE Reached(Group(e))' \/ OnTheWay(Group(e))'
    <3>1. PICK d \in Entries : Group(d) = Group(e) /\ Times(f, d) > 0
      BY <1>4, <1>8, <1>9, <2>1
    <3>2. CASE d.node = Self
      BY <1>2, <3>1, <3>2 DEF Reached
    <3>3. CASE d.node # Self
      <4>1. d \in Listening' /\ wire'[d.node] > 0
        BY <1>2, <1>3, <1>8, <1>10, <3>1, <3>3
      <4>2. QED
        BY <3>1, <4>1 DEF OnTheWay, Group
    <3>4. QED
      BY <3>2, <3>3
  <2>2. QED
    BY <1>9, <2>1 DEF Reaching
<1>14. Single'
  <2>1. SUFFICES ASSUME emitted, NEW g \in Groups, ListeningGroups' = {g}
                 PROVE  Alone(g)'
    BY <1>1 DEF Single
  <2>2. \A e \in Listening' : Group(e) = g
    BY <1>9, <2>1
  <2>3. PICK e \in Listening' : Group(e) = g
    BY <1>9, <2>1
  <2>4. PICK d \in Entries : Group(d) = g /\ Times(f, d) > 0
    BY <1>4, <1>8, <1>9, <2>3
  <2>5. Times(f, d) = 1 /\ \A c \in Entries \ {d} : Times(f, c) = 0
    <3>1. ASSUME NEW c \in Entries \ {d} PROVE Times(f, c) = 0
      <4>1. Times(f, c) > 0 => Group(c) = g
        BY <1>3, <1>8, <2>2
      <4>2. QED
        BY <1>3, <2>1, <2>4, <4>1
    <3>2. QED
      BY <1>3, <2>1, <2>4, <3>1
  <2>6. TimesOn(f, d.node) = 1 /\ \A m \in Nodes \ {d.node} : TimesOn(f, m) = 0
    <3>1. \A a, b \in Entries : H(a) /\ H(b) => Group(a) = Group(b)
      BY <1>8, <2>2
    <3>2. d.node \in Nodes /\ TimesOn(f, d.node) > 0
      BY <1>3, <1>10, <2>4
    <3>3. QED
      BY <1>6, <2>1, <3>1, <3>2
  <2>7. CASE d.node = Self
    <3>1. RunsOnce(g)'
      <4>1. handled'[d] = 1 /\ \A c \in Entries \ {d} : handled'[c] = 0
        BY <1>2, <2>5, <2>7
      <4>2. QED
        BY <2>4, <4>1 DEF RunsOnce
    <3>2. Silent'
      BY <1>2, <2>6, <2>7 DEF Silent
    <3>3. QED
      BY <3>1, <3>2 DEF Alone
  <2>8. CASE d.node # Self
    <3>1. wire'[d.node] = 1 /\ \A m \in Nodes \ {d.node} : wire'[m] = 0
      BY <1>2, <1>10, <2>6, <2>8
    <3>2. SentOnce(g)'
      <4>1. d \in Listening' /\ d.node \in Nodes
        BY <1>3, <1>8, <1>10, <2>4
      <4>2. QED
        BY <2>4, <3>1, <4>1 DEF SentOnce, Group
    <3>3. Unhandled'
      BY <1>2, <2>5, <2>8 DEF Unhandled
    <3>4. QED
      BY <3>2, <3>3 DEF Alone
  <2>9. QED
    BY <2>7, <2>8
<1>15. Preferred'
  <2>1. SUFFICES ASSUME emitted, NEW e \in Listening', e.node = Self PROVE LocalRan(Group(e))'
    BY <1>1 DEF Preferred, Group
  <2>2. PICK d \in Entries :
          /\ Group(d) = Group(e) /\ d.node = Self /\ Times(f, d) = 1
          /\ \A c \in Entries \ {d} : Group(c) = Group(e) => Times(f, c) = 0
    BY <1>4, <1>8, <1>9, <2>1
  <2>3. d \in Listening' /\ handled'[d] = 1
    BY <1>2, <1>3, <1>8, <2>2
  <2>4. \A c \in Entries : c.node = Self /\ Group(c) = Group(e) /\ c # d => handled'[c] = 0
    BY <1>2, <2>2
  <2>5. QED
    BY <2>2, <2>3, <2>4 DEF LocalRan, Group
<1>16. QED
  BY <1>7, <1>11, <1>12, <1>13, <1>14, <1>15 DEF IInv

\* A node that is sent the event runs handlers of its own.
LEMMA HandleRemoteEventStep ==
  ASSUME IInv, NEW n \in Nodes, HandleRemoteEvent(n)
  PROVE  IInv'
<1> DEFINE emitted == phase = "emit"
           H(e) == Hears(e, groups, n, TRUE)
<1>1. TypeOK /\ list \in Seq(Entries) /\ groups \in SUBSET Groups /\ wire[n] \in Nat \ {0}
  BY DEF IInv, TypeOK, HandleRemoteEvent
<1>2. PICK f \in Find(list, groups, n, TRUE, TRUE, emitted) :
        handled' = [e \in Entries |-> handled[e] + Times(f, e)]
  BY DEF HandleRemoteEvent
<1>3. /\ wire' = [wire EXCEPT ![n] = @ - 1] /\ list' = list /\ phase' = phase /\ groups' = groups
      /\ n # Self /\ phase # "idle" /\ n \in Nodes
  BY <1>1 DEF HandleRemoteEvent, IInv, OnlyListening, Between, Silent
<1>4. emitted \in BOOLEAN
  OBVIOUS
<1> HIDE DEF emitted
<1>5. \A e \in Entries :
        /\ Times(f, e) \in Nat
        /\ Times(f, e) > 0 => H(e)
  <2>1. WhoRuns(f, groups, n, TRUE, emitted)
    BY <1>1, <1>4, FoundIs
  <2>2. QED
    BY <2>1 DEF WhoRuns
<1>6. \A e \in Entries : H(e) =>
        /\ \E d \in Entries : Group(d) = Group(e) /\ Times(f, d) > 0
        /\ \E d \in Entries :
             /\ Group(d) = Group(e) /\ d.node = n /\ Times(f, d) = 1
             /\ \A c \in Entries \ {d} : Group(c) = Group(e) => Times(f, c) = 0
  <2>1. SomebodyRuns(f, groups, n, TRUE, TRUE)
    BY <1>1, <1>4, FoundIs
  <2>2. QED
    BY <2>1 DEF SomebodyRuns, Hears
<1>7. /\ \A e : e \in Listening <=> Hears(e, groups, Self, FALSE)
      /\ \A e \in Listening : e \in Entries /\ e.node \in Nodes /\ Group(e) \in Groups
      /\ ListeningGroups = {Group(e) : e \in Listening}
  BY <1>1, ListeningIs
<1>8. \A e : H(e) <=> e \in Listening /\ e.node = n
  BY <1>7 DEF Hears
<1> HIDE DEF H
<1>9. Listening' = Listening /\ ListeningGroups' = ListeningGroups
  BY <1>3 DEF Listening, ListeningGroups
<1>10. /\ \A e \in Entries : handled[e] \in Nat /\ handled'[e] = handled[e] + Times(f, e)
       /\ wire'[n] = wire[n] - 1
       /\ \A m \in Nodes : wire[m] \in Nat /\ (m # n => wire'[m] = wire[m])
  BY <1>1, <1>2, <1>3 DEF TypeOK
<1>11. TypeOK'
  BY <1>1, <1>2, <1>3, <1>5, <1>10 DEF TypeOK
<1>12. Between'
  BY <1>3 DEF Between
<1>13. OnlyListening'
  <2>1. wire'[Self] = 0
    BY <1>3, <1>10, SelfAssumption DEF IInv, OnlyListening
  <2>2. ASSUME NEW e \in Entries, handled'[e] > 0 PROVE e \in Listening
    <3>1. handled[e] > 0 \/ Times(f, e) > 0
      BY <1>5, <1>10, <2>2
    <3>2. QED
      BY <1>5, <1>8, <3>1 DEF IInv, OnlyListening
  <2>3. QED
    BY <1>9, <2>1, <2>2 DEF OnlyListening
<1>14. Reaching'
  <2>1. ASSUME NEW g \in ListeningGroups PROVE Reached(g)' \/ OnTheWay(g)'
    <3>1. CASE Reached(g)
      <4>1. PICK e \in Entries : Group(e) = g /\ handled[e] > 0
        BY <3>1 DEF Reached
      <4>2. handled'[e] > 0
        BY <1>5, <1>10, <4>1
      <4>3. QED
        BY <4>1, <4>2 DEF Reached, Group
    <3>2. ASSUME NEW e \in Listening, Group(e) = g, wire[e.node] > 0
          PROVE  Reached(g)' \/ OnTheWay(g)'
      <4>1. CASE e.node = n
        <5>1. PICK d \in Entries : Group(d) = g /\ Times(f, d) > 0
          BY <1>6, <1>7, <1>8, <3>2, <4>1
        <5>2. handled'[d] > 0
          BY <1>5, <1>10, <5>1
        <5>3. QED
          BY <5>1, <5>2 DEF Reached, Group
      <4>2. CASE e.node # n
        <5>1. wire'[e.node] > 0 /\ e \in Listening'
          BY <1>7, <1>9, <1>10, <3>2, <4>2
        <5>2. QED
          BY <3>2, <5>1 DEF OnTheWay, Group
      <4>3. QED
        BY <4>1, <4>2
    <3>3. Reached(g) \/ OnTheWay(g)
      BY <1>3, <2>1 DEF IInv, Reaching
    <3>4. QED
      BY <3>1, <3>2, <3>3 DEF OnTheWay
  <2>2. QED
    BY <1>9, <2>1 DEF Reaching
<1>15. Single'
  <2>1. SUFFICES ASSUME phase = "emit", NEW g \in Groups, ListeningGroups = {g}
                 PROVE  Alone(g)'
    BY <1>3, <1>9 DEF Single
  <2>2. SentOnce(g) /\ Unhandled
    BY <1>1, <2>1 DEF IInv, Single, Alone, Silent
  <2>3. PICK m \in Nodes : /\ wire[m] = 1 /\ \A l \in Nodes \ {m} : wire[l] = 0
                           /\ \E e \in Listening : Group(e) = g /\ e.node = m
    BY <2>2 DEF SentOnce
  <2>4. m = n
    BY <1>1, <2>3
  <2>5. PICK e \in Listening : Group(e) = g /\ e.node = n
    BY <2>3, <2>4
  <2>6. PICK d \in Entries :
          /\ Group(d) = g /\ Times(f, d) = 1
          /\ \A c \in Entries \ {d} : Group(c) = g => Times(f, c) = 0
    BY <1>6, <1>7, <1>8, <2>5
  <2>7. ASSUME NEW c \in Entries \ {d} PROVE Times(f, c) = 0
    <3>1. Times(f, c) > 0 => Group(c) = g
      BY <1>5, <1>7, <1>8, <2>1
    <3>2. QED
      BY <1>5, <2>6, <3>1
  <2>8. handled'[d] = 1 /\ \A c \in Entries \ {d} : handled'[c] = 0
    BY <1>10, <2>2, <2>6, <2>7 DEF Unhandled
  <2>9. RunsOnce(g)'
    BY <2>6, <2>8 DEF RunsOnce, Group
  <2>10. Silent'
    BY <1>10, <2>3, <2>4 DEF Silent
  <2>11. QED
    BY <2>9, <2>10 DEF Alone
<1>16. Preferred'
  <2>1. SUFFICES ASSUME phase = "emit", NEW g \in Groups,
                        \E e \in Listening : e.node = Self /\ Group(e) = g
                 PROVE  LocalRan(g)'
    BY <1>3, <1>9 DEF Preferred, Group
  <2>2. LocalRan(g)
    BY <2>1 DEF IInv, Preferred
  <2>3. PICK e \in Listening :
          /\ Group(e) = g /\ e.node = Self /\ handled[e] = 1
          /\ \A d \in Entries : d.node = Self /\ Group(d) = g /\ d # e => handled[d] = 0
    BY <2>2 DEF LocalRan
  <2>4. ASSUME NEW d \in Entries, d.node = Self PROVE handled'[d] = handled[d]
    <3>1. Times(f, d) = 0
      BY <1>3, <1>5, <1>8, <2>4
    <3>2. QED
      BY <1>10, <3>1
  <2>5. QED
    BY <1>7, <1>9, <2>3, <2>4 DEF LocalRan, Group
<1>17. QED
  BY <1>11, <1>12, <1>13, <1>14, <1>15, <1>16 DEF IInv

\* The event was handled everywhere.
LEMMA ForgetStep == ASSUME IInv, Forget PROVE IInv'
<1>1. /\ phase' = "idle" /\ groups' = {} /\ handled' = [e \in Entries |-> 0]
      /\ list' = list /\ wire' = wire /\ Silent
  BY DEF Forget, Delivered, Silent
<1>2. TypeOK'
  BY <1>1 DEF IInv, TypeOK
<1>3. Between' /\ OnlyListening'
  BY <1>1, SelfAssumption DEF Between, OnlyListening, Unhandled, Silent
<1>4. QED
  BY <1>1, <1>2, <1>3 DEF IInv, Reaching, Single, Preferred

\* Every step keeps the invariant.
LEMMA NextInv == IInv /\ [Next]_vars => IInv'
<1> SUFFICES ASSUME IInv, [Next]_vars PROVE IInv'
  OBVIOUS
<1>1. ASSUME NEW gs \in SUBSET Groups, LoadBalanceEvent(gs) PROVE IInv'
  <2>1. PICK f \in Find(list, gs, Self, TRUE, FALSE, TRUE) : Send("emit", gs, f)
    BY <1>1 DEF LoadBalanceEvent
  <2>2. QED
    BY <2>1, SendStep
<1>2. ASSUME NEW gs \in SUBSET Groups, BroadcastEvent(gs) PROVE IInv'
  <2>1. PICK f \in Find(list, gs, Self, FALSE, FALSE, FALSE) : Send("broadcast", gs, f)
    BY <1>2 DEF BroadcastEvent
  <2>2. QED
    BY <2>1, SendStep
<1>3. CASE UNCHANGED vars
  <2>1. Listening' = Listening /\ ListeningGroups' = ListeningGroups
    BY <1>3 DEF vars, Listening, ListeningGroups, Group
  <2>2. /\ TypeOK' <=> TypeOK
        /\ Between' <=> Between
        /\ OnlyListening' <=> OnlyListening
    BY <1>3, <2>1 DEF vars, TypeOK, Between, OnlyListening, Unhandled, Silent
  <2>3. \A g : /\ Reached(g)' <=> Reached(g)
               /\ OnTheWay(g)' <=> OnTheWay(g)
               /\ Alone(g)' <=> Alone(g)
               /\ LocalRan(g)' <=> LocalRan(g)
    BY <1>3, <2>1 DEF vars, Reached, OnTheWay, Alone, RunsOnce, SentOnce,
                       LocalRan, Silent, Unhandled
  <2>4. QED
    BY <1>3, <2>1, <2>2, <2>3 DEF vars, IInv, Reaching, Single, Preferred
<1>4. QED
  BY <1>1, <1>2, <1>3, AddStep, RemoveByNodeStep, HandleRemoteEventStep, ForgetStep DEF Next

-----------------------------------------------------------------------------
(* The theorems *)

\* The inductive invariant, for any nodes, services and groups and a catalog of any
\* length (event-catalog.go:146-192, registry.go:187-255).
THEOREM Invariance == Spec => []IInv
<1>1. Init => IInv
  BY InitInv
<1>2. IInv /\ [Next]_vars => IInv'
  BY NextInv
<1>3. QED
  BY <1>1, <1>2, PTL DEF Spec

\* An event reaches every group that listens and was asked for, and runs no handler
\* that was not, although each receiver chooses anew (registry.go:201, 215, 239).
THEOREM GroupsAreReached == Spec => []EveryGroupIsReached
<1>1. IInv => EveryGroupIsReached
  <2>1. SUFFICES ASSUME IInv, Delivered, NEW g \in ListeningGroups PROVE Reached(g)
    BY DEF EveryGroupIsReached, IInv, OnlyListening
  <2>2. Reached(g) \/ OnTheWay(g)
    BY <2>1 DEF Delivered, IInv, Reaching
  <2>3. ~OnTheWay(g)
    <3>1. \A e \in Listening : e.node \in Nodes
      BY <2>1, ListeningIs DEF IInv
    <3>2. QED
      BY <2>1, <3>1 DEF Delivered, OnTheWay
  <2>4. QED
    BY <2>2, <2>3
<1>2. QED
  BY <1>1, Invariance, PTL

\* An emitted event that concerns a single group runs one handler, once
\* (event-catalog.go:175-186).
THEOREM OneGroup == Spec => []OneGroupRunsOnce
<1>1. IInv => OneGroupRunsOnce
  <2>1. SUFFICES ASSUME IInv, Delivered, phase = "emit", NEW g \in Groups, ListeningGroups = {g}
                 PROVE  RunsOnce(g)
    BY DEF OneGroupRunsOnce
  <2>2. ~SentOnce(g)
    BY <2>1 DEF Delivered, SentOnce
  <2>3. QED
    BY <2>1, <2>2 DEF IInv, Single, Alone
<1>2. QED
  BY <1>1, Invariance, PTL

\* The sender's own handler of a group runs once, and no other of its handlers in
\* that group, whatever the other nodes do (event-catalog.go:165).
THEOREM LocalHandlers == Spec => []LocalHandlerRunsOnce
<1>1. IInv => LocalHandlerRunsOnce
  <2>1. SUFFICES ASSUME IInv, phase = "emit", NEW d \in Listening, d.node = Self
                 PROVE  LocalRan(Group(d))
    BY DEF LocalHandlerRunsOnce, LocalRan
  <2>2. Group(d) \in Groups
    BY <2>1, ListeningIs DEF IInv
  <2>3. QED
    BY <2>1, <2>2 DEF IInv, Preferred
<1>2. QED
  BY <1>1, Invariance, PTL

-----------------------------------------------------------------------------
(* The local bus *)

\* $broker.started is emitted by Start only.
OneEmitter == \A d, e \in Emitters : d = e

\* The closures of discoverHandler and notifyServiceAdded are registered with Once
\* and nobody has them to remove them (pubsub.go:610, registry.go:561); the other
\* listeners are functions of their own.
SharedCode ==
  \A c, d \in Callbacks : c # d /\ CodeOf[c] = CodeOf[d] => c \in OnceOnly \ Removable

Has(s, c) == \E i \in DOMAIN s : s[i].callback = c
Before(s, c, d) == \E i, j \in DOMAIN s : i < j /\ s[i].callback = c /\ s[j].callback = d
Distinct(s) == \A i, j \in DOMAIN s : s[i].callback = s[j].callback => i = j
Use(v) == IF v.once THEN "once" ELSE "on"

Typed ==
  /\ listeners \in Seq(Listener)
  /\ use \in [Callbacks -> {"new", "on", "once", "removed"}]
  /\ todo \in [Emitters -> Seq(Listener)]
  /\ emits \in [Emitters -> Nat]
  /\ runs \in [Callbacks -> Nat]

\* A closure is registered once, and what was taken as a snapshot was registered.
Ours ==
  /\ Distinct(listeners) /\ \A e \in Emitters : Distinct(todo[e])
  /\ \A i \in DOMAIN listeners : use[listeners[i].callback] = Use(listeners[i])
  /\ \A e \in Emitters : \A i \in DOMAIN todo[e] :
       use[todo[e][i].callback] \in {Use(todo[e][i]), "removed"}

\* A one-time listener is there until it has run.
Uses ==
  \A c \in Callbacks :
    /\ use[c] = "new" => runs[c] = 0
    /\ use[c] = "on" => Has(listeners, c) /\ c \notin OnceOnly
    /\ use[c] = "once" => runs[c] <= 1 /\ (Has(listeners, c) <=> runs[c] = 0)
    /\ use[c] = "removed" => c \in Removable /\ ~Has(listeners, c)

\* The one-time listeners of one code are visited in the order of the list: the
\* first of that code is the one that is visited.
Ordered ==
  \A e \in Emitters : \A c \in Callbacks : use[c] = "once" /\ Has(todo[e], c) =>
    /\ Has(listeners, c)
    /\ \A d \in Callbacks : CodeOf[d] = CodeOf[c] /\ Before(listeners, d, c) => Before(todo[e], d, c)

BusInv == Typed /\ Ours /\ Uses /\ Ordered

-----------------------------------------------------------------------------
(* The list of the listeners *)

\* What is left when the entry at i is removed.
LEMMA RemoveAtIs ==
  ASSUME NEW S, NEW s \in Seq(S), NEW i \in DOMAIN s
  PROVE  /\ RemoveAt(s, i) \in Seq(S)
         /\ DOMAIN RemoveAt(s, i) = 1..(Len(s) - 1)
         /\ \A k \in 1..(Len(s) - 1) : RemoveAt(s, i)[k] = IF k < i THEN s[k] ELSE s[k + 1]
<1> DEFINE a == SubSeq(s, 1, i - 1)
           b == SubSeq(s, i + 1, Len(s))
<1>1. i \in 1..Len(s) /\ Len(s) \in Nat
  OBVIOUS
<1>2. a \in Seq(S) /\ Len(a) = i - 1 /\ \A k \in 1..(i - 1) : a[k] = s[k]
  BY <1>1, SubSeqProperties
<1>3. b \in Seq(S) /\ Len(b) = Len(s) - i /\ \A k \in 1..(Len(s) - i) : b[k] = s[i + k]
  <2>1. i + 1 \in Int /\ Len(s) \in Int /\ \A k \in (i + 1)..Len(s) : s[k] \in S
    BY <1>1
  <2>2. /\ b \in Seq(S) /\ Len(b) = (IF i + 1 <= Len(s) THEN Len(s) - (i + 1) + 1 ELSE 0)
        /\ \A k \in 1..(Len(s) - (i + 1) + 1) : b[k] = s[i + 1 + k - 1]
    BY <2>1, SubSeqProperties
  <2>3. QED
    BY <1>1, <2>2
<1> HIDE DEF a, b
<1>4. /\ a \o b \in Seq(S) /\ Len(a \o b) = Len(s) - 1
      /\ \A k \in 1..(Len(s) - 1) : (a \o b)[k] = IF k <= i - 1 THEN a[k] ELSE b[k - (i - 1)]
  <2>1. /\ a \o b \in Seq(S) /\ Len(a \o b) = Len(a) + Len(b)
        /\ \A k \in 1..(Len(a) + Len(b)) : (a \o b)[k] = IF k <= Len(a) THEN a[k] ELSE b[k - Len(a)]
    BY <1>2, <1>3, ConcatProperties
  <2>2. Len(a) = i - 1 /\ Len(a) + Len(b) = Len(s) - 1
    BY <1>1, <1>2, <1>3
  <2>3. QED
    BY <2>1, <2>2
<1>5. \A k \in 1..(Len(s) - 1) : (a \o b)[k] = IF k < i THEN s[k] ELSE s[k + 1]
  <2>1. SUFFICES ASSUME NEW k \in 1..(Len(s) - 1)
                 PROVE  (a \o b)[k] = IF k < i THEN s[k] ELSE s[k + 1]
    OBVIOUS
  <2>2. CASE k < i
    BY <1>1, <1>2, <1>4, <2>1, <2>2
  <2>3. CASE ~(k < i)
    <3>1. k - (i - 1) \in 1..(Len(s) - i) /\ i + (k - (i - 1)) = k + 1 /\ ~(k <= i - 1)
      BY <1>1, <2>1, <2>3
    <3>2. b[k - (i - 1)] = s[k + 1]
      BY <1>3, <3>1
    <3>3. QED
      BY <1>4, <2>1, <2>3, <3>1, <3>2
  <2>4. QED
    BY <2>2, <2>3
<1>6. DOMAIN (a \o b) = 1..(Len(s) - 1)
  BY <1>4
<1>7. RemoveAt(s, i) = a \o b
  BY DEF RemoveAt, a, b
<1>8. QED
  BY <1>4, <1>5, <1>6, <1>7

\* It is the list without that listener, in the same order.
LEMMA RemoveKeeps ==
  ASSUME NEW s \in Seq(Listener), Distinct(s), NEW i \in DOMAIN s, NEW r, r = RemoveAt(s, i)
  PROVE  /\ r \in Seq(Listener) /\ Distinct(r)
         /\ \A k \in DOMAIN r : \E j \in DOMAIN s \ {i} : r[k] = s[j]
         /\ \A j \in DOMAIN s \ {i} : \E k \in DOMAIN r : r[k] = s[j]
         /\ \A c, d : Before(r, c, d) => Before(s, c, d)
<1> DEFINE at(k) == IF k < i THEN k ELSE k + 1
<1>1. /\ r \in Seq(Listener) /\ DOMAIN r = 1..(Len(s) - 1)
      /\ \A k \in DOMAIN r : r[k] = IF k < i THEN s[k] ELSE s[k + 1]
  BY RemoveAtIs
<1>2. /\ DOMAIN s = 1..Len(s) /\ Len(s) \in Nat /\ i \in 1..Len(s)
  OBVIOUS
<1>3. /\ \A k \in DOMAIN r : at(k) \in DOMAIN s \ {i} /\ r[k] = s[at(k)]
      /\ \A j, k \in DOMAIN r : j < k <=> at(j) < at(k)
  BY <1>1, <1>2
<1>4. \A j \in DOMAIN s \ {i} : \E k \in DOMAIN r : at(k) = j
  <2>1. ASSUME NEW j \in DOMAIN s, j < i PROVE j \in DOMAIN r /\ at(j) = j
    BY <1>1, <1>2, <2>1
  <2>2. ASSUME NEW j \in DOMAIN s, i < j PROVE j - 1 \in DOMAIN r /\ at(j - 1) = j
    BY <1>1, <1>2, <2>2
  <2>3. QED
    BY <1>2, <2>1, <2>2
<1>5. \A j, k \in DOMAIN r : at(j) = at(k) => j = k
  BY <1>1, <1>2
<1> HIDE DEF at
<1>6. Distinct(r)
  BY <1>3, <1>5 DEF Distinct
<1>7. \A c, d : Before(r, c, d) => Before(s, c, d)
  BY <1>3 DEF Before
<1>8. QED
  BY <1>1, <1>3, <1>4, <1>6, <1>7

\* The first listener of a code is the one that is removed.
LEMMA WithoutFirst ==
  ASSUME NEW s \in Seq(Listener), NEW c, NEW i \in DOMAIN s, CodeOf[s[i].callback] = CodeOf[c],
         \A j \in DOMAIN s : CodeOf[s[j].callback] = CodeOf[c] => i <= j
  PROVE  Without(s, c) = RemoveAt(s, i)
<1> DEFINE same == {j \in DOMAIN s : CodeOf[s[j].callback] = CodeOf[c]}
<1>1. i \in same /\ same \subseteq Nat /\ \A j \in same : i <= j
  OBVIOUS
<1>2. \A k \in same : (\A j \in same : k <= j) => k = i
  BY <1>1
<1>3. (CHOOSE k \in same : \A j \in same : k <= j) = i
  BY <1>1, <1>2
<1>4. QED
  BY <1>1, <1>3 DEF Without

\* Nothing is removed when no listener has the code.
LEMMA WithoutNone ==
  ASSUME NEW s, NEW c, \A j \in DOMAIN s : CodeOf[s[j].callback] # CodeOf[c]
  PROVE  Without(s, c) = s
BY DEF Without

\* A listener that is added comes last.
LEMMA AppendIs ==
  ASSUME NEW s \in Seq(Listener), NEW v \in Listener, ~Has(s, v.callback), Distinct(s)
  PROVE  LET r == Append(s, v) IN
         /\ r \in Seq(Listener) /\ Distinct(r)
         /\ \A k \in DOMAIN r : r[k] = v \/ \E j \in DOMAIN s : r[k] = s[j]
         /\ \A j \in DOMAIN s : \E k \in DOMAIN r : r[k] = s[j]
         /\ \E k \in DOMAIN r : r[k] = v
         /\ \A c, d : Before(r, c, d) => Before(s, c, d) \/ d = v.callback
<1> DEFINE r == Append(s, v)
<1>1. /\ r \in Seq(Listener) /\ DOMAIN r = 1..(Len(s) + 1) /\ DOMAIN s = 1..Len(s) /\ Len(s) \in Nat
      /\ \A k \in DOMAIN s : r[k] = s[k]
      /\ r[Len(s) + 1] = v
  OBVIOUS
<1> HIDE DEF r
<1>2. \A k \in DOMAIN r : k = Len(s) + 1 \/ k \in DOMAIN s
  BY <1>1
<1>3. Distinct(r)
  BY <1>1, <1>2 DEF Distinct, Has
<1>4. ASSUME NEW c, NEW d, Before(r, c, d), d # v.callback PROVE Before(s, c, d)
  <2>1. PICK i, j \in DOMAIN r : i < j /\ r[i].callback = c /\ r[j].callback = d
    BY <1>4 DEF Before
  <2>2. j \in DOMAIN s /\ i \in DOMAIN s
    BY <1>1, <1>2, <1>4, <2>1
  <2>3. QED
    BY <1>1, <2>1, <2>2 DEF Before
<1>5. Len(s) + 1 \in DOMAIN r /\ DOMAIN s \subseteq DOMAIN r
  BY <1>1
<1>6. QED
  BY <1>1, <1>2, <1>3, <1>4, <1>5 DEF r

\* The rest of a snapshot.
LEMMA TailIs ==
  ASSUME NEW s \in Seq(Listener), s # <<>>, Distinct(s)
  PROVE  LET r == Tail(s)
             v == Head(s)
         IN
         /\ r \in Seq(Listener) /\ Distinct(r) /\ ~Has(r, v.callback)
         /\ v \in Listener /\ 1 \in DOMAIN s /\ s[1] = v
         /\ \A k \in DOMAIN r : \E j \in DOMAIN s : r[k] = s[j]
         /\ \A c, d : Before(s, c, d) /\ c # v.callback => Before(r, c, d)
<1> DEFINE r == Tail(s)
           v == Head(s)
<1>1. /\ r \in Seq(Listener) /\ DOMAIN s = 1..Len(s) /\ Len(s) \in Nat \ {0}
      /\ DOMAIN r = 1..(Len(s) - 1) /\ \A k \in DOMAIN r : r[k] = s[k + 1]
      /\ v = s[1] /\ v \in Listener
  <2>1. DOMAIN s = 1..Len(s) /\ Len(s) \in Nat \ {0}
    BY EmptySeq
  <2>2. v \in Listener /\ v = s[1]
    BY <2>1
  <2>3. r \in Seq(Listener) /\ Len(r) = Len(s) - 1 /\ \A k \in 1..Len(r) : r[k] = s[k + 1]
    BY HeadTailProperties
  <2>4. QED
    BY <2>1, <2>2, <2>3
<1> HIDE DEF r, v
<1>2. \A k \in DOMAIN r : k + 1 \in DOMAIN s /\ k + 1 # 1
  BY <1>1
<1>3. Distinct(r) /\ ~Has(r, v.callback)
  <2>1. ASSUME NEW i \in DOMAIN r, NEW j \in DOMAIN r, i # j PROVE r[i].callback # r[j].callback
    <3>1. i + 1 \in DOMAIN s /\ j + 1 \in DOMAIN s /\ i + 1 # j + 1 /\ r[i] = s[i + 1] /\ r[j] = s[j + 1]
      BY <1>1, <1>2, <2>1
    <3>2. QED
      BY <3>1 DEF Distinct
  <2>2. ASSUME NEW i \in DOMAIN r PROVE r[i].callback # v.callback
    <3>1. i + 1 \in DOMAIN s /\ i + 1 # 1 /\ 1 \in DOMAIN s /\ r[i] = s[i + 1] /\ v = s[1]
      BY <1>1, <1>2, <2>2
    <3>2. QED
      BY <3>1 DEF Distinct
  <2>3. QED
    BY <2>1, <2>2 DEF Distinct, Has
<1>4. ASSUME NEW c, NEW d, Before(s, c, d), c # v.callback PROVE Before(r, c, d)
  <2>1. PICK i, j \in DOMAIN s : i < j /\ s[i].callback = c /\ s[j].callback = d
    BY <1>4 DEF Before
  <2>2. i - 1 \in DOMAIN r /\ j - 1 \in DOMAIN r /\ i - 1 < j - 1 /\ r[i - 1] = s[i] /\ r[j - 1] = s[j]
    BY <1>1, <1>4, <2>1
  <2>3. QED
    BY <2>1, <2>2 DEF Before
<1>5. QED
  BY <1>1, <1>2, <1>3, <1>4 DEF r, v

-----------------------------------------------------------------------------
(* The steps *)

\* What is in the list and in the snapshots, as callbacks.
LEMMA InUse ==
  ASSUME Typed, Ours, NEW c
  PROVE  /\ Has(listeners, c) => c \in Callbacks /\ use[c] \in {"on", "once"}
         /\ \A e \in Emitters : Has(todo[e], c) => c \in Callbacks /\ use[c] \in {"on", "once", "removed"}
<1>1. \A v \in Listener : v.callback \in Callbacks /\ Use(v) \in {"on", "once"}
  BY DEF Listener, Use
<1>2. \A i \in DOMAIN listeners : listeners[i] \in Listener
  BY DEF Typed
<1>3. \A e \in Emitters : \A i \in DOMAIN todo[e] : todo[e][i] \in Listener
  BY DEF Typed
<1>4. QED
  BY <1>1, <1>2, <1>3 DEF Has, Ours

\* Emitting takes a snapshot.
LEMMA EmitStep ==
  ASSUME BusInv, NEW e \in Emitters, Emit(e)
  PROVE  BusInv'
<1>1. Typed /\ Ours /\ Uses /\ Ordered
  BY DEF BusInv
<1>2. /\ UNCHANGED <<listeners, use, runs>>
      /\ todo'[e] = listeners /\ \A d \in Emitters \ {e} : todo'[d] = todo[d]
  BY <1>1 DEF Emit, Typed
<1>3. Typed'
  BY <1>1 DEF Emit, Typed
<1>4. Ours'
  BY <1>1, <1>2 DEF Ours
<1>5. Uses'
  BY <1>1, <1>2 DEF Uses
<1>6. Ordered'
  BY <1>1, <1>2 DEF Ordered
<1>7. QED
  BY <1>3, <1>4, <1>5, <1>6 DEF BusInv

\* A closure is registered.
LEMMA RegisterStep ==
  ASSUME BusInv, NEW c \in Callbacks, NEW once \in BOOLEAN, use[c] = "new", once \/ c \notin OnceOnly,
         use' = [use EXCEPT ![c] = IF once THEN "once" ELSE "on"],
         listeners' = Append(listeners, [callback |-> c, once |-> once]),
         UNCHANGED <<todo, emits, runs>>
  PROVE  BusInv'
<1> DEFINE v == [callback |-> c, once |-> once]
<1>1. Typed /\ Ours /\ Uses /\ Ordered
  BY DEF BusInv
<1>2. v \in Listener /\ v.callback = c /\ v.once = once /\ Use(v) = IF once THEN "once" ELSE "on"
  BY DEF Listener, Use
<1>3. use'[c] = Use(v) /\ \A d \in Callbacks \ {c} : use'[d] = use[d]
  BY <1>1, <1>2 DEF Typed
<1>4. ~Has(listeners, c) /\ \A e \in Emitters : ~Has(todo[e], c)
  BY <1>1, InUse
<1> HIDE DEF v
<1>5. /\ listeners' \in Seq(Listener) /\ Distinct(listeners')
      /\ \A k \in DOMAIN listeners' : listeners'[k] = v \/ \E j \in DOMAIN listeners : listeners'[k] = listeners[j]
      /\ \A j \in DOMAIN listeners : \E k \in DOMAIN listeners' : listeners'[k] = listeners[j]
      /\ \E k \in DOMAIN listeners' : listeners'[k] = v
      /\ \A a, d : Before(listeners', a, d) => Before(listeners, a, d) \/ d = c
  <2>1. listeners' = Append(listeners, v)
    BY DEF v
  <2>2. listeners \in Seq(Listener) /\ Distinct(listeners) /\ ~Has(listeners, v.callback)
    BY <1>1, <1>2, <1>4 DEF Typed, Ours
  <2>3. QED
    BY <1>2, <2>1, <2>2, AppendIs
<1>6. \A d : Has(listeners', d) <=> Has(listeners, d) \/ d = c
  BY <1>2, <1>5 DEF Has
<1>7. Typed'
  BY <1>1, <1>5 DEF Typed
<1>8. Ours'
  <2>1. ASSUME NEW k \in DOMAIN listeners' PROVE use'[listeners'[k].callback] = Use(listeners'[k])
    <3>1. CASE listeners'[k] = v
      BY <1>2, <1>3, <3>1
    <3>2. ASSUME NEW j \in DOMAIN listeners, listeners'[k] = listeners[j]
          PROVE  use'[listeners'[k].callback] = Use(listeners'[k])
      <4>1. listeners[j].callback \in Callbacks \ {c}
        BY <1>1, <1>4, InUse DEF Has
      <4>2. QED
        BY <1>1, <1>3, <3>2, <4>1 DEF Ours
    <3>3. QED
      BY <1>5, <3>1, <3>2
  <2>2. ASSUME NEW e \in Emitters, NEW k \in DOMAIN todo[e]
        PROVE  use'[todo[e][k].callback] \in {Use(todo[e][k]), "removed"}
    <3>1. todo[e][k].callback \in Callbacks \ {c}
      BY <1>1, <1>4, InUse DEF Has
    <3>2. QED
      BY <1>1, <1>3, <3>1 DEF Ours
  <2>3. QED
    BY <1>1, <1>5, <2>1, <2>2 DEF Ours
<1>9. Uses'
  BY <1>1, <1>2, <1>3, <1>6 DEF Uses, Typed
<1>10. Ordered'
  BY <1>1, <1>3, <1>4, <1>5, <1>6 DEF Ordered
<1>11. QED
  BY <1>7, <1>8, <1>9, <1>10 DEF BusInv

\* A closure is removed by somebody who has it: no other has its code.
LEMMA RemoveStep ==
  ASSUME BusInv, SharedCode, NEW c \in Callbacks, RemoveListener(c)
  PROVE  BusInv'
<1>1. Typed /\ Ours /\ Uses /\ Ordered
  BY DEF BusInv
<1>2. /\ c \in Removable /\ UNCHANGED <<todo, emits, runs>> /\ listeners' = Without(listeners, c)
      /\ use'[c] = "removed" /\ \A d \in Callbacks \ {c} : use'[d] = use[d]
  BY <1>1 DEF RemoveListener, Typed
<1>3. \A i \in DOMAIN listeners : CodeOf[listeners[i].callback] = CodeOf[c] => listeners[i].callback = c
  <2>1. \A i \in DOMAIN listeners : listeners[i].callback \in Callbacks
    BY <1>1, InUse DEF Has
  <2>2. QED
    BY <1>2, <2>1 DEF SharedCode
<1>4. /\ listeners' \in Seq(Listener) /\ Distinct(listeners')
      /\ \A k \in DOMAIN listeners' : listeners'[k].callback # c
                                      /\ \E j \in DOMAIN listeners : listeners'[k] = listeners[j]
      /\ \A d : Has(listeners', d) <=> Has(listeners, d) /\ d # c
      /\ \A a, d : Before(listeners', a, d) => Before(listeners, a, d)
  <2>1. listeners \in Seq(Listener) /\ Distinct(listeners)
    BY <1>1 DEF Typed, Ours
  <2>2. ASSUME NEW i \in DOMAIN listeners, listeners[i].callback = c
        PROVE  listeners' = RemoveAt(listeners, i)
    <3>1. \A j \in DOMAIN listeners : CodeOf[listeners[j].callback] = CodeOf[c] => i <= j
      BY <1>3, <2>1, <2>2 DEF Distinct
    <3>2. QED
      BY <1>2, <2>1, <2>2, <3>1, WithoutFirst
  <2>3. CASE Has(listeners, c)
    <3>1. PICK i \in DOMAIN listeners : listeners[i].callback = c
      BY <2>3 DEF Has
    <3>2. /\ listeners' \in Seq(Listener) /\ Distinct(listeners')
          /\ \A k \in DOMAIN listeners' : \E j \in DOMAIN listeners \ {i} : listeners'[k] = listeners[j]
          /\ \A j \in DOMAIN listeners \ {i} : \E k \in DOMAIN listeners' : listeners'[k] = listeners[j]
          /\ \A a, d : Before(listeners', a, d) => Before(listeners, a, d)
      BY <2>1, <2>2, <3>1, RemoveKeeps
    <3>3. \A j \in DOMAIN listeners \ {i} : listeners[j].callback # c
      BY <2>1, <3>1 DEF Distinct
    <3>4. QED
      BY <3>1, <3>2, <3>3 DEF Has
  <2>4. CASE ~Has(listeners, c)
    <3>1. \A j \in DOMAIN listeners : CodeOf[listeners[j].callback] # CodeOf[c]
      BY <1>3, <2>4 DEF Has
    <3>2. listeners' = listeners
      BY <1>2, <3>1, WithoutNone
    <3>3. QED
      BY <2>1, <2>4, <3>2 DEF Has
  <2>5. QED
    BY <2>3, <2>4
<1>5. Typed'
  BY <1>1, <1>4 DEF RemoveListener, Typed
<1>6. Ours'
  <2>1. ASSUME NEW k \in DOMAIN listeners' PROVE use'[listeners'[k].callback] = Use(listeners'[k])
    <3>1. PICK j \in DOMAIN listeners : listeners'[k] = listeners[j] /\ listeners[j].callback # c
      BY <1>4
    <3>2. listeners[j].callback \in Callbacks
      BY <1>1, InUse DEF Has
    <3>3. QED
      BY <1>1, <1>2, <3>1, <3>2 DEF Ours
  <2>2. ASSUME NEW e \in Emitters, NEW k \in DOMAIN todo[e]
        PROVE  use'[todo[e][k].callback] \in {Use(todo[e][k]), "removed"}
    <3>1. todo[e][k].callback \in Callbacks
      BY <1>1, InUse DEF Has
    <3>2. QED
      BY <1>1, <1>2, <3>1 DEF Ours
  <2>3. QED
    BY <1>1, <1>2, <1>4, <2>1, <2>2 DEF Ours
<1>7. Uses'
  BY <1>1, <1>2, <1>4 DEF Uses
<1>8. Ordered'
  BY <1>1, <1>2, <1>4 DEF Ordered
<1>9. QED
  BY <1>5, <1>6, <1>7, <1>8 DEF BusInv

\* One turn of the loop over the snapshot.
LEMMA VisitStep ==
  ASSUME BusInv, OneEmitter, SharedCode, NEW e \in Emitters, Visit(e)
  PROVE  BusInv'
<1>1. Typed /\ Ours /\ Uses /\ Ordered
  BY DEF BusInv
<1>2. /\ todo[e] \in Seq(Listener) /\ todo[e] # <<>> /\ Distinct(todo[e])
      /\ listeners \in Seq(Listener) /\ Distinct(listeners)
  BY <1>1 DEF Visit, Typed, Ours
<1>3. PICK v : v = Head(todo[e])
  OBVIOUS
<1>4. /\ todo'[e] = Tail(todo[e]) /\ Emitters = {e} /\ UNCHANGED <<use, emits>>
      /\ listeners' = IF v.once THEN Without(listeners, v.callback) ELSE listeners
      /\ runs' = [runs EXCEPT ![v.callback] = @ + 1]
  BY <1>1, <1>3 DEF Visit, Typed, OneEmitter
<1>5. /\ todo'[e] \in Seq(Listener) /\ Distinct(todo'[e]) /\ ~Has(todo'[e], v.callback)
      /\ v \in Listener /\ 1 \in DOMAIN todo[e] /\ todo[e][1] = v
      /\ \A k \in DOMAIN todo'[e] : \E j \in DOMAIN todo[e] : todo'[e][k] = todo[e][j]
      /\ \A c, d : Before(todo[e], c, d) /\ c # v.callback => Before(todo'[e], c, d)
  BY <1>2, <1>3, <1>4, TailIs
<1>6. v.callback \in Callbacks /\ use[v.callback] \in {Use(v), "removed"}
  BY <1>1, <1>5 DEF Ours, Listener
<1>7. /\ runs'[v.callback] = runs[v.callback] + 1 /\ \A c \in Callbacks \ {v.callback} : runs'[c] = runs[c]
      /\ runs' \in [Callbacks -> Nat]
  BY <1>1, <1>4, <1>6 DEF Typed
<1>8. \A c : Has(todo'[e], c) => Has(todo[e], c) /\ c # v.callback
  BY <1>5 DEF Has
\* No other one-time listener that is still there has the code of one that is not.
<1>9. ASSUME use[v.callback] # "once", NEW c \in Callbacks, use[c] = "once"
      PROVE  CodeOf[c] # CodeOf[v.callback]
  BY <1>1, <1>6, <1>9 DEF Use, Uses, SharedCode
<1>10. CASE listeners' = listeners /\ use[v.callback] # "once"
  <2>1. Typed'
    <3>1. todo' \in [Emitters -> Seq(Listener)]
      BY <1>1, <1>4, <1>5 DEF Visit, Typed
    <3>2. QED
      BY <1>1, <1>4, <1>7, <1>10, <3>1 DEF Typed
  <2>2. Ours'
    <3>1. \A k \in DOMAIN todo'[e] : use[todo'[e][k].callback] \in {Use(todo'[e][k]), "removed"}
      BY <1>1, <1>5 DEF Ours
    <3>2. QED
      BY <1>1, <1>4, <1>5, <1>10, <3>1 DEF Ours
  <2>3. Uses'
    BY <1>1, <1>4, <1>6, <1>7, <1>10 DEF Uses, Use
  <2>4. Ordered'
    BY <1>1, <1>4, <1>5, <1>8, <1>9, <1>10 DEF Ordered
  <2>5. QED
    BY <2>1, <2>2, <2>3, <2>4 DEF BusInv
<1>11. CASE v.once /\ use[v.callback] = "removed"
  <2>1. \A j \in DOMAIN listeners : CodeOf[listeners[j].callback] # CodeOf[v.callback]
    <3>1. ASSUME NEW j \in DOMAIN listeners, CodeOf[listeners[j].callback] = CodeOf[v.callback]
          PROVE  FALSE
      <4>1. listeners[j].callback \in Callbacks /\ use[listeners[j].callback] # "removed"
        BY <1>1, InUse DEF Has
      <4>2. v.callback \in Removable /\ listeners[j].callback # v.callback
        BY <1>1, <1>6, <1>11, <4>1 DEF Uses
      <4>3. QED
        BY <1>6, <3>1, <4>1, <4>2 DEF SharedCode
    <3>2. QED
      BY <3>1
  <2>2. listeners' = listeners
    BY <1>4, <1>11, <2>1, WithoutNone
  <2>3. QED
    BY <1>10, <1>11, <2>2
<1>12. CASE use[v.callback] = "once"
  <2>1. v.once
    BY <1>6, <1>12 DEF Use
  <2>2. /\ Has(listeners, v.callback) /\ runs[v.callback] = 0
        /\ \A d \in Callbacks : CodeOf[d] = CodeOf[v.callback] => ~Before(listeners, d, v.callback)
    <3>1. Has(todo[e], v.callback)
      BY <1>5 DEF Has
    <3>2. ASSUME NEW d PROVE ~Before(todo[e], d, v.callback)
      <4>1. ASSUME NEW i \in DOMAIN todo[e], NEW j \in DOMAIN todo[e], i < j, todo[e][j].callback = v.callback
            PROVE  FALSE
        <5>1. j = 1
          BY <1>2, <1>5, <4>1 DEF Distinct
        <5>2. i \in Nat /\ i >= 1
          BY <1>2, <4>1
        <5>3. QED
          BY <4>1, <5>1, <5>2
      <4>2. QED
        BY <4>1 DEF Before
    <3>3. QED
      BY <1>1, <1>6, <1>12, <3>1, <3>2 DEF Ordered, Uses
  <2>3. PICK i \in DOMAIN listeners : listeners[i].callback = v.callback
    BY <2>2 DEF Has
  <2>4. ASSUME NEW j \in DOMAIN listeners, CodeOf[listeners[j].callback] = CodeOf[v.callback]
        PROVE  i <= j
    <3>1. listeners[j].callback \in Callbacks
      BY <1>1, InUse DEF Has
    <3>2. ~(j < i)
      BY <2>2, <2>3, <2>4, <3>1 DEF Before
    <3>3. QED
      BY <1>2, <2>4, <3>2
  <2>5. listeners' = RemoveAt(listeners, i)
    BY <1>2, <1>4, <2>1, <2>3, <2>4, WithoutFirst
  <2>6. /\ listeners' \in Seq(Listener) /\ Distinct(listeners')
        /\ \A k \in DOMAIN listeners' : \E j \in DOMAIN listeners \ {i} : listeners'[k] = listeners[j]
        /\ \A j \in DOMAIN listeners \ {i} : \E k \in DOMAIN listeners' : listeners'[k] = listeners[j]
        /\ \A c, d : Before(listeners', c, d) => Before(listeners, c, d)
    BY <1>2, <2>3, <2>5, RemoveKeeps
  <2>7. \A j \in DOMAIN listeners \ {i} : listeners[j].callback # v.callback
    BY <1>2, <2>3 DEF Distinct
  <2>8. \A c : Has(listeners', c) <=> Has(listeners, c) /\ c # v.callback
    BY <2>3, <2>6, <2>7 DEF Has
  <2>9. Typed'
    <3>1. todo' \in [Emitters -> Seq(Listener)]
      BY <1>1, <1>4, <1>5 DEF Visit, Typed
    <3>2. QED
      BY <1>1, <1>4, <1>7, <2>6, <3>1 DEF Typed
  <2>10. Ours'
    <3>1. \A k \in DOMAIN todo'[e] : use[todo'[e][k].callback] \in {Use(todo'[e][k]), "removed"}
      BY <1>1, <1>5 DEF Ours
    <3>2. \A k \in DOMAIN listeners' : use[listeners'[k].callback] = Use(listeners'[k])
      BY <1>1, <2>6 DEF Ours
    <3>3. QED
      BY <1>4, <1>5, <2>6, <3>1, <3>2 DEF Ours
  <2>11. Uses'
    BY <1>1, <1>4, <1>7, <1>12, <2>2, <2>8 DEF Uses
  <2>12. Ordered'
    <3>1. SUFFICES ASSUME NEW c \in Callbacks, use[c] = "once", Has(todo'[e], c)
                   PROVE  /\ Has(listeners', c)
                          /\ \A d \in Callbacks : CodeOf[d] = CodeOf[c] /\ Before(listeners', d, c) =>
                               Before(todo'[e], d, c)
      BY <1>4 DEF Ordered
    <3>2. c # v.callback /\ Has(todo[e], c)
      BY <1>8, <3>1
    <3>3. ASSUME NEW d \in Callbacks, CodeOf[d] = CodeOf[c], Before(listeners', d, c)
          PROVE  Before(todo'[e], d, c)
      <4>1. d # v.callback
        BY <2>8, <3>3 DEF Before, Has
      <4>2. Before(todo[e], d, c)
        BY <1>1, <2>6, <3>1, <3>2, <3>3 DEF Ordered
      <4>3. QED
        BY <1>5, <4>1, <4>2
    <3>4. QED
      BY <1>1, <2>8, <3>1, <3>2, <3>3 DEF Ordered
  <2>13. QED
    BY <2>9, <2>10, <2>11, <2>12 DEF BusInv
<1>13. QED
  BY <1>4, <1>6, <1>10, <1>11, <1>12 DEF Use

-----------------------------------------------------------------------------
(* The theorems *)

\* The invariant holds before any listener is registered.
LEMMA BusInitInv == BusInit => BusInv
BY DEF BusInit, BusInv, Typed, Ours, Uses, Ordered, Distinct, Has, Before

\* Every step keeps the invariant.
LEMMA BusNextInv == ASSUME OneEmitter, SharedCode PROVE BusInv /\ [BusNext]_busVars => BusInv'
<1> SUFFICES ASSUME BusInv, [BusNext]_busVars PROVE BusInv'
  OBVIOUS
<1>1. ASSUME NEW c \in Callbacks, On(c) PROVE BusInv'
  BY <1>1, RegisterStep DEF On
<1>2. ASSUME NEW c \in Callbacks, Once(c) PROVE BusInv'
  BY <1>2, RegisterStep DEF Once
<1>3. CASE UNCHANGED busVars
  BY <1>3 DEF busVars, BusInv, Typed, Ours, Uses, Ordered
<1>4. QED
  BY <1>1, <1>2, <1>3, EmitStep, RemoveStep, VisitStep DEF BusNext

\* The inductive invariant: the one-time listeners of one code are visited in the
\* order they were registered in (emitter.go:90-130).
THEOREM BusInvariance == ASSUME OneEmitter, SharedCode PROVE BusSpec => []BusInv
<1>1. BusInit => BusInv
  BY BusInitInv
<1>2. BusInv /\ [BusNext]_busVars => BusInv'
  BY BusNextInv
<1>3. QED
  BY <1>1, <1>2, PTL DEF BusSpec

\* A one-time listener of $broker.started runs at most once, however often the
\* event is emitted and whoever registers or removes others meanwhile
\* (emitter.go:73).
THEOREM OneTimeRunsOnce == ASSUME OneEmitter, SharedCode PROVE BusSpec => []OnceRunsOnce
<1>1. BusInv => OnceRunsOnce
  BY DEF BusInv, Uses, OnceRunsOnce
<1>2. QED
  BY <1>1, BusInvariance, PTL

\* A one-time listener that has not run is still registered, and so is a listener of
\* On: what is removed by its code pointer is the listener that was meant
\* (emitter.go:99-101).
THEOREM NoneIsLost == ASSUME OneEmitter, SharedCode PROVE BusSpec => []OnceIsNotLost
<1>1. BusInv => OnceIsNotLost
  BY DEF BusInv, Uses, OnceIsNotLost, Registered, Has
<1>2. QED
  BY <1>1, BusInvariance, PTL
=============================================================================
