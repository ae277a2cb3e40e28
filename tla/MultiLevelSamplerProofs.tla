---------------------- MODULE MultiLevelSamplerProofs ----------------------
(***************************************************************************)
(* What a MultiLevelSampler may rely on and what putBeads may rely on      *)
(* after it, for every number of particles and levels, every list of       *)
(* samplers and every number of trials.                                    *)
(***************************************************************************)
EXTENDS MultiLevelSampler, DataLemmas, FiniteSetTheorems

(* A trial is under way.                                                   *)
Trying == pc \in {"level", "accept"}

Control ==
  /\ sampler \in Sampler /\ irepeat \in 0 .. nrepeat /\ ilevel \in Levels
  /\ pc \in {"run", "choose", "level", "accept", "put"}
  /\ Trying => irepeat < nrepeat

Counts ==
  /\ naccept \in [Sampler -> [Levels -> Nat]]
  /\ ntrial \in [Sampler -> [Levels -> Nat]]

LEMMA ControlInit == Init => Control
BY LevelAssumption, ListAssumption DEF Init, Control, Trying, Sampler, Levels

LEMMA ControlNext == Control /\ [Next]_vars => Control'
<1> SUFFICES ASSUME Control, [Next]_vars
             PROVE  Control'
  OBVIOUS
<1> USE LevelAssumption, ListAssumption DEF Control, Trying, Sampler, Levels
<1>1. CASE Run
  BY <1>1 DEF Run
<1>2. CASE ChooseFails
  BY <1>2 DEF ChooseFails
<1>3. CASE Choose
  BY <1>3 DEF Choose
<1>4. ASSUME NEW delayed \in BOOLEAN, LevelAccepted(delayed)
      PROVE  Control'
  BY <1>4 DEF LevelAccepted
<1>5. CASE LevelRejected
  BY <1>5 DEF LevelRejected
<1>6. CASE AcceptMove
  BY <1>6 DEF AcceptMove
<1>7. CASE NextSampler
  BY <1>7 DEF NextSampler
<1>8. CASE UNCHANGED vars
  BY <1>8 DEF vars
<1> QED
  BY <1>1, <1>2, <1>3, <1>4, <1>5, <1>6, <1>7, <1>8 DEF Next

-----------------------------------------------------------------------------
(* Counting trials.                                                        *)
Raised(S, L, f, g, k, l) ==
  \A j \in S, m \in L : g[j][m] = f[j][m] + (IF j = k /\ m = l THEN 1 ELSE 0)

LEMMA OneMore ==
  ASSUME NEW S, NEW L, NEW f \in [S -> [L -> Nat]], NEW k \in S, NEW l \in L,
         NEW g, g = [f EXCEPT ![k][l] = @ + 1]
  PROVE  g \in [S -> [L -> Nat]]
<1> DEFINE row == [f[k] EXCEPT ![l] = @ + 1]
<1>1. row \in [L -> Nat]
  OBVIOUS
<1>2. g = [f EXCEPT ![k] = row]
  OBVIOUS
<1> HIDE DEF row
<1> QED
  BY <1>1, <1>2

LEMMA OneMoreIs ==
  ASSUME NEW S, NEW L, NEW f \in [S -> [L -> Nat]], NEW k \in S, NEW l \in L, NEW g,
         g = [f EXCEPT ![k][l] = @ + 1]
  PROVE  Raised(S, L, f, g, k, l)
<1> DEFINE row == [f[k] EXCEPT ![l] = @ + 1]
<1> SUFFICES ASSUME NEW j \in S, NEW m \in L
             PROVE  g[j][m] = f[j][m] + (IF j = k /\ m = l THEN 1 ELSE 0)
  BY DEF Raised
<1>1. row[m] = f[k][m] + (IF m = l THEN 1 ELSE 0) /\ f[j][m] \in Nat
  OBVIOUS
<1>2. g = [f EXCEPT ![k] = row]
  OBVIOUS
<1> HIDE DEF row
<1> QED
  BY <1>1, <1>2

Chain == Control /\ Counts /\ AccRejChain

LEMMA ChainInit == Init => Chain
<1> SUFFICES ASSUME Init PROVE Counts /\ AccRejChain
  BY ControlInit DEF Chain
<1> USE LevelAssumption DEF Levels
<1>1. Counts
  BY DEF Init, Counts
<1>2. AccRejChain
  BY DEF Init, AccRejChain
<1> QED
  BY <1>1, <1>2

LEMMA ChainNext == Chain /\ [Next]_vars => Chain'
<1> SUFFICES ASSUME Chain, [Next]_vars
             PROVE  Counts' /\ AccRejChain'
  BY ControlNext DEF Chain
<1> USE LevelAssumption DEF Chain, Control, Levels
<1>1. ASSUME UNCHANGED <<naccept, ntrial>>, pc # "level", pc' # "level"
      PROVE  Counts' /\ AccRejChain'
  BY <1>1 DEF Counts, AccRejChain
<1>2. CASE Choose
  <2>1. Counts'
    BY <1>2 DEF Choose, Counts
  <2>2. AccRejChain'
    BY <1>2 DEF Choose, AccRejChain
  <2> QED
    BY <2>1, <2>2
<1>3. ASSUME pc = "level", TryingMove, sampler' = sampler,
             naccept' = naccept, pc' # "level"
      PROVE  Counts' /\ AccRejChain'
  <2>0. ntrial' = [ntrial EXCEPT ![sampler][ilevel] = @ + 1] /\ ilevel \in 0 .. nlevel
    BY <1>3 DEF TryingMove
  <2>1. Counts'
    BY SMTT(30), <1>3, <2>0, OneMore DEF Counts
  <2>2. AccRejChain'
    <3>1. ASSUME NEW k \in Sampler, NEW l \in 0 .. nlevel - 1
          PROVE  naccept[k][l + 1] = ntrial'[k][l]
      <4>1. ntrial'[k][l] = ntrial[k][l] + (IF k = sampler /\ l = ilevel THEN 1 ELSE 0)
        <5>1. Raised(Sampler, 0 .. nlevel, ntrial, ntrial', sampler, ilevel)
          BY <2>0, OneMoreIs DEF Counts
        <5> QED
          BY <5>1 DEF Raised
      <4> QED
        BY <1>3, <4>1 DEF AccRejChain
    <3>2. ASSUME NEW k \in Sampler, NEW l \in 0 .. nlevel - 1
          PROVE  ntrial'[k][l] \in Nat
      BY <2>1 DEF Counts
    <3> QED
      BY <1>3, <3>1, <3>2 DEF AccRejChain
  <2> QED
    BY <2>1, <2>2
<1>4. ASSUME NEW delayed \in BOOLEAN, LevelAccepted(delayed)
      PROVE  Counts' /\ AccRejChain'
  <2>0. /\ ntrial' = [ntrial EXCEPT ![sampler][ilevel] = @ + 1]
        /\ naccept' = [naccept EXCEPT ![sampler][ilevel] = @ + 1]
        /\ ilevel \in 0 .. nlevel
    BY <1>4 DEF LevelAccepted, TryingMove, MoveAccepted
  <2>1. Counts'
    BY SMTT(30), <2>0, OneMore DEF Counts
  <2>2. ASSUME NEW k \in Sampler, NEW l \in 0 .. nlevel - 1
        PROVE  naccept'[k][l + 1] = ntrial'[k][l]
                 + (IF k = sampler' /\ pc' = "level" /\ l = ilevel' THEN 1 ELSE 0)
    <3>1. /\ naccept'[k][l + 1] = naccept[k][l + 1]
               + (IF k = sampler /\ l + 1 = ilevel THEN 1 ELSE 0)
          /\ ntrial'[k][l] = ntrial[k][l] + (IF k = sampler /\ l = ilevel THEN 1 ELSE 0)
      <4>1. Raised(Sampler, 0 .. nlevel, naccept, naccept', sampler, ilevel)
        BY <2>0, OneMoreIs DEF Counts
      <4>2. Raised(Sampler, 0 .. nlevel, ntrial, ntrial', sampler, ilevel)
        BY <2>0, OneMoreIs DEF Counts
      <4> QED
        BY <4>1, <4>2 DEF Raised
    <3>2. naccept[k][l + 1] = ntrial[k][l] + (IF k = sampler /\ l = ilevel THEN 1 ELSE 0)
      BY <1>4 DEF LevelAccepted, AccRejChain
    <3>3. naccept[k][l + 1] \in Nat /\ ntrial[k][l] \in Nat
      BY DEF Counts
    <3> QED
      BY <1>4, <3>1, <3>2, <3>3 DEF LevelAccepted
  <2> QED
    BY <2>1, <2>2 DEF AccRejChain
<1>5. CASE LevelRejected
  BY <1>3, <1>5 DEF LevelRejected
<1>6. CASE Run \/ ChooseFails \/ AcceptMove \/ NextSampler
  BY <1>1, <1>6 DEF Run, ChooseFails, AcceptMove, NextSampler
<1>7. CASE UNCHANGED vars
  BY <1>7 DEF vars, Counts, AccRejChain
<1> QED
  BY <1>2, <1>4, <1>5, <1>6, <1>7 DEF Next

(* The statistics of MultiLevelSampler::tryMove fit together on every      *)
(* level, delayed rejection included.                                      *)
THEOREM ChainCorrect == Spec => []AccRejChain
<1>1. Chain => AccRejChain
  BY DEF Chain
<1> QED
  BY <1>1, ChainInit, ChainNext, PTL DEF Spec

-----------------------------------------------------------------------------
(* The table of a WalkingChooser.                                          *)
Fresh == (pc = "choose" /\ irepeat < nrepeat) \/ Trying => table = Ends

LEMMA FreshNext == Control /\ Fresh /\ [Next]_vars => Fresh'
<1> SUFFICES ASSUME Control, Fresh, [Next]_vars
             PROVE  Fresh'
  OBVIOUS
<1> USE LevelAssumption DEF Control, Fresh, Trying, Ends
<1>1. CASE Run
  BY <1>1 DEF Run
<1>2. CASE ChooseFails
  BY <1>2 DEF ChooseFails
<1>3. CASE Choose
  BY <1>3 DEF Choose
<1>4. ASSUME NEW delayed \in BOOLEAN, LevelAccepted(delayed)
      PROVE  Fresh'
  BY <1>4 DEF LevelAccepted
<1>5. CASE LevelRejected
  BY <1>5 DEF LevelRejected
<1>6. CASE AcceptMove
  <2>1. irepeat' = irepeat + 1 /\ pc' = "choose" /\ table' = TableAfter(Ends')
    BY <1>6 DEF AcceptMove
  <2> QED
    BY <2>1 DEF TableAfter
<1>7. CASE NextSampler
  BY <1>7 DEF NextSampler
<1>8. CASE UNCHANGED vars
  BY <1>8 DEF vars
<1> QED
  BY <1>1, <1>2, <1>3, <1>4, <1>5, <1>6, <1>7, <1>8 DEF Next

(* WalkingChooser::choosePermutation always weighs a cycle by the section  *)
(* as it is, whatever the samplers before it have moved.                   *)
THEOREM TableCorrect == Spec => []TableIsFresh
<1>1. Init => Control /\ Fresh
  BY ControlInit DEF Init, Fresh, Trying
<1>2. Control /\ Fresh => TableIsFresh
  BY DEF Fresh, TableIsFresh
<1> QED
  BY <1>1, <1>2, ControlNext, FreshNext, PTL DEF Spec

-----------------------------------------------------------------------------
(* Bisection: the levels below nlevel, of slices that are odd multiples of *)
(* 2^level, are together all slices between the ends of a section.  This   *)
(* is what the movers rely on.                                             *)
Bisection ==
  /\ \A l \in Levels : 2 ^ l \in Nat \ {0}
  /\ \A s \in 1 .. Last - 1 : \E l \in 0 .. nlevel - 1 : s \in LevelSlices(l)

LEMMA BisectionHolds == Bisection
<1>1. nlevel \in Nat /\ Powers(nlevel)
  BY LevelAssumption, PowerAssumption DEF Powers
<1>2. \A l \in Levels : 2 ^ l \in Nat \ {0}
  BY <1>1, PowerPositive DEF Levels
<1>3. Last = 2 ^ nlevel /\ 2 ^ nlevel \in Nat \ {0}
  BY <1>1, PowerPositive DEF Last, nsectionSlice
<1>4. ASSUME NEW s \in 1 .. Last - 1
      PROVE  \E l \in 0 .. nlevel - 1 : s \in LevelSlices(l)
  <2>1. PICK l \in 0 .. nlevel - 1 : \E k \in 0 .. 2 ^ nlevel :
               s = (2 * k + 1) * 2 ^ l /\ s <= 2 ^ nlevel - 2 ^ l
    BY <1>1, <1>3, BisectionCovers
  <2>2. 2 ^ l \in Nat
    BY <1>1, PowerPositive
  <2>3. s \in 1 .. Last - 2 ^ l
    BY <1>3, <2>1, <2>2
  <2> QED
    BY <1>3, <2>1, <2>3 DEF LevelSlices
<1> QED
  BY <1>2, <1>4 DEF Bisection

-----------------------------------------------------------------------------
(* The section.                                                            *)
Beadlike == Part \X Nat

Arrays ==
  /\ sectionBeads \in [Slices -> [Part -> Beadlike]]
  /\ sectionPermutation \in [Part -> Part]
  /\ DOMAIN movingBeads = Slices
  /\ trial \in Nat

(* What a trial has in hand.                                               *)
TrialIndex ==
  Trying => /\ movingIndex \in [Moving -> Part]
            /\ \A i, j \in Moving : movingIndex[i] = movingIndex[j] => i = j
            /\ permutation \in [Moving -> Moving]

TrialEnds ==
  Trying => /\ movingBeads[0] = [i \in Moving |-> sectionBeads[0][movingIndex[i]]]
            /\ movingBeads[Last] =
                 [i \in Moving |-> sectionBeads[Last][movingIndex[permutation[i]]]]

Moved(s) == movingBeads[s] = [i \in Moving |-> <<movingIndex[i], trial>>]
MovedLevels ==
  Trying => \A l \in 0 .. nlevel - 1 :
              (pc = "accept" \/ l > ilevel) => \A s \in LevelSlices(l) : Moved(s)

SInv == /\ Control /\ Arrays /\ TrialIndex /\ TrialEnds /\ MovedLevels
        /\ SectionMatchesPermutation /\ NoHalfMove

LEMMA SliceFacts ==
  /\ Last \in Nat \ {0} /\ Slices = 0 .. Last
  /\ \A l \in Levels : LevelSlices(l) \subseteq 1 .. Last - 1
<1>1. nlevel \in Levels /\ 2 ^ nlevel \in Nat \ {0}
  BY BisectionHolds, LevelAssumption DEF Bisection, Levels
<1>2. Last = 2 ^ nlevel
  BY <1>1 DEF Last, nsectionSlice
<1>3. ASSUME NEW l \in Levels
      PROVE  LevelSlices(l) \subseteq 1 .. Last - 1
  <2>1. 2 ^ l \in Nat \ {0}
    BY BisectionHolds DEF Bisection
  <2> DEFINE p == 2 ^ l
  <2>2. LevelSlices(l) \subseteq 1 .. Last - p
    BY DEF LevelSlices
  <2> HIDE DEF p
  <2>3. p \in Nat \ {0}
    BY <2>1 DEF p
  <2> QED
    BY <1>1, <1>2, <2>2, <2>3
<1> QED
  BY <1>1, <1>2, <1>3 DEF Slices

LEMMA SInit == Init => SInv
<1> SUFFICES ASSUME Init PROVE SInv
  OBVIOUS
<1>1. Last \in Nat \ {0} /\ Slices = 0 .. Last
  BY SliceFacts
<1>2. Control
  BY ControlInit
<1>3. Arrays
  BY DEF Init, Arrays, Beadlike, Identity, Unset
<1>4. TrialIndex /\ TrialEnds /\ MovedLevels
  BY DEF Init, TrialIndex, TrialEnds, MovedLevels, Trying
<1>5. SectionMatchesPermutation
  <2>1. \A s \in Slices : sectionBeads[s] = [a \in Part |-> <<a, 0>>]
    BY DEF Init
  <2>2. sectionPermutation = [a \in Part |-> a]
    BY DEF Init, Identity
  <2>3. 0 \in Slices /\ Last \in Slices /\ 1 .. Last - 1 \subseteq Slices
    BY <1>1
  <2>4. [a \in Part |-> <<sectionPermutation[a], 0>>] = [a \in Part |-> <<a, 0>>]
    BY <2>2
  <2>5. sectionBeads[0] = [a \in Part |-> <<a, 0>>]
    BY <2>1, <2>3
  <2>6. sectionBeads[Last] = [a \in Part |-> <<sectionPermutation[a], 0>>]
    BY <2>1, <2>3, <2>4
  <2>7. ASSUME NEW s \in 1 .. Last - 1, NEW a \in Part
        PROVE  sectionBeads[s][a][1] = a
    <3>1. sectionBeads[s] = [c \in Part |-> <<c, 0>>]
      BY <2>1, <2>3
    <3> QED
      BY <3>1
  <2> QED
    BY <2>5, <2>6, <2>7 DEF SectionMatchesPermutation
<1>6. NoHalfMove
  <2>1. \A s \in Slices : sectionBeads[s] = [a \in Part |-> <<a, 0>>]
    BY DEF Init
  <2>2. 1 .. Last - 1 \subseteq Slices
    BY <1>1
  <2> QED
    BY <2>1, <2>2 DEF NoHalfMove
<1> QED
  BY <1>2, <1>3, <1>4, <1>5, <1>6 DEF SInv

(* Choosing a trial copies the ends that belong to its labels.             *)
LEMMA SChoose ==
  ASSUME SInv, Choose
  PROVE  SInv'
<1> USE DEF Trying
<1>1. Last \in Nat \ {0} /\ Slices = 0 .. Last
  BY SliceFacts
<1>2. PICK ix \in Chosen, p \in Samplers[sampler].perms :
        /\ movingIndex' = ix
        /\ permutation' = p
        /\ movingBeads' =
            [movingBeads EXCEPT
               ![0] = [i \in Moving |-> sectionBeads[0][ix[i]]],
               ![Last] = [i \in Moving |-> sectionBeads[Last][ix[p[i]]]]]
  BY DEF Choose
<1>3. /\ UNCHANGED <<sectionBeads, sectionPermutation, sampler>>
      /\ pc' = "level" /\ ilevel' = nlevel /\ trial' = trial + 1
      /\ Moving' = Moving
  BY DEF Choose, Moving
<1>4. Control'
  BY ControlNext DEF SInv, Next
<1>5. Arrays'
  BY <1>2, <1>3 DEF SInv, Arrays
<1>6. TrialIndex'
  <2>1. sampler \in DOMAIN Samplers
    BY DEF SInv, Control, Sampler
  <2>2. /\ Samplers[sampler].pool \subseteq Part
        /\ Samplers[sampler].perms \subseteq Perms(Moving)
    BY <2>1, SamplerAssumption DEF Moving
  <2>3. p \in [Moving -> Moving]
    BY <2>2 DEF Perms
  <2>4. ix \in [Moving -> Part] /\ \A i, j \in Moving : ix[i] = ix[j] => i = j
    BY <2>2 DEF Chosen
  <2> QED
    BY <1>2, <1>3, <2>3, <2>4 DEF TrialIndex
<1>7. TrialEnds'
  <2>1. /\ movingBeads'[0] = [i \in Moving |-> sectionBeads[0][ix[i]]]
        /\ movingBeads'[Last] = [i \in Moving |-> sectionBeads[Last][ix[p[i]]]]
    BY <1>1, <1>2 DEF SInv, Arrays
  <2> QED
    BY <1>2, <1>3, <2>1 DEF TrialEnds
<1>8. MovedLevels'
  <2>1. \A l \in 0 .. nlevel - 1 : ~(l > nlevel)
    BY LevelAssumption
  <2> QED
    BY <1>3, <2>1 DEF MovedLevels
<1>9. SectionMatchesPermutation' /\ NoHalfMove'
  BY <1>3 DEF SInv, SectionMatchesPermutation, NoHalfMove
<1> QED
  BY <1>4, <1>5, <1>6, <1>7, <1>8, <1>9 DEF SInv

(* A level that is accepted moves its slices and leaves those of the       *)
(* levels before, and the ends, alone.                                     *)
LEMMA SLevelAccepted ==
  ASSUME SInv, NEW delayed \in BOOLEAN, LevelAccepted(delayed)
  PROVE  SInv'
<1> USE DEF Trying
<1>1. Last \in Nat \ {0} /\ Slices = 0 .. Last
      /\ \A l \in Levels : LevelSlices(l) \subseteq 1 .. Last - 1
  BY SliceFacts
<1>2. /\ UNCHANGED <<sectionBeads, sectionPermutation, movingIndex, permutation,
                     sampler, trial>>
      /\ pc = "level" /\ pc' \in {"level", "accept"} /\ ilevel \in Levels
      /\ (pc' = "accept" => ilevel = 0)
      /\ (pc' = "level" => ilevel' = ilevel - 1)
      /\ Moving' = Moving
  BY DEF LevelAccepted, Moving, SInv, Control
<1>3. movingBeads' = [s \in Slices |-> IF s \in LevelSlices(ilevel)
                        THEN [i \in Moving |-> <<movingIndex[i], trial>>]
                        ELSE movingBeads[s]]
  BY DEF LevelAccepted, MakeMove
<1>4. Control'
  BY ControlNext DEF SInv, Next
<1>5. Arrays'
  BY <1>2, <1>3 DEF SInv, Arrays
<1>6. TrialIndex'
  BY <1>2 DEF SInv, TrialIndex
<1>7. TrialEnds'
  <2>1. 0 \notin LevelSlices(ilevel) /\ Last \notin LevelSlices(ilevel)
        /\ 0 \in Slices /\ Last \in Slices
    BY <1>1, <1>2
  <2>2. movingBeads'[0] = movingBeads[0] /\ movingBeads'[Last] = movingBeads[Last]
    BY <1>3, <2>1
  <2> QED
    BY <1>2, <2>2 DEF SInv, TrialEnds
<1>8. MovedLevels'
  <2> SUFFICES ASSUME NEW l \in 0 .. nlevel - 1, pc' = "accept" \/ l > ilevel',
                      NEW s \in LevelSlices(l)
               PROVE  Moved(s)'
    BY DEF MovedLevels
  <2>1. l \in Levels /\ s \in Slices
    <3>1. l \in Levels
      BY LevelAssumption DEF Levels
    <3>2. s \in 1 .. Last - 1
      BY <1>1, <3>1
    <3> QED
      BY <1>1, <3>1, <3>2
  <2>2. Moved(s)' <=> movingBeads'[s] = [i \in Moving |-> <<movingIndex[i], trial>>]
    BY <1>2 DEF Moved
  <2>3. CASE s \in LevelSlices(ilevel)
    BY <1>3, <2>1, <2>2, <2>3
  <2>4. CASE s \notin LevelSlices(ilevel)
    <3>1. l # ilevel
      BY <2>4
    <3>2. l > ilevel
      BY <1>2, <3>1, LevelAssumption DEF Levels
    <3>3. Moved(s)
      BY <1>2, <3>2 DEF SInv, MovedLevels
    <3> QED
      BY <1>3, <2>1, <2>2, <2>4, <3>3 DEF Moved
  <2> QED
    BY <2>3, <2>4
<1>9. SectionMatchesPermutation' /\ NoHalfMove'
  BY <1>2 DEF SInv, SectionMatchesPermutation, NoHalfMove
<1> QED
  BY <1>4, <1>5, <1>6, <1>7, <1>8, <1>9 DEF SInv

(* An accepted move enters the section: the ends as its permutation says,  *)
(* everything between them from this trial.                                *)
LEMMA SAcceptMove ==
  ASSUME SInv, AcceptMove
  PROVE  SInv'
<1> DEFINE ix == movingIndex
           p == permutation
           Taken(a) == \E i \in Moving : ix[i] = a
           At(a) == CHOOSE i \in Moving : ix[i] = a
<1>1. Last \in Nat \ {0} /\ Slices = 0 .. Last
      /\ \A l \in Levels : LevelSlices(l) \subseteq 1 .. Last - 1
  BY SliceFacts
<1>2. /\ pc = "accept" /\ pc' = "choose"
      /\ UNCHANGED <<movingBeads, trial, sampler, ilevel>>
      /\ sectionBeads' = [s \in Slices |-> [a \in Part |->
           IF Taken(a) THEN movingBeads[s][At(a)] ELSE sectionBeads[s][a]]]
      /\ sectionPermutation' = [a \in Part |->
           IF Taken(a) THEN sectionPermutation[ix[p[At(a)]]] ELSE sectionPermutation[a]]
  BY DEF AcceptMove, Appended
<1>3. /\ ix \in [Moving -> Part] /\ p \in [Moving -> Moving]
      /\ sectionBeads \in [Slices -> [Part -> Beadlike]]
      /\ sectionPermutation \in [Part -> Part] /\ trial \in Nat
  BY <1>2 DEF SInv, TrialIndex, Trying, Arrays
<1>4. \A a \in Part : Taken(a) => /\ At(a) \in Moving /\ ix[At(a)] = a
                                  /\ p[At(a)] \in Moving /\ ix[p[At(a)]] \in Part
  BY <1>3
<1>5. /\ movingBeads[0] = [i \in Moving |-> sectionBeads[0][ix[i]]]
      /\ movingBeads[Last] = [i \in Moving |-> sectionBeads[Last][ix[p[i]]]]
  BY <1>2 DEF SInv, TrialEnds, Trying
<1>6. \A s \in 1 .. Last - 1 : movingBeads[s] = [i \in Moving |-> <<ix[i], trial>>]
  BY <1>2, BisectionHolds DEF Bisection, SInv, MovedLevels, Moved, Trying
<1>7. /\ 0 \in Slices /\ Last \in Slices /\ 1 .. Last - 1 \subseteq Slices
      /\ \A s \in Slices : s = 0 \/ s = Last \/ s \in 1 .. Last - 1
  BY <1>1
<1>8. /\ sectionBeads[0] = [a \in Part |-> <<a, 0>>]
      /\ sectionBeads[Last] = [a \in Part |-> <<sectionPermutation[a], 0>>]
      /\ \A s \in 1 .. Last - 1, a \in Part : sectionBeads[s][a][1] = a
      /\ \A a \in Part : \A s, t \in 1 .. Last - 1 : sectionBeads[s][a] = sectionBeads[t][a]
  BY DEF SInv, SectionMatchesPermutation, NoHalfMove
<1> HIDE DEF Taken, At, ix, p
<1>9. \A a \in Part : sectionBeads'[0][a] = <<a, 0>>
  <2>1. \A a \in Part : Taken(a) => movingBeads[0][At(a)] = <<a, 0>>
    BY <1>4, <1>5, <1>8
  <2> QED
    BY <1>2, <1>7, <1>8, <2>1
<1>10. \A a \in Part : sectionBeads'[Last][a] = <<sectionPermutation'[a], 0>>
  <2>1. \A a \in Part : Taken(a) =>
          movingBeads[Last][At(a)] = <<sectionPermutation[ix[p[At(a)]]], 0>>
    BY <1>4, <1>5, <1>8
  <2> QED
    BY <1>2, <1>7, <1>8, <2>1
<1>11. \A s \in 1 .. Last - 1, a \in Part :
         sectionBeads'[s][a] = IF Taken(a) THEN <<a, trial>> ELSE sectionBeads[s][a]
  <2>1. ASSUME NEW s \in 1 .. Last - 1, NEW a \in Part, Taken(a)
        PROVE  movingBeads[s][At(a)] = <<a, trial>>
    <3>1. movingBeads[s] = [i \in Moving |-> <<ix[i], trial>>]
      BY <1>6
    <3>2. At(a) \in Moving /\ ix[At(a)] = a
      BY <1>4, <2>1
    <3> QED
      BY <3>1, <3>2
  <2> QED
    BY <1>2, <1>7, <2>1
<1>12. \A a \in Part : sectionPermutation'[a] \in Part
  BY <1>2, <1>3, <1>4
<1>13. \A s \in Slices, a \in Part : sectionBeads'[s][a] \in Beadlike
  <2>1. \A s \in Slices, a \in Part : sectionBeads[s][a] \in Beadlike
    BY <1>3
  <2>2. \A a \in Part, t \in Nat : <<a, t>> \in Beadlike
    BY DEF Beadlike
  <2>3. \A a \in Part : /\ <<a, 0>> \in Beadlike /\ <<a, trial>> \in Beadlike
                        /\ <<sectionPermutation'[a], 0>> \in Beadlike
    BY <1>3, <1>12, <2>2
  <2>4. ASSUME NEW s \in Slices, NEW a \in Part
        PROVE  sectionBeads'[s][a] \in Beadlike
    BY ZenonT(40), <1>7, <1>9, <1>10, <1>11, <2>1, <2>3
  <2> QED
    BY <2>4
<1>14. Control'
  BY ControlNext DEF SInv, Next
<1>15. Arrays'
  <2>1. sectionBeads' \in [Slices -> [Part -> Beadlike]]
    BY <1>2, <1>13
  <2>2. sectionPermutation' \in [Part -> Part]
    BY <1>2, <1>12
  <2> QED
    BY <1>2, <2>1, <2>2 DEF SInv, Arrays
<1>16. TrialIndex' /\ TrialEnds' /\ MovedLevels'
  BY <1>2 DEF TrialIndex, TrialEnds, MovedLevels, Trying
<1>17. SectionMatchesPermutation'
  <2>1. sectionBeads'[0] = [a \in Part |-> sectionBeads'[0][a]]
        /\ sectionBeads'[Last] = [a \in Part |-> sectionBeads'[Last][a]]
    BY <1>2, <1>7
  <2>2. ASSUME NEW s \in 1 .. Last - 1, NEW a \in Part
        PROVE  sectionBeads'[s][a][1] = a
    <3>1. sectionBeads[s][a][1] = a /\ <<a, trial>>[1] = a
      BY <1>8
    <3>2. sectionBeads'[s][a] = IF Taken(a) THEN <<a, trial>> ELSE sectionBeads[s][a]
      BY <1>11
    <3> QED
      BY <3>1, <3>2
  <2>3. sectionBeads'[0] = [a \in Part |-> <<a, 0>>]
        /\ sectionBeads'[Last] = [a \in Part |-> <<sectionPermutation'[a], 0>>]
    BY <1>9, <1>10, <2>1
  <2> QED
    BY <2>2, <2>3 DEF SectionMatchesPermutation
<1>18. NoHalfMove'
  <2> SUFFICES ASSUME NEW a \in Part, NEW s \in 1 .. Last - 1, NEW t \in 1 .. Last - 1
               PROVE  sectionBeads'[s][a] = sectionBeads'[t][a]
    BY DEF NoHalfMove
  <2>1. /\ sectionBeads'[s][a] = IF Taken(a) THEN <<a, trial>> ELSE sectionBeads[s][a]
        /\ sectionBeads'[t][a] = IF Taken(a) THEN <<a, trial>> ELSE sectionBeads[t][a]
    BY <1>11
  <2>2. sectionBeads[s][a] = sectionBeads[t][a]
    BY <1>8
  <2> QED
    BY <2>1, <2>2
<1> QED
  BY <1>14, <1>15, <1>16, <1>17, <1>18 DEF SInv

LEMMA SOther ==
  ASSUME SInv, Run \/ ChooseFails \/ LevelRejected \/ NextSampler
  PROVE  SInv'
<1>1. Control'
  BY ControlNext DEF SInv, Next
<1>2. UNCHANGED <<sectionBeads, sectionPermutation, trial>> /\ ~Trying'
      /\ (movingBeads' = movingBeads \/ DOMAIN movingBeads' = Slices)
  BY DEF Run, ChooseFails, LevelRejected, MakeMove, NextSampler, Trying, Unset
<1>3. Arrays'
  BY <1>2 DEF SInv, Arrays
<1>4. TrialIndex' /\ TrialEnds' /\ MovedLevels'
  BY <1>2 DEF TrialIndex, TrialEnds, MovedLevels
<1>5. SectionMatchesPermutation' /\ NoHalfMove'
  BY <1>2 DEF SInv, SectionMatchesPermutation, NoHalfMove
<1> QED
  BY <1>1, <1>3, <1>4, <1>5 DEF SInv

LEMMA SNext == SInv /\ [Next]_vars => SInv'
<1> SUFFICES ASSUME SInv, [Next]_vars
             PROVE  SInv'
  OBVIOUS
<1>1. CASE UNCHANGED vars
  <2>1. Control' /\ Arrays'
    BY <1>1 DEF vars, SInv, Control, Trying, Arrays
  <2>2. TrialIndex'
    BY <1>1 DEF vars, SInv, TrialIndex, Trying, Moving
  <2>3. TrialEnds'
    BY <1>1 DEF vars, SInv, TrialEnds, Trying, Moving
  <2>4. MovedLevels'
    BY <1>1 DEF vars, SInv, MovedLevels, Moved, Trying, Moving
  <2>5. SectionMatchesPermutation' /\ NoHalfMove'
    BY <1>1 DEF vars, SInv, SectionMatchesPermutation, NoHalfMove
  <2> QED
    BY <2>1, <2>2, <2>3, <2>4, <2>5 DEF SInv
<1>2. CASE Run \/ ChooseFails \/ LevelRejected \/ NextSampler
  BY <1>2, SOther
<1>3. CASE Choose
  BY <1>3, SChoose
<1>4. ASSUME NEW delayed \in BOOLEAN, LevelAccepted(delayed)
      PROVE  SInv'
  BY <1>4, SLevelAccepted
<1>5. CASE AcceptMove
  BY <1>5, SAcceptMove
<1> QED
  BY <1>1, <1>2, <1>3, <1>4, <1>5 DEF Next

LEMMA SInductive == Spec => []SInv
<1>1. Init => SInv
  BY SInit
<1>2. SInv /\ [Next]_vars => SInv'
  BY SNext
<1> QED
  BY <1>1, <1>2, PTL DEF Spec

(* What SectionChooser::run hands to putBeads after any list of samplers:  *)
(* ends that match the section permutation, and beads in between that      *)
(* have kept their labels.                                                 *)
THEOREM SectionCorrect == Spec => []SectionMatchesPermutation
<1>1. SInv => SectionMatchesPermutation
  BY DEF SInv
<1> QED
  BY <1>1, SInductive, PTL

(* No bead of a trial that MultiLevelSampler::tryMove gave up ever enters  *)
(* the section.                                                            *)
THEOREM MovesAreWhole == Spec => []NoHalfMove
<1>1. SInv => NoHalfMove
  BY DEF SInv
<1> QED
  BY <1>1, SInductive, PTL

-----------------------------------------------------------------------------
(* Types.  The number of trials is bounded by what the samplers have spent,*)
(* and the section permutation remains a bijection, which is what makes it *)
(* an exchange that putBeads may propagate.                                *)
Spent == nrepeat * (sampler - 1) + (IF pc = "run" THEN 0
                                    ELSE IF Trying THEN irepeat + 1 ELSE irepeat)

SpentInv == trial \in Nat /\ trial <= Spent

LEMMA SpentNext == Control /\ SpentInv /\ [Next]_vars => SpentInv'
<1> SUFFICES ASSUME Control, SpentInv, [Next]_vars
             PROVE  SpentInv'
  OBVIOUS
<1> USE LevelAssumption, ListAssumption DEF Control, Trying, Sampler, SpentInv, Spent
<1>1. CASE Run
  BY <1>1 DEF Run
<1>2. CASE ChooseFails
  BY <1>2 DEF ChooseFails
<1>3. CASE Choose
  BY <1>3 DEF Choose
<1>4. ASSUME NEW delayed \in BOOLEAN, LevelAccepted(delayed)
      PROVE  SpentInv'
  BY <1>4 DEF LevelAccepted
<1>5. CASE LevelRejected
  BY <1>5 DEF LevelRejected
<1>6. CASE AcceptMove
  BY <1>6 DEF AcceptMove
<1>7. CASE NextSampler
  <2>1. CASE sampler = Len(Samplers)
    BY <1>7, <2>1 DEF NextSampler
  <2>2. CASE sampler # Len(Samplers)
    <3>1. sampler' = sampler + 1 /\ pc' = "run" /\ trial' = trial /\ irepeat = nrepeat
          /\ pc = "choose"
      BY <1>7, <2>2 DEF NextSampler
    <3>2. nrepeat * ((sampler + 1) - 1) = nrepeat * (sampler - 1) + nrepeat
      OBVIOUS
    <3> QED
      BY <3>1, <3>2
  <2> QED
    BY <2>1, <2>2
<1>8. CASE UNCHANGED vars
  BY <1>8 DEF vars
<1> QED
  BY <1>1, <1>2, <1>3, <1>4, <1>5, <1>6, <1>7, <1>8 DEF Next

LEMMA SpentBounds == Control /\ SpentInv => trial \in 0 .. MaxTrial
<1> SUFFICES ASSUME Control, SpentInv
             PROVE  trial \in 0 .. MaxTrial
  OBVIOUS
<1> USE LevelAssumption, ListAssumption DEF Control, Trying, Sampler, SpentInv
<1>1. Spent <= nrepeat * (sampler - 1) + nrepeat
  BY DEF Spent
<1>2. nrepeat * (sampler - 1) + nrepeat = nrepeat * sampler
  OBVIOUS
<1>3. nrepeat * sampler <= nrepeat * Len(Samplers)
  OBVIOUS
<1>4. Spent \in Int /\ nrepeat * Len(Samplers) \in Nat
  BY DEF Spent
<1> QED
  BY <1>1, <1>2, <1>3, <1>4 DEF MaxTrial

(* The labels of a trial are fewer than the particles.                     *)
LEMMA FewMoving ==
  ASSUME NEW k \in Sampler
  PROVE  \A i \in 1 .. Samplers[k].nmoving : i - 1 \in Part
<1> DEFINE n == Cardinality(Part)
<1>1. n \in Nat /\ Part = 0 .. n - 1
  BY PartAssumption, FS_CardinalityType
<1>2. IsFiniteSet(Part)
  BY PartAssumption
<1>3. Samplers[k].pool \subseteq Part
      /\ Samplers[k].nmoving \in 1 .. Cardinality(Samplers[k].pool)
  BY SamplerAssumption DEF Sampler
<1>4. Cardinality(Samplers[k].pool) \in Nat /\ Cardinality(Samplers[k].pool) <= n
  BY <1>2, <1>3, FS_Subset, FS_CardinalityType
<1> QED
  BY <1>1, <1>3, <1>4

Stamped == \A s \in Slices, a \in Part : sectionBeads[s][a][2] \in 0 .. trial

TypeInv == /\ SInv /\ SpentInv /\ Stamped
           /\ sectionPermutation \in Perms(Part)
           /\ movingIndex \in [DOMAIN movingIndex -> Part]
           /\ Trying => permutation \in Perms(Moving)

(* The in-place update of the section permutation in tryMove re-joins the  *)
(* moving labels among themselves.                                         *)
LEMMA AppendedPerm ==
  ASSUME NEW sp \in Perms(Part), NEW ix \in [Moving -> Part], NEW p \in Perms(Moving),
         \A i, j \in Moving : ix[i] = ix[j] => i = j
  PROVE  Appended(sp, ix, p) \in Perms(Part)
<1> DEFINE Taken(a) == \E i \in Moving : ix[i] = a
           At(a) == CHOOSE i \in Moving : ix[i] = a
           q == Appended(sp, ix, p)
<1>1. /\ \A a \in Part : Taken(a) => At(a) \in Moving /\ ix[At(a)] = a
      /\ \A i \in Moving : Taken(ix[i]) /\ At(ix[i]) = i
  OBVIOUS
<1>2. q = [a \in Part |-> IF Taken(a) THEN sp[ix[p[At(a)]]] ELSE sp[a]]
  BY DEF Appended
<1> HIDE DEF Taken, At, q
<1>3. /\ \A i \in Moving : p[i] \in Moving /\ ix[i] \in Part
      /\ \A a \in Part : sp[a] \in Part
      /\ \A a, b \in Part : sp[a] = sp[b] => a = b
      /\ \A i, j \in Moving : p[i] = p[j] => i = j
      /\ \A c \in Part : \E a \in Part : sp[a] = c
      /\ \A j \in Moving : \E i \in Moving : p[i] = j
  BY DEF Perms
<1>4. \A a \in Part : Taken(a) => q[a] = sp[ix[p[At(a)]]] /\ ix[p[At(a)]] \in Part
                                  /\ Taken(ix[p[At(a)]]) /\ p[At(a)] \in Moving
  BY <1>1, <1>2, <1>3
<1>5. \A a \in Part : ~Taken(a) => q[a] = sp[a]
  BY <1>2
<1>6. ASSUME NEW a \in Part, NEW b \in Part, q[a] = q[b]
      PROVE  a = b
  <2>1. CASE Taken(a) /\ Taken(b)
    <3>1. ix[p[At(a)]] = ix[p[At(b)]]
      BY SMTT(30), <1>3, <1>4, <1>6, <2>1
    <3>2. p[At(a)] = p[At(b)]
      BY <1>4, <2>1, <3>1
    <3>3. At(a) = At(b)
      BY <1>1, <1>3, <2>1, <3>2
    <3> QED
      BY <1>1, <2>1, <3>3
  <2>2. CASE Taken(a) /\ ~Taken(b)
    <3>1. ix[p[At(a)]] = b
      BY <1>3, <1>4, <1>5, <1>6, <2>2
    <3> QED
      BY <1>4, <2>2, <3>1
  <2>3. CASE ~Taken(a) /\ Taken(b)
    <3>1. ix[p[At(b)]] = a
      BY <1>3, <1>4, <1>5, <1>6, <2>3
    <3> QED
      BY <1>4, <2>3, <3>1
  <2>4. CASE ~Taken(a) /\ ~Taken(b)
    BY <1>3, <1>5, <1>6, <2>4
  <2> QED
    BY <2>1, <2>2, <2>3, <2>4
<1>7. ASSUME NEW c \in Part
      PROVE  \E a \in Part : q[a] = c
  <2>1. PICK d \in Part : sp[d] = c
    BY <1>3
  <2>2. CASE Taken(d)
    <3>1. PICK m \in Moving : p[m] = At(d)
      BY <1>1, <1>3, <2>2
    <3>2. ix[m] \in Part /\ Taken(ix[m]) /\ At(ix[m]) = m
      BY <1>1, <1>3
    <3>3. q[ix[m]] = sp[ix[p[m]]]
      BY <1>4, <3>2
    <3>4. q[ix[m]] = c
      BY <1>1, <2>1, <2>2, <3>1, <3>3
    <3> QED
      BY <3>2, <3>4
  <2>3. CASE ~Taken(d)
    BY <1>5, <2>1, <2>3
  <2> QED
    BY <2>2, <2>3
<1>8. \A a \in Part : q[a] \in Part
  BY <1>3, <1>4, <1>5
<1>9. q \in [Part -> Part]
  BY <1>2, <1>8
<1>10. q \in Perms(Part)
  BY <1>6, <1>7, <1>9 DEF Perms
<1> QED
  BY <1>10 DEF q

LEMMA TypeInit == Init => TypeInv
<1> SUFFICES ASSUME Init PROVE TypeInv
  OBVIOUS
<1>1. SInv
  BY SInit
<1>2. SpentInv
  BY LevelAssumption DEF Init, SpentInv, Spent, Trying
<1>3. Stamped
  BY DEF Init, Stamped
<1>4. sectionPermutation \in Perms(Part)
  BY DEF Init, Identity, Perms
<1>5. movingIndex \in [DOMAIN movingIndex -> Part]
  <2>1. sampler \in Sampler /\ movingIndex = [i \in Moving |-> i - 1]
    BY <1>1 DEF Init, SInv, Control
  <2>2. \A i \in Moving : i - 1 \in Part
    BY <2>1, FewMoving DEF Moving
  <2> QED
    BY <2>1, <2>2
<1>6. ~Trying
  BY DEF Init, Trying
<1> QED
  BY <1>1, <1>2, <1>3, <1>4, <1>5, <1>6 DEF TypeInv

LEMMA TypeNext == TypeInv /\ [Next]_vars => TypeInv'
<1> SUFFICES ASSUME TypeInv, [Next]_vars
             PROVE  TypeInv'
  OBVIOUS
<1>1. SInv' /\ Control /\ SInv
  BY SNext DEF TypeInv, SInv
<1>2. SpentInv'
  BY <1>1, SpentNext DEF TypeInv
<1>3. CASE Choose
  <2>1. PICK ix \in Chosen, p \in Samplers[sampler].perms :
          movingIndex' = ix /\ permutation' = p
    BY <1>3 DEF Choose
  <2>2. /\ UNCHANGED <<sectionBeads, sectionPermutation, sampler>>
        /\ trial' = trial + 1 /\ Moving' = Moving
    BY <1>3 DEF Choose, Moving
  <2>3. /\ Samplers[sampler].pool \subseteq Part
        /\ Samplers[sampler].perms \subseteq Perms(Moving)
    BY <1>1, SamplerAssumption DEF Control, Sampler, Moving
  <2>4. movingIndex' \in [DOMAIN movingIndex' -> Part]
    BY <2>1, <2>3 DEF Chosen
  <2>5. permutation' \in Perms(Moving)'
    BY <2>1, <2>2, <2>3
  <2>6. Stamped'
    BY <2>2 DEF TypeInv, Stamped, SpentInv
  <2>7. sectionPermutation' \in Perms(Part)
    BY <2>2 DEF TypeInv
  <2> QED
    BY <1>1, <1>2, <2>4, <2>5, <2>6, <2>7 DEF TypeInv
<1>4. CASE AcceptMove
  <2>1. Trying /\ ~Trying' /\ UNCHANGED <<movingIndex, trial>>
    BY <1>4 DEF AcceptMove, Trying
  <2>2. sectionPermutation' \in Perms(Part)
    <3>1. sectionPermutation' = Appended(sectionPermutation, movingIndex, permutation)
      BY <1>4 DEF AcceptMove
    <3>2. /\ movingIndex \in [Moving -> Part] /\ permutation \in Perms(Moving)
          /\ \A i, j \in Moving : movingIndex[i] = movingIndex[j] => i = j
          /\ sectionPermutation \in Perms(Part)
      BY <2>1 DEF TypeInv, SInv, TrialIndex
    <3> QED
      BY <3>1, <3>2, AppendedPerm
  <2>3. Stamped'
    <3> SUFFICES ASSUME NEW s \in Slices, NEW a \in Part
                 PROVE  sectionBeads'[s][a][2] \in 0 .. trial
      BY <2>1 DEF Stamped
    <3>1. trial \in Nat /\ sectionBeads[s][a][2] \in 0 .. trial
      BY DEF TypeInv, Stamped, SpentInv
    <3>2. CASE s = 0 \/ s = Last
      <4>1. sectionBeads'[s][a] = <<a, 0>>
            \/ sectionBeads'[s][a] = <<sectionPermutation'[a], 0>>
        BY <1>1, <3>2 DEF SInv, SectionMatchesPermutation
      <4> QED
        BY <3>1, <4>1
    <3>3. CASE s \in 1 .. Last - 1
      <4>1. movingBeads[s] = [i \in Moving |-> <<movingIndex[i], trial>>]
        BY <1>1, <1>4, <3>3, BisectionHolds
           DEF Bisection, SInv, MovedLevels, Moved, Trying, AcceptMove
      <4>2. CASE \E i \in Moving : movingIndex[i] = a
        <5> DEFINE i == CHOOSE i \in Moving : movingIndex[i] = a
        <5>1. i \in Moving
          BY <4>2
        <5>2. sectionBeads'[s][a] = movingBeads[s][i]
          BY <1>4, <4>2 DEF AcceptMove
        <5> HIDE DEF i
        <5>3. sectionBeads'[s][a] = <<movingIndex[i], trial>>
          BY <4>1, <5>1, <5>2
        <5> QED
          BY <3>1, <5>3
      <4>3. CASE ~ \E i \in Moving : movingIndex[i] = a
        <5>1. sectionBeads'[s][a] = sectionBeads[s][a]
          BY <1>4, <4>3 DEF AcceptMove
        <5> QED
          BY <3>1, <5>1
      <4> QED
        BY <4>2, <4>3
    <3> QED
      BY <3>2, <3>3, SliceFacts
  <2>4. movingIndex' \in [DOMAIN movingIndex' -> Part]
    BY <2>1 DEF TypeInv
  <2> QED
    BY <1>1, <1>2, <2>1, <2>2, <2>3, <2>4 DEF TypeInv
<1>5. ASSUME UNCHANGED <<sectionBeads, sectionPermutation, movingIndex, permutation,
                         trial>>,
             Trying' => Trying /\ UNCHANGED sampler
      PROVE  TypeInv'
  <2>1. Stamped'
    BY <1>5 DEF TypeInv, Stamped
  <2>2. Trying' => permutation' \in Perms(Moving)'
    BY <1>5 DEF TypeInv, Moving
  <2>3. movingIndex' \in [DOMAIN movingIndex' -> Part]
        /\ sectionPermutation' \in Perms(Part)
    BY <1>5 DEF TypeInv
  <2> QED
    BY <1>1, <1>2, <2>1, <2>2, <2>3 DEF TypeInv
<1>6. CASE Run
  BY <1>5, <1>6 DEF Run, Trying
<1>7. CASE ChooseFails
  BY <1>5, <1>7 DEF ChooseFails, Trying
<1>8. ASSUME NEW delayed \in BOOLEAN, LevelAccepted(delayed)
      PROVE  TypeInv'
  BY <1>5, <1>8 DEF LevelAccepted, Trying
<1>9. CASE LevelRejected
  BY <1>5, <1>9 DEF LevelRejected, Trying
<1>10. CASE NextSampler
  BY <1>5, <1>10 DEF NextSampler, Trying
<1>11. CASE UNCHANGED vars
  BY <1>5, <1>11 DEF vars, Trying
<1> QED
  BY <1>3, <1>4, <1>6, <1>7, <1>8, <1>9, <1>10, <1>11 DEF Next

LEMMA TypeInvGivesTypes == TypeInv => TypeOK
<1> SUFFICES ASSUME TypeInv PROVE TypeOK
  OBVIOUS
<1>1. trial \in 0 .. MaxTrial /\ trial \in Nat
  BY SpentBounds DEF TypeInv, SInv, SpentInv
<1>0. MaxTrial \in Nat
  BY LevelAssumption, ListAssumption DEF MaxTrial
<1>2. sectionBeads \in [Slices -> [Part -> Part \X (0 .. MaxTrial)]]
  <2>1. sectionBeads \in [Slices -> [Part -> Part \X Nat]]
    BY DEF TypeInv, SInv, Arrays, Beadlike
  <2>2. ASSUME NEW s \in Slices, NEW a \in Part
        PROVE  sectionBeads[s][a] \in Part \X (0 .. MaxTrial)
    <3>1. sectionBeads[s][a] \in Part \X Nat
      BY <2>1
    <3>2. sectionBeads[s][a][2] \in 0 .. trial
      BY DEF TypeInv, Stamped
    <3>3. 0 .. trial \subseteq 0 .. MaxTrial
      BY <1>0, <1>1
    <3> QED
      BY <3>1, <3>2, <3>3
  <2> QED
    BY <2>1, <2>2
<1> QED
  BY <1>1, <1>2 DEF TypeOK, TypeInv, SInv, Arrays, Control

(* The section permutation is always an exchange of labels, and a section  *)
(* never holds a bead that is not one of its particles'.                   *)
THEOREM TypeCorrect == Spec => []TypeOK
<1>1. Init => TypeInv
  BY TypeInit
<1>2. TypeInv /\ [Next]_vars => TypeInv'
  BY TypeNext
<1> QED
  BY <1>1, <1>2, TypeInvGivesTypes, PTL DEF Spec
=============================================================================
