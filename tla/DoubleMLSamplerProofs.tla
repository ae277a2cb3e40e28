----------------------- MODULE DoubleMLSamplerProofs -----------------------
(***************************************************************************)
(* What DoubleMLSampler leaves for putDoubleBeads, and what the fixed node *)
(* restriction guarantees of the moves it accepts, for every number of     *)
(* particles, levels and trials and every list of samplers.                *)
(***************************************************************************)
EXTENDS DoubleMLSampler, DataLemmas, FiniteSetTheorems

(* A trial is under way, and its moves on level l are made and accepted.   *)
Trying == pc \in {"level", "delayed", "accept"}
Done(l) == pc = "accept" \/ l > ilevel

Control ==
  /\ setup \in Setups /\ sampler \in Sampler /\ ilevel \in Levels
  /\ pc \in {"run", "choose", "level", "delayed", "accept", "put"}
  /\ pc = "delayed" => ilevel = nlevel - 1

LEMMA SetupFacts ==
  ASSUME setup \in Setups
  PROVE  /\ nlevel \in Nat /\ Powers(nlevel)
         /\ Len(Samplers) \in Nat \ {0} /\ Sampler = 1 .. Len(Samplers)
         /\ \A k \in Sampler : IsSampler(Samplers[k])
BY SetupAssumption, PowerAssumption DEF nlevel, Samplers, Sampler, Powers

LEMMA ControlInit == Init => Control
BY SetupFacts DEF Init, Control, Levels

(* The setup never changes, and all that is computed from it.              *)
LEMMA Frame ==
  ASSUME setup' = setup
  PROVE  /\ nlevel' = nlevel /\ Levels' = Levels /\ Last' = Last /\ Slices' = Slices
         /\ Samplers' = Samplers /\ Sampler' = Sampler
         /\ UseUpdates' = UseUpdates /\ WithNodalAction' = WithNodalAction
         /\ Careful' = Careful
         /\ \A l \in Levels : /\ LevelSlices(l)' = LevelSlices(l)
                              /\ CheckedSlices(l)' = CheckedSlices(l)
<1>1. /\ nlevel' = nlevel /\ Samplers' = Samplers
      /\ UseUpdates' = UseUpdates /\ WithNodalAction' = WithNodalAction
  BY DEF nlevel, Samplers, UseUpdates, WithNodalAction
<1>2. Levels' = Levels /\ Last' = Last /\ Sampler' = Sampler
  BY <1>1 DEF Levels, Last, nsectionSlice, Sampler
<1>3. Slices' = Slices
  BY <1>2 DEF Slices
<1>4. Careful' = Careful
  BY <1>1, <1>2 DEF Careful
<1>5. \A l \in Levels : /\ LevelSlices(l)' = LevelSlices(l)
                        /\ CheckedSlices(l)' = CheckedSlices(l)
  BY <1>2 DEF LevelSlices, CheckedSlices
<1> QED
  BY <1>1, <1>2, <1>3, <1>4, <1>5

LEMMA FrameTrial ==
  ASSUME UNCHANGED <<setup, sampler>>
  PROVE  Moving' = Moving /\ Sampled' = Sampled /\ Samplers'[sampler'] = Samplers[sampler]
BY Frame DEF Moving, Sampled, samplingBoth

LEMMA ControlNext == Control /\ [Next]_vars => Control'
<1> SUFFICES ASSUME Control, [Next]_vars
             PROVE  Control'
  OBVIOUS
<1>1. setup' = setup
  BY DEF Next, vars, sectionVars, Run, ChooseFails, Choose, LevelAccepted,
         LevelRejected, AcceptMove, NextSampler
<1>2. /\ nlevel' = nlevel /\ Levels' = Levels /\ Sampler' = Sampler
      /\ nlevel \in Nat /\ Levels = 0 .. nlevel
      /\ Len(Samplers) \in Nat \ {0} /\ Sampler = 1 .. Len(Samplers)
  BY <1>1, Frame, SetupFacts DEF Control, Levels
<1> USE <1>1, <1>2 DEF Control
<1>3. CASE Run
  BY <1>3 DEF Run
<1>4. CASE ChooseFails
  BY <1>4 DEF ChooseFails
<1>5. CASE Choose
  BY SMTT(30), <1>5 DEF Choose
<1>6. CASE LevelAccepted
  BY <1>6 DEF LevelAccepted
<1>7. CASE LevelRejected
  BY <1>7 DEF LevelRejected
<1>8. CASE AcceptMove
  BY <1>8 DEF AcceptMove
<1>9. CASE NextSampler
  BY <1>9 DEF NextSampler
<1>10. CASE UNCHANGED vars
  BY <1>10 DEF vars
<1> QED
  BY <1>3, <1>4, <1>5, <1>6, <1>7, <1>8, <1>9, <1>10 DEF Next

-----------------------------------------------------------------------------
(* The slices of a level.  Every slice behind the first is checked on some *)
(* level, the last one on the highest.                                     *)
LEMMA SliceFacts ==
  ASSUME setup \in Setups
  PROVE  /\ Last \in Nat \ {0} /\ Slices = 0 .. Last
         /\ \A l \in Levels : /\ LevelSlices(l) \subseteq 1 .. Last - 1
                              /\ LevelSlices(l) \subseteq CheckedSlices(l)
                              /\ CheckedSlices(l) \subseteq 1 .. Last
         /\ \A s \in 1 .. Last - 1 : \E l \in 0 .. nlevel - 1 : s \in LevelSlices(l)
         /\ CheckedSlices(nlevel) = {Last}
<1>1. nlevel \in Nat /\ Powers(nlevel)
  BY SetupFacts
<1>2. \A l \in Levels : 2 ^ l \in Nat \ {0}
  BY <1>1, PowerPositive DEF Levels
<1>3. Last = 2 ^ nlevel /\ Last \in Nat \ {0} /\ nlevel \in Levels
  BY <1>1, <1>2 DEF Last, nsectionSlice, Levels
<1>4. ASSUME NEW l \in Levels
      PROVE  /\ LevelSlices(l) \subseteq 1 .. Last - 1
             /\ LevelSlices(l) \subseteq CheckedSlices(l)
             /\ CheckedSlices(l) \subseteq 1 .. Last
  <2> DEFINE p == 2 ^ l
  <2>1. p \in Nat \ {0}
    BY <1>2
  <2>2. \A s \in LevelSlices(l) : s \in 1 .. Last - p
    BY DEF LevelSlices
  <2>3. \A s \in LevelSlices(l) : \E k \in 0 .. Last : s = (2 * k + 1) * 2 ^ l
    BY DEF LevelSlices
  <2> HIDE DEF p
  <2>4. \A s \in LevelSlices(l) : s \in 1 .. Last - 1 /\ s \in 1 .. Last
    BY <1>3, <2>1, <2>2
  <2> QED
    BY <2>3, <2>4 DEF CheckedSlices
<1>5. ASSUME NEW s \in 1 .. Last - 1
      PROVE  \E l \in 0 .. nlevel - 1 : s \in LevelSlices(l)
  <2>1. PICK l \in 0 .. nlevel - 1 : \E k \in 0 .. 2 ^ nlevel :
               s = (2 * k + 1) * 2 ^ l /\ s <= 2 ^ nlevel - 2 ^ l
    BY <1>1, <1>3, BisectionCovers
  <2>2. 2 ^ l \in Nat
    BY <1>1, PowerPositive
  <2>3. s \in 1 .. Last - 2 ^ l
    BY <1>3, <2>1, <2>2
  <2> QED
    BY <1>3, <2>1, <2>3 DEF LevelSlices
<1>6. CheckedSlices(nlevel) = {Last}
  <2>1. ASSUME NEW s \in CheckedSlices(nlevel)
        PROVE  s = Last
    <3>1. PICK k \in 0 .. Last : s = (2 * k + 1) * Last /\ s \in 1 .. Last
      BY <1>3 DEF CheckedSlices
    <3>2. k = 0
      <4>1. k > 0 => (2 * k + 1) * Last > Last
        BY <1>3
      <4> QED
        BY <1>3, <3>1, <4>1
    <3> QED
      BY <1>3, <3>1, <3>2
  <2>2. Last \in CheckedSlices(nlevel)
    <3>1. Last = (2 * 0 + 1) * 2 ^ nlevel
      BY <1>3
    <3>2. Last \in 1 .. Last /\ 0 \in 0 .. Last
      BY <1>3
    <3> QED
      BY <3>1, <3>2 DEF CheckedSlices
  <2> QED
    BY <2>1, <2>2
<1> QED
  BY <1>3, <1>4, <1>5, <1>6 DEF Slices

-----------------------------------------------------------------------------
(* The sections.                                                           *)
Arrays == \A x \in Side :
  /\ DOMAIN movingBeads[x] = Slices
  /\ sectionPermutation[x] \in [Part -> Part]
  /\ \A s \in Slices : sectionBeads[x][s] = [a \in Part |-> sectionBeads[x][s][a]]

(* What a trial has in hand on the sides it samples.                       *)
InHand(x) ==
  /\ movingIndex[x] \in [Moving -> Samplers[sampler].pool]
  /\ \A i, j \in Moving : movingIndex[x][i] = movingIndex[x][j] => i = j
  /\ permutation[x] \in Samplers[sampler].perms
  /\ movingBeads[x][0] = [i \in Moving |-> sectionBeads[x][0][movingIndex[x][i]]]
  /\ movingBeads[x][Last] =
       [i \in Moving |-> sectionBeads[x][Last][movingIndex[x][permutation[x][i]]]]
OwnLabels(x, s) == \A i \in Moving : movingBeads[x][s][i][1] = movingIndex[x][i]

TrialInHand == Trying => \A x \in Sampled : InHand(x)
MovedLevels == Trying => \A x \in Sampled, l \in 0 .. nlevel - 1 :
                           Done(l) => \A s \in LevelSlices(l) : OwnLabels(x, s)

SInv == /\ Control /\ Arrays /\ TrialInHand /\ MovedLevels
        /\ SectionsMatchPermutations

LEMMA SInit == Init => SInv
<1> SUFFICES ASSUME Init PROVE SInv
  OBVIOUS
<1>1. setup \in Setups
  BY DEF Init
<1>2. Last \in Nat \ {0} /\ Slices = 0 .. Last
  BY <1>1, SliceFacts
<1>3. /\ \A x \in Side, s \in Slices : sectionBeads[x][s] = [a \in Part |-> <<a, 0>>]
      /\ \A x \in Side : sectionPermutation[x] = [a \in Part |-> a]
      /\ \A x \in Side : DOMAIN movingBeads[x] = Slices
  BY DEF Init, Identity
<1>4. Control
  BY ControlInit
<1>5. Arrays
  BY <1>3 DEF Arrays
<1>6. TrialInHand /\ MovedLevels
  BY DEF Init, TrialInHand, MovedLevels, Trying
<1>7. SectionsMatchPermutations
  <2> SUFFICES ASSUME NEW x \in Side
               PROVE  /\ sectionBeads[x][0] = [a \in Part |-> <<a, 0>>]
                      /\ sectionBeads[x][Last] =
                           [a \in Part |-> <<sectionPermutation[x][a], 0>>]
                      /\ \A s \in 1 .. Last - 1, a \in Part : sectionBeads[x][s][a][1] = a
    BY DEF SectionsMatchPermutations
  <2>1. 0 \in Slices /\ Last \in Slices /\ 1 .. Last - 1 \subseteq Slices
    BY <1>2
  <2>2. [a \in Part |-> <<sectionPermutation[x][a], 0>>] = [a \in Part |-> <<a, 0>>]
    <3>1. sectionPermutation[x] = [a \in Part |-> a]
      BY <1>3
    <3> QED
      BY <3>1
  <2>3. ASSUME NEW s \in 1 .. Last - 1, NEW a \in Part
        PROVE  sectionBeads[x][s][a][1] = a
    <3>1. sectionBeads[x][s] = [b \in Part |-> <<b, 0>>]
      BY <1>3, <2>1
    <3> QED
      BY <3>1
  <2> QED
    BY <1>3, <2>1, <2>2, <2>3
<1> QED
  BY <1>4, <1>5, <1>6, <1>7 DEF SInv

(* Choosing a trial copies the ends that belong to its labels.             *)
LEMMA SChoose ==
  ASSUME SInv, Choose
  PROVE  SInv'
<1>1. setup' = setup /\ setup \in Setups /\ sampler' = sampler /\ sampler \in Sampler
  BY DEF Choose, sectionVars, SInv, Control
<1>2. Last \in Nat \ {0} /\ Slices = 0 .. Last /\ nlevel \in Nat
  BY <1>1, SliceFacts, SetupFacts
<1>3. PICK ix \in [Sampled -> Chosen], p \in [Sampled -> Samplers[sampler].perms] :
        /\ movingIndex' = [x \in Side |-> IF x \in Sampled THEN ix[x] ELSE movingIndex[x]]
        /\ permutation' = [x \in Side |-> IF x \in Sampled THEN p[x] ELSE permutation[x]]
        /\ movingBeads' =
             [x \in Side |->
                IF x \notin Sampled THEN movingBeads[x]
                ELSE [movingBeads[x] EXCEPT
                        ![0] = [i \in Moving |-> sectionBeads[x][0][movingIndex'[x][i]]],
                        ![Last] = [i \in Moving |->
                          sectionBeads[x][Last][movingIndex'[x][permutation'[x][i]]]]]]
  BY DEF Choose
<1>4. UNCHANGED <<sectionBeads, sectionPermutation>> /\ pc' = "level" /\ ilevel' = nlevel
  BY DEF Choose, sectionVars
<1>5. /\ Last' = Last /\ Slices' = Slices /\ nlevel' = nlevel
      /\ Moving' = Moving /\ Sampled' = Sampled /\ Samplers'[sampler'] = Samplers[sampler]
  BY <1>1, Frame, FrameTrial
<1>6. Control'
  BY ControlNext DEF SInv, Next
<1>7. Arrays'
  <2>1. \A x \in Side : DOMAIN movingBeads'[x] = Slices
    BY <1>3 DEF SInv, Arrays
  <2> QED
    BY <1>4, <1>5, <2>1 DEF SInv, Arrays
<1>8. ASSUME NEW x \in Sampled
      PROVE  InHand(x)'
  <2>1. x \in Side
    BY DEF Sampled, Side
  <2>2. movingIndex'[x] = ix[x] /\ permutation'[x] = p[x]
    BY <1>3, <2>1
  <2>3. ix[x] \in [Moving -> Samplers[sampler].pool]
        /\ \A i, j \in Moving : ix[x][i] = ix[x][j] => i = j
    BY DEF Chosen
  <2>4. DOMAIN movingBeads[x] = Slices /\ 0 \in Slices /\ Last \in Slices /\ Last # 0
    BY <1>2, <2>1 DEF SInv, Arrays
  <2>5. /\ movingBeads'[x][0] = [i \in Moving |-> sectionBeads[x][0][movingIndex'[x][i]]]
        /\ movingBeads'[x][Last] = [i \in Moving |->
             sectionBeads[x][Last][movingIndex'[x][permutation'[x][i]]]]
    BY <1>3, <2>1, <2>4
  <2> QED
    BY SMTT(30), <1>4, <1>5, <2>2, <2>3, <2>5 DEF InHand
<1>9. TrialInHand'
  BY <1>5, <1>8 DEF TrialInHand
<1>10. MovedLevels'
  <2>1. \A l \in 0 .. nlevel - 1 : ~Done(l)'
    BY <1>2, <1>4 DEF Done
  <2> QED
    BY <1>5, <2>1 DEF MovedLevels
<1>11. SectionsMatchPermutations'
  BY <1>4, <1>5 DEF SInv, SectionsMatchPermutations
<1> QED
  BY <1>6, <1>7, <1>9, <1>10, <1>11 DEF SInv

(* A level moves its own slices on the sampled sides and leaves those of   *)
(* the levels before it, and the ends, alone.                              *)
LEMMA MadeMoveIs ==
  ASSUME SInv, NEW x \in Side, NEW s \in Slices
  PROVE  MadeMove[x][s] = IF x \in Sampled /\ s \in LevelSlices(ilevel)
                          THEN [i \in Moving |-> <<movingIndex[x][i], trial>>]
                          ELSE movingBeads[x][s]
BY DEF MadeMove

LEMMA LevelStep ==
  ASSUME SInv, LevelAccepted \/ LevelRejected
  PROVE  /\ UNCHANGED <<setup, sampler, sectionBeads, sectionPermutation, movingIndex,
                        permutation, dmValue, dist>>
         /\ pc \in {"level", "delayed"} /\ Trying /\ ilevel \in Levels
         /\ movingBeads' = MadeMove
         /\ Trying' => \A l \in Levels : Done(l)' => Done(l) \/ l = ilevel
         /\ Trying' /\ LevelRejected =>
              pc' = "delayed" /\ ilevel = nlevel - 1 /\ ilevel' = ilevel
<1>1. Control
  BY DEF SInv
<1>2. nlevel \in Nat /\ Levels = 0 .. nlevel
  BY <1>1, SetupFacts DEF Control, Levels
<1>3. pc \in {"level", "delayed"}
      /\ UNCHANGED <<setup, sampler, sectionBeads, sectionPermutation, movingIndex,
                     permutation, dmValue, dist>>
      /\ movingBeads' = MadeMove
  BY DEF LevelAccepted, LevelRejected, sectionVars
<1>4. LevelRejected =>
        /\ ilevel' = ilevel
        /\ (pc' = "delayed" /\ ilevel = nlevel - 1) \/ pc' = "choose"
  BY DEF LevelRejected
<1>5. LevelAccepted => \/ pc' = "accept" /\ ilevel = 0
                       \/ pc' = "level" /\ ilevel' = ilevel - 1
  BY DEF LevelAccepted
<1>6. Trying' => \A l \in Levels : Done(l)' => Done(l) \/ l = ilevel
  BY <1>1, <1>2, <1>4, <1>5 DEF Control, Trying, Done
<1>7. Trying' /\ LevelRejected => pc' = "delayed" /\ ilevel = nlevel - 1 /\ ilevel' = ilevel
  BY <1>4 DEF Trying
<1> QED
  BY <1>1, <1>3, <1>6, <1>7 DEF Control, Trying

LEMMA SLevel ==
  ASSUME SInv, LevelAccepted \/ LevelRejected
  PROVE  SInv'
<1>1. setup \in Setups
  BY DEF SInv, Control
<1>2. Last \in Nat \ {0} /\ Slices = 0 .. Last /\ nlevel \in Nat /\ Levels = 0 .. nlevel
      /\ \A l \in Levels : LevelSlices(l) \subseteq 1 .. Last - 1
  BY <1>1, SliceFacts, SetupFacts DEF Levels
<1>3. /\ UNCHANGED <<setup, sampler, sectionBeads, sectionPermutation, movingIndex,
                     permutation>>
      /\ Trying /\ ilevel \in Levels /\ movingBeads' = MadeMove
      /\ Trying' => \A l \in Levels : Done(l)' => Done(l) \/ l = ilevel
  BY LevelStep
<1>4. /\ Last' = Last /\ Slices' = Slices /\ nlevel' = nlevel
      /\ Moving' = Moving /\ Sampled' = Sampled /\ Samplers'[sampler'] = Samplers[sampler]
      /\ \A l \in Levels : LevelSlices(l)' = LevelSlices(l)
  BY <1>3, Frame, FrameTrial
<1>5. Control'
  BY ControlNext DEF SInv, Next
<1>6. Arrays'
  <2>1. \A x \in Side : DOMAIN movingBeads'[x] = Slices
    BY <1>3 DEF SInv, Arrays, MadeMove
  <2> QED
    BY <1>3, <1>4, <2>1 DEF SInv, Arrays
<1>7. ASSUME NEW x \in Sampled
      PROVE  InHand(x)'
  <2>1. x \in Side /\ InHand(x)
    BY <1>3 DEF Sampled, Side, SInv, TrialInHand
  <2>2. 0 \in Slices /\ Last \in Slices
        /\ 0 \notin LevelSlices(ilevel) /\ Last \notin LevelSlices(ilevel)
    BY <1>2, <1>3
  <2>3. movingBeads'[x][0] = movingBeads[x][0] /\ movingBeads'[x][Last] = movingBeads[x][Last]
    BY <1>3, <2>1, <2>2, MadeMoveIs
  <2> QED
    BY <1>3, <1>4, <2>1, <2>3 DEF InHand
<1>8. TrialInHand'
  BY <1>4, <1>7 DEF TrialInHand
<1>9. ASSUME Trying', NEW x \in Sampled, NEW l \in 0 .. nlevel - 1, Done(l)',
             NEW s \in LevelSlices(l), NEW i \in Moving
      PROVE  movingBeads'[x][s][i][1] = movingIndex'[x][i]
  <2>1. x \in Side /\ l \in Levels /\ s \in Slices
    <3>1. l \in Levels
      BY <1>2
    <3>2. s \in 1 .. Last - 1
      BY <1>2, <3>1
    <3> QED
      BY <1>2, <3>1, <3>2 DEF Sampled, Side
  <2>2. CASE s \in LevelSlices(ilevel)
    <3>1. movingBeads'[x][s] = [j \in Moving |-> <<movingIndex[x][j], trial>>]
      BY <1>3, <2>1, <2>2, MadeMoveIs
    <3> QED
      BY <1>3, <3>1
  <2>3. CASE s \notin LevelSlices(ilevel)
    <3>1. movingBeads'[x][s] = movingBeads[x][s]
      BY <1>3, <2>1, <2>3, MadeMoveIs
    <3>2. Done(l)
      BY <1>3, <1>9, <2>1, <2>3
    <3>3. OwnLabels(x, s)
      BY <1>3, <3>2 DEF SInv, MovedLevels
    <3> QED
      BY <1>3, <3>1, <3>3 DEF OwnLabels
  <2> QED
    BY <2>2, <2>3
<1>10. MovedLevels'
  <2>1. \A l \in 0 .. nlevel - 1 : LevelSlices(l)' = LevelSlices(l)
    BY <1>2, <1>4
  <2> SUFFICES ASSUME Trying', NEW x \in Sampled, NEW l \in 0 .. nlevel - 1, Done(l)',
                      NEW s \in LevelSlices(l)
               PROVE  OwnLabels(x, s)'
    BY <1>4, <2>1 DEF MovedLevels
  <2> QED
    BY <1>4, <1>9 DEF OwnLabels
<1>11. SectionsMatchPermutations'
  BY <1>3, <1>4 DEF SInv, SectionsMatchPermutations
<1> QED
  BY <1>5, <1>6, <1>8, <1>10, <1>11 DEF SInv

(* An accepted move enters the sections: the ends as its permutations say, *)
(* everything between them under its own labels.                           *)
LEMMA SAcceptMove ==
  ASSUME SInv, AcceptMove
  PROVE  SInv'
<1>1. setup \in Setups /\ sampler \in Sampler
  BY DEF SInv, Control
<1>2. /\ Last \in Nat \ {0} /\ Slices = 0 .. Last
      /\ \A l \in Levels : LevelSlices(l) \subseteq 1 .. Last - 1
      /\ \A s \in 1 .. Last - 1 : \E l \in 0 .. nlevel - 1 : s \in LevelSlices(l)
  BY <1>1, SliceFacts
<1>3. /\ UNCHANGED <<setup, sampler, movingBeads>> /\ pc = "accept" /\ ~Trying' /\ Trying
      /\ sectionBeads' =
           [x \in Side |-> [s \in Slices |->
              IF x \in Sampled
              THEN With(sectionBeads[x][s], movingIndex[x], movingBeads[x][s])
              ELSE sectionBeads[x][s]]]
      /\ sectionPermutation' =
           [x \in Side |-> IF x \in Sampled
                  THEN Appended(sectionPermutation[x], movingIndex[x], permutation[x])
                  ELSE sectionPermutation[x]]
  BY DEF AcceptMove, movingVars, Trying, AppendedPermutations
<1>4. Last' = Last /\ Slices' = Slices /\ nlevel' = nlevel
  BY <1>3, Frame
<1>5. Control'
  BY ControlNext DEF SInv, Next
<1>6. ASSUME NEW x \in Side, x \in Sampled
      PROVE  /\ sectionPermutation'[x] \in [Part -> Part]
             /\ \A s \in Slices :
                  sectionBeads'[x][s] = [a \in Part |-> sectionBeads'[x][s][a]]
             /\ sectionBeads'[x][0] = [a \in Part |-> <<a, 0>>]
             /\ sectionBeads'[x][Last] = [a \in Part |-> <<sectionPermutation'[x][a], 0>>]
             /\ \A s \in 1 .. Last - 1, a \in Part : sectionBeads'[x][s][a][1] = a
  <2> DEFINE ix == movingIndex[x]
             p == permutation[x]
             sp == sectionPermutation[x]
             Taken(a) == \E i \in Moving : ix[i] = a
             At(a) == CHOOSE i \in Moving : ix[i] = a
  <2>1. /\ ix \in [Moving -> Part] /\ p \in [Moving -> Moving] /\ sp \in [Part -> Part]
    <3>1. InHand(x)
      BY <1>3, <1>6 DEF SInv, TrialInHand
    <3>2. IsSampler(Samplers[sampler])
      BY <1>1, SetupFacts
    <3>3. Samplers[sampler].pool \subseteq Part
          /\ Samplers[sampler].perms \subseteq Perms(Moving)
      BY <3>2 DEF IsSampler, Moving
    <3>4. p \in Perms(Moving)
      BY <3>1, <3>3 DEF InHand
    <3> QED
      BY <3>1, <3>3, <3>4 DEF InHand, Perms, SInv, Arrays
  <2>2. /\ movingBeads[x][0] = [i \in Moving |-> sectionBeads[x][0][ix[i]]]
        /\ movingBeads[x][Last] = [i \in Moving |-> sectionBeads[x][Last][ix[p[i]]]]
    BY <1>3, <1>6 DEF SInv, TrialInHand, InHand
  <2>3. ASSUME NEW s \in 1 .. Last - 1, NEW i \in Moving
        PROVE  movingBeads[x][s][i][1] = ix[i]
    <3>1. PICK l \in 0 .. nlevel - 1 : s \in LevelSlices(l)
      BY <1>2
    <3>2. OwnLabels(x, s)
      BY <1>3, <1>6, <3>1 DEF SInv, MovedLevels, Done
    <3> QED
      BY <3>2 DEF OwnLabels
  <2>4. \A s \in Slices : sectionBeads[x][s] = [a \in Part |-> sectionBeads[x][s][a]]
    BY DEF SInv, Arrays
  <2>5. /\ sectionBeads[x][0] = [a \in Part |-> <<a, 0>>]
        /\ sectionBeads[x][Last] = [a \in Part |-> <<sp[a], 0>>]
        /\ \A s \in 1 .. Last - 1, a \in Part : sectionBeads[x][s][a][1] = a
    BY DEF SInv, SectionsMatchPermutations
  <2>6. \A s \in Slices :
          sectionBeads'[x][s] = [a \in Part |-> IF Taken(a) THEN movingBeads[x][s][At(a)]
                                                ELSE sectionBeads[x][s][a]]
    <3> SUFFICES ASSUME NEW s \in Slices
                 PROVE  sectionBeads'[x][s] =
                          [a \in Part |-> IF Taken(a) THEN movingBeads[x][s][At(a)]
                                          ELSE sectionBeads[x][s][a]]
      OBVIOUS
    <3>1. DOMAIN sectionBeads[x][s] = Part
      BY <2>4
    <3>2. sectionBeads'[x][s] = With(sectionBeads[x][s], ix, movingBeads[x][s])
      BY <1>3, <1>6
    <3> QED
      BY <3>1, <3>2 DEF With
  <2>7. sectionPermutation'[x] = [a \in Part |-> IF Taken(a) THEN sp[ix[p[At(a)]]] ELSE sp[a]]
    BY <1>3, <1>6 DEF Appended
  <2>8. \A a \in Part : Taken(a) => /\ At(a) \in Moving /\ ix[At(a)] = a
                                    /\ p[At(a)] \in Moving /\ ix[p[At(a)]] \in Part
    BY <2>1
  <2> HIDE DEF ix, p, sp, Taken, At
  <2>9. 0 \in Slices /\ Last \in Slices /\ 1 .. Last - 1 \subseteq Slices
    BY <1>2
  <2>10. \A a \in Part : sectionPermutation'[x][a] \in Part
    BY <2>1, <2>7, <2>8
  <2>11. \A a \in Part : sectionBeads'[x][0][a] = <<a, 0>>
    <3>1. \A a \in Part : Taken(a) => movingBeads[x][0][At(a)] = <<a, 0>>
      BY <2>2, <2>5, <2>8
    <3>2. \A a \in Part : sectionBeads[x][0][a] = <<a, 0>>
      BY <2>5
    <3>3. sectionBeads'[x][0] = [a \in Part |-> IF Taken(a) THEN movingBeads[x][0][At(a)]
                                                ELSE sectionBeads[x][0][a]]
      BY <2>6, <2>9
    <3> QED
      BY <3>1, <3>2, <3>3
  <2>12. \A a \in Part : sectionBeads'[x][Last][a] = <<sectionPermutation'[x][a], 0>>
    <3>1. \A a \in Part : Taken(a) => movingBeads[x][Last][At(a)] = <<sp[ix[p[At(a)]]], 0>>
      BY <2>2, <2>5, <2>8
    <3>2. \A a \in Part : sectionBeads[x][Last][a] = <<sp[a], 0>>
      BY <2>5
    <3>3. sectionBeads'[x][Last] =
            [a \in Part |-> IF Taken(a) THEN movingBeads[x][Last][At(a)]
                            ELSE sectionBeads[x][Last][a]]
      BY <2>6, <2>9
    <3> QED
      BY <2>7, <3>1, <3>2, <3>3
  <2>13. ASSUME NEW s \in 1 .. Last - 1, NEW a \in Part
         PROVE  sectionBeads'[x][s][a][1] = a
    <3>1. Taken(a) => movingBeads[x][s][At(a)][1] = a
      BY <2>3, <2>8
    <3>2. sectionBeads[x][s][a][1] = a
      BY <2>5
    <3>3. sectionBeads'[x][s][a] = IF Taken(a) THEN movingBeads[x][s][At(a)]
                                   ELSE sectionBeads[x][s][a]
      BY <2>6, <2>9
    <3> QED
      BY <3>1, <3>2, <3>3
  <2>14. sectionPermutation'[x] \in [Part -> Part]
    BY <2>7, <2>10
  <2>15. ASSUME NEW s \in Slices
         PROVE  sectionBeads'[x][s] = [a \in Part |-> sectionBeads'[x][s][a]]
    BY <2>6
  <2>16. /\ sectionBeads'[x][0] = [a \in Part |-> <<a, 0>>]
         /\ sectionBeads'[x][Last] = [a \in Part |-> <<sectionPermutation'[x][a], 0>>]
    BY <2>9, <2>11, <2>12, <2>15
  <2> QED
    BY <2>13, <2>14, <2>15, <2>16
<1>7. ASSUME NEW x \in Side, x \notin Sampled
      PROVE  sectionPermutation'[x] = sectionPermutation[x]
             /\ \A s \in Slices : sectionBeads'[x][s] = sectionBeads[x][s]
  BY <1>3, <1>7
<1>8. Arrays'
  <2> SUFFICES ASSUME NEW x \in Side
               PROVE  /\ DOMAIN movingBeads'[x] = Slices
                      /\ sectionPermutation'[x] \in [Part -> Part]
                      /\ \A s \in Slices :
                           sectionBeads'[x][s] = [a \in Part |-> sectionBeads'[x][s][a]]
    BY <1>4 DEF Arrays
  <2>1. CASE x \in Sampled
    BY <1>3, <1>6, <2>1 DEF SInv, Arrays
  <2>2. CASE x \notin Sampled
    BY <1>3, <1>7, <2>2 DEF SInv, Arrays
  <2> QED
    BY <2>1, <2>2
<1>9. TrialInHand' /\ MovedLevels'
  BY <1>3 DEF TrialInHand, MovedLevels
<1>10. SectionsMatchPermutations'
  <2> SUFFICES ASSUME NEW x \in Side
               PROVE  /\ sectionBeads'[x][0] = [a \in Part |-> <<a, 0>>]
                      /\ sectionBeads'[x][Last] =
                           [a \in Part |-> <<sectionPermutation'[x][a], 0>>]
                      /\ \A s \in 1 .. Last - 1, a \in Part : sectionBeads'[x][s][a][1] = a
    BY <1>4 DEF SectionsMatchPermutations
  <2>1. CASE x \in Sampled
    BY <1>6, <2>1
  <2>2. CASE x \notin Sampled
    <3>1. 0 \in Slices /\ Last \in Slices /\ 1 .. Last - 1 \subseteq Slices
      BY <1>2
    <3>2. /\ sectionBeads[x][0] = [a \in Part |-> <<a, 0>>]
          /\ sectionBeads[x][Last] = [a \in Part |-> <<sectionPermutation[x][a], 0>>]
          /\ \A s \in 1 .. Last - 1, a \in Part : sectionBeads[x][s][a][1] = a
      BY DEF SInv, SectionsMatchPermutations
    <3> QED
      BY <1>7, <2>2, <3>1, <3>2
  <2> QED
    BY <2>1, <2>2
<1> QED
  BY <1>5, <1>8, <1>9, <1>10 DEF SInv

LEMMA SOther ==
  ASSUME SInv, Run \/ ChooseFails \/ NextSampler
  PROVE  SInv'
<1>1. Control'
  BY ControlNext DEF SInv, Next
<1>2. UNCHANGED <<setup, sectionBeads, sectionPermutation>> /\ ~Trying'
      /\ \A x \in Side : movingBeads'[x] = movingBeads[x] \/ DOMAIN movingBeads'[x] = Slices
  BY DEF Run, ChooseFails, NextSampler, Trying, sectionVars, movingVars
<1>3. Last' = Last /\ Slices' = Slices
  BY <1>2, Frame
<1>4. Arrays'
  BY <1>2, <1>3 DEF SInv, Arrays
<1>5. TrialInHand' /\ MovedLevels'
  BY <1>2 DEF TrialInHand, MovedLevels
<1>6. SectionsMatchPermutations'
  BY <1>2, <1>3 DEF SInv, SectionsMatchPermutations
<1> QED
  BY <1>1, <1>4, <1>5, <1>6 DEF SInv

LEMMA SStutter == SInv /\ UNCHANGED vars => SInv'
<1> SUFFICES ASSUME SInv, UNCHANGED vars
             PROVE  SInv'
  OBVIOUS
<1> USE DEF vars, sectionVars, movingVars
<1>1. Control'
  BY ControlNext DEF SInv
<1>2. /\ Last' = Last /\ Slices' = Slices /\ nlevel' = nlevel
      /\ Moving' = Moving /\ Sampled' = Sampled /\ Samplers'[sampler'] = Samplers[sampler]
      /\ \A l \in Levels : LevelSlices(l)' = LevelSlices(l)
  BY Frame, FrameTrial
<1>3. nlevel \in Nat /\ 0 .. nlevel - 1 \subseteq Levels
  BY SetupFacts DEF SInv, Control, Levels
<1>4. Arrays'
  BY <1>2 DEF SInv, Arrays
<1>5. ASSUME NEW x \in Sampled, InHand(x)
      PROVE  InHand(x)'
  BY <1>2, <1>5 DEF InHand
<1>6. TrialInHand'
  BY <1>2, <1>5 DEF SInv, TrialInHand, Trying
<1>7. MovedLevels'
  <2> SUFFICES ASSUME Trying, NEW x \in Sampled, NEW l \in 0 .. nlevel - 1, Done(l),
                      NEW s \in LevelSlices(l)
               PROVE  OwnLabels(x, s)'
    BY <1>2, <1>3 DEF MovedLevels, Trying, Done
  <2> QED
    BY <1>2 DEF SInv, MovedLevels, OwnLabels
<1>8. SectionsMatchPermutations'
  BY <1>2 DEF SInv, SectionsMatchPermutations
<1> QED
  BY <1>1, <1>4, <1>6, <1>7, <1>8 DEF SInv

LEMMA SNext == SInv /\ [Next]_vars => SInv'
BY SChoose, SLevel, SAcceptMove, SOther, SStutter DEF Next

(* What DoubleSectionChooser::run hands to putDoubleBeads after any list of *)
(* samplers, of one section or both: ends that match the two permutations, *)
(* and beads in between that have kept their labels.                       *)
THEOREM SectionsCorrect == Spec => []SectionsMatchPermutations
<1>1. SInv => SectionsMatchPermutations
  BY DEF SInv
<1> QED
  BY <1>1, SInit, SNext, PTL DEF Spec

-----------------------------------------------------------------------------
(* The fixed node action.  Moved(mv, Sampled, s) is the configuration a    *)
(* trial would leave on slice s.                                           *)
LEMMA SomeMoving ==
  ASSUME setup \in Setups, sampler \in Sampler
  PROVE  1 \in Moving
<1>1. IsSampler(Samplers[sampler])
  BY SetupFacts
<1>2. Cardinality(Samplers[sampler].pool) \in Nat
  BY <1>1, SetupAssumption, FS_Subset, FS_CardinalityType DEF IsSampler
<1> QED
  BY <1>1, <1>2 DEF IsSampler, Moving

(* A trial that puts back what the section has leaves it as it is.         *)
LEMMA MovedSame ==
  ASSUME NEW mv, NEW s,
         \A x \in Sampled, a \in Species :
           With(sectionBeads[x][s], movingIndex[x], mv[x][s])[a] = sectionBeads[x][s][a]
  PROVE  Moved(mv, Sampled, s) = Config(sectionBeads, s)
<1>1. ASSUME NEW x \in Side
      PROVE  OfSpecies(IF x \in Sampled
                       THEN With(sectionBeads[x][s], movingIndex[x], mv[x][s])
                       ELSE sectionBeads[x][s]) = OfSpecies(sectionBeads[x][s])
  <2>1. CASE x \in Sampled
    BY <2>1 DEF OfSpecies
  <2>2. CASE x \notin Sampled
    BY <2>2
  <2> QED
    BY <2>1, <2>2
<1> QED
  BY <1>1 DEF Moved, Config

LEMMA MovedElsewhere ==
  ASSUME NEW mv, NEW mw, NEW s, \A x \in Side : mv[x][s] = mw[x][s]
  PROVE  Moved(mv, Sampled, s) = Moved(mw, Sampled, s)
BY DEF Moved

LEMMA MovedFrame ==
  ASSUME UNCHANGED <<setup, sampler, sectionBeads, movingIndex>>, NEW s
  PROVE  Moved(movingBeads, Sampled, s)' = Moved(movingBeads', Sampled, s)
BY FrameTrial DEF Moved, With

LEMMA Labels ==
  ASSUME SInv, NEW x \in Side, NEW s \in Slices
  PROVE  DOMAIN sectionBeads[x][s] = Part /\ Species \subseteq Part
<1>1. sectionBeads[x][s] = [a \in Part |-> sectionBeads[x][s][a]]
  BY DEF SInv, Arrays
<1>2. DOMAIN [a \in Part |-> sectionBeads[x][s][a]] = Part
  OBVIOUS
<1>3. DOMAIN sectionBeads[x][s] = Part
  BY <1>1, <1>2
<1> QED
  BY <1>3, SetupAssumption

(* A trial that moves none of the species on side 1 moves none at all.     *)
LEMMA NoneMoved ==
  ASSUME SInv, Careful, Trying, NoneOfMine, NEW mv, NEW s \in Slices
  PROVE  Moved(mv, Sampled, s) = Config(sectionBeads, s)
<1>1. setup \in Setups /\ sampler \in Sampler
  BY DEF SInv, Control
<1>2. 1 \in Moving /\ Sampled \subseteq Side /\ 1 \in Sampled
  BY <1>1, SomeMoving DEF Sampled, Side
<1>3. \A x \in Sampled : movingIndex[x] \in [Moving -> Samplers[sampler].pool]
  BY DEF SInv, TrialInHand, InHand
<1>4. ASSUME NEW x \in Sampled, NEW i \in Moving
      PROVE  movingIndex[x][i] \notin Species
  <2>1. CASE x = 1
    BY <2>1 DEF NoneOfMine
  <2>2. CASE x # 1
    <3>1. Samplers[sampler].both
      BY <2>2 DEF Sampled, samplingBoth
    <3>2. movingIndex[1][1] \in Samplers[sampler].pool /\ movingIndex[1][1] \notin Species
      BY <1>2, <1>3 DEF NoneOfMine
    <3>3. Samplers[sampler].pool \cap Species = {}
      BY <1>1, <3>1, <3>2 DEF Careful
    <3> QED
      BY <1>3, <3>3
  <2> QED
    BY <2>1, <2>2
<1>5. ASSUME NEW x \in Sampled, NEW a \in Species
      PROVE  With(sectionBeads[x][s], movingIndex[x], mv[x][s])[a] = sectionBeads[x][s][a]
  <2>1. DOMAIN sectionBeads[x][s] = Part /\ a \in Part
    BY <1>2, Labels
  <2>2. ~ \E i \in Moving : movingIndex[x][i] = a
    BY <1>4
  <2> QED
    BY <2>1, <2>2 DEF With
<1> QED
  BY <1>5, MovedSame

(* The first slice is never moved, nor the last one by a plain move.       *)
LEMMA EndsStay ==
  ASSUME SInv, Trying, NEW s \in {0, Last},
         s = Last => \A x \in Sampled : permutation[x] = Identity(Moving)
  PROVE  Moved(movingBeads, Sampled, s) = Config(sectionBeads, s)
<1>1. Last \in Slices /\ 0 \in Slices /\ Sampled \subseteq Side
  BY SliceFacts DEF SInv, Control, Sampled, Side
<1>2. ASSUME NEW x \in Sampled, NEW a \in Species
      PROVE  With(sectionBeads[x][s], movingIndex[x], movingBeads[x][s])[a]
               = sectionBeads[x][s][a]
  <2>1. DOMAIN sectionBeads[x][s] = Part /\ a \in Part
    BY <1>1, Labels
  <2>2. movingBeads[x][s] = [i \in Moving |-> sectionBeads[x][s][movingIndex[x][i]]]
    <3>1. InHand(x)
      BY DEF SInv, TrialInHand
    <3>2. CASE s = 0
      BY <3>1, <3>2 DEF InHand
    <3>3. CASE s = Last
      <4>1. \A i \in Moving : permutation[x][i] = i
        BY <3>3 DEF Identity
      <4>2. movingBeads[x][Last] =
              [i \in Moving |-> sectionBeads[x][Last][movingIndex[x][permutation[x][i]]]]
        BY <3>1 DEF InHand
      <4>3. movingBeads[x][Last] = [i \in Moving |-> sectionBeads[x][Last][movingIndex[x][i]]]
        BY <4>1, <4>2
      <4> QED
        BY <3>3, <4>3
    <3> QED
      BY <3>2, <3>3
  <2>3. CASE \E i \in Moving : movingIndex[x][i] = a
    <3> DEFINE j == CHOOSE i \in Moving : movingIndex[x][i] = a
    <3>1. j \in Moving /\ movingIndex[x][j] = a
      BY <2>3
    <3>2. With(sectionBeads[x][s], movingIndex[x], movingBeads[x][s])[a] = movingBeads[x][s][j]
      BY <2>1, <2>3 DEF With
    <3> HIDE DEF j
    <3> QED
      BY <2>2, <3>1, <3>2
  <2>4. CASE ~ \E i \in Moving : movingIndex[x][i] = a
    BY <2>1, <2>4 DEF With
  <2> QED
    BY <2>3, <2>4
<1> QED
  BY <1>2, MovedSame

(* What a careful input file asks of matrix updates.                       *)
LEMMA PlainMoves ==
  ASSUME SInv, Careful, Trying, ~NoneOfMine, UseUpdates
  PROVE  Sampled = {1} /\ \A x \in Sampled : permutation[x] = Identity(Moving)
<1>1. sampler \in Sampler /\ 1 \in Sampled
  BY DEF SInv, Control, Sampled, Side
<1>2. PICK i \in Moving : movingIndex[1][i] \in Species
  BY DEF NoneOfMine
<1>3. movingIndex[1][i] \in Samplers[sampler].pool
  BY <1>1 DEF SInv, TrialInHand, InHand
<1>4. ~Samplers[sampler].both
      /\ Samplers[sampler].perms \subseteq {Identity(1 .. Samplers[sampler].nmoving)}
  BY <1>1, <1>2, <1>3 DEF Careful
<1>5. \A x \in Sampled : permutation[x] \in Samplers[sampler].perms
  BY DEF SInv, TrialInHand, InHand
<1> QED
  BY <1>4, <1>5 DEF Sampled, samplingBoth, Moving

-----------------------------------------------------------------------------
(* What the action knows in a careful input file.                          *)
Reference == \A s \in Slices :
  /\ dmValue[s] = Config(sectionBeads, s)
  /\ WithNodalAction => dist[s] = Config(sectionBeads, s)
FirstSlice == /\ newDMValue[0] = Config(sectionBeads, 0)
              /\ newDist[0] = Config(sectionBeads, 0)
Inverses == UseUpdates => \A s \in Slices : matrix[s] = Config(sectionBeads, s)

(* Determinant and matrix (its changed columns phi) are those of the move. *)
Holds(ndm, ph, mat, mv, s) ==
  /\ ndm[s] = Moved(mv, Sampled, s)
  /\ (IF UseUpdates THEN ph[s] ELSE mat[s]) = Moved(mv, Sampled, s)
Tested(s) == Holds(newDMValue, phi, matrix, movingBeads, s)
TestedLevels ==
  Trying /\ ~NoneOfMine =>
    \A l \in Levels : Done(l) => \A s \in CheckedSlices(l) : Tested(s)

(* On the lowest level the distances are evaluated, and with them the new  *)
(* inverse matrices.                                                       *)
Distances ==
  /\ isNewMatrixUpdated <=> WithNodalAction
  /\ WithNodalAction => \A s \in 1 .. Last : newMatrix[s] = Moved(movingBeads, Sampled, s)
Finished ==
  pc = "accept" =>
    /\ notMySpecies <=> NoneOfMine
    /\ ~NoneOfMine =>
         /\ UseUpdates => Distances
         /\ WithNodalAction =>
              \A s \in 1 .. Last : newDist[s] = Moved(movingBeads, Sampled, s)

NodeInv ==
  SInv /\ (Careful => Reference /\ FirstSlice /\ Inverses /\ TestedLevels /\ Finished)

LEMMA NodeInit == Init => NodeInv
<1> SUFFICES ASSUME Init PROVE NodeInv
  OBVIOUS
<1>1. SInv
  BY SInit
<1>2. 0 \in Slices
  BY SliceFacts DEF Init
<1>3. Reference /\ FirstSlice /\ Inverses
  BY <1>2 DEF Init, Reference, FirstSlice, Inverses
<1>4. TestedLevels /\ Finished
  BY DEF Init, TestedLevels, Finished, Trying
<1> QED
  BY <1>1, <1>3, <1>4 DEF NodeInv

(* One evaluation of the action: it tests the slices it checks.            *)
LEMMA EvaluateTests ==
  ASSUME NodeInv, Careful, Trying, ~NoneOfMine,
         NEW mv, NEW s0, NEW full \in BOOLEAN, Evaluate(mv, s0, full),
         NEW s \in Slices, s \in CheckedSlices(ilevel) /\ s <= s0
  PROVE  Holds(newDMValue', phi', matrix', mv, s)
<1>1. CASE UseUpdates
  <2>1. Sampled = {1}
    BY <1>1, PlainMoves DEF NodeInv
  <2>2. matrix[s] = Config(sectionBeads, s) /\ dmValue[s] = Config(sectionBeads, s)
    BY <1>1 DEF NodeInv, Reference, Inverses
  <2>3. phi'[s] = Moved(mv, {1}, s)
        /\ newDMValue'[s] = IF dmValue[s] = Config(sectionBeads, s)
                            THEN Updated(matrix[s], s, Moved(mv, {1}, s)) ELSE Wrong
    BY <1>1 DEF Evaluate
  <2> QED
    BY <1>1, <2>1, <2>2, <2>3 DEF Updated, Holds
<1>2. CASE ~UseUpdates
  BY <1>2 DEF Evaluate, Holds
<1> QED
  BY <1>1, <1>2

(* ... and leaves what was tested before alone.                            *)
LEMMA EvaluateKeeps ==
  ASSUME ~NoneOfMine, NEW mv, NEW s0, NEW full \in BOOLEAN, Evaluate(mv, s0, full),
         NEW s \in Slices, ~(s \in CheckedSlices(ilevel) /\ s <= s0)
  PROVE  /\ newDMValue'[s] = newDMValue[s]
         /\ UseUpdates => phi'[s] = phi[s]
         /\ ~UseUpdates => matrix'[s] = matrix[s]
BY DEF Evaluate

LEMMA TestedStays ==
  ASSUME NodeInv, Careful, Trying, ~NoneOfMine,
         NEW s0, NEW full \in BOOLEAN, Evaluate(MadeMove, s0, full),
         NEW s \in Slices, s \notin LevelSlices(ilevel), Tested(s)
  PROVE  Holds(newDMValue', phi', matrix', MadeMove, s)
<1>1. CASE s \in CheckedSlices(ilevel) /\ s <= s0
  BY <1>1, EvaluateTests
<1>2. CASE ~(s \in CheckedSlices(ilevel) /\ s <= s0)
  <2>1. \A x \in Side : MadeMove[x][s] = movingBeads[x][s]
    BY MadeMoveIs DEF NodeInv
  <2>2. Moved(MadeMove, Sampled, s) = Moved(movingBeads, Sampled, s)
    BY <2>1, MovedElsewhere
  <2> QED
    BY <1>2, <2>2, EvaluateKeeps DEF Tested, Holds
<1> QED
  BY <1>1, <1>2

LEMMA TestedNext ==
  ASSUME UNCHANGED <<setup, sampler, sectionBeads, movingIndex>>, NEW s,
         Holds(newDMValue', phi', matrix', movingBeads', s)
  PROVE  Tested(s)'
<1>1. Moved(movingBeads, Sampled, s)' = Moved(movingBeads', Sampled, s)
  BY MovedFrame
<1>2. UseUpdates' = UseUpdates
  BY Frame
<1> QED
  BY <1>1, <1>2 DEF Tested, Holds

LEMMA EverySliceChecked ==
  ASSUME setup \in Setups, NEW s \in 1 .. Last
  PROVE  \E l \in Levels : s \in CheckedSlices(l)
<1>1. nlevel \in Nat /\ Levels = 0 .. nlevel
  BY SetupFacts DEF Levels
<1>2. /\ Last \in Nat \ {0} /\ CheckedSlices(nlevel) = {Last}
      /\ \A l \in Levels : LevelSlices(l) \subseteq CheckedSlices(l)
      /\ \A t \in 1 .. Last - 1 : \E l \in 0 .. nlevel - 1 : t \in LevelSlices(l)
  BY SliceFacts
<1>3. CASE s = Last
  BY <1>1, <1>2, <1>3
<1>4. CASE s # Last
  <2>1. s \in 1 .. Last - 1
    BY <1>2, <1>4
  <2>2. PICK l \in 0 .. nlevel - 1 : s \in LevelSlices(l)
    BY <1>2, <2>1
  <2>3. l \in Levels
    BY <1>1
  <2> QED
    BY <1>2, <2>2, <2>3
<1> QED
  BY <1>3, <1>4

(* Whatever is evaluated, the reference stays, and slice 0.                *)
LEMMA EvaluateFrame ==
  ASSUME setup \in Setups, NEW mv, NEW s0, NEW full \in BOOLEAN, ilevel \in Levels,
         Evaluate(mv, s0, full)
  PROVE  /\ newDMValue'[0] = newDMValue[0] /\ newDist'[0] = newDist[0]
         /\ UseUpdates => matrix' = matrix
         /\ notMySpecies' <=> NoneOfMine
<1>1. 0 \in Slices /\ 0 \notin CheckedSlices(ilevel)
  BY SliceFacts
<1>2. CASE NoneOfMine
  BY <1>2 DEF Evaluate
<1>3. CASE ~NoneOfMine /\ UseUpdates
  BY <1>1, <1>3 DEF Evaluate
<1>4. CASE ~NoneOfMine /\ ~UseUpdates
  BY <1>1, <1>4 DEF Evaluate
<1> QED
  BY <1>2, <1>3, <1>4

LEMMA NLevel ==
  ASSUME NodeInv, LevelAccepted \/ LevelRejected
  PROVE  NodeInv'
<1>1. SInv /\ setup \in Setups /\ nlevel \in Nat /\ Levels = 0 .. nlevel
  BY SetupFacts DEF NodeInv, SInv, Control, Levels
<1>2. SInv'
  BY <1>1, SLevel
<1>3. /\ UNCHANGED <<setup, sampler, sectionBeads, sectionPermutation, movingIndex,
                     permutation, dmValue, dist>>
      /\ pc \in {"level", "delayed"} /\ Trying /\ ilevel \in Levels
      /\ movingBeads' = MadeMove
      /\ Trying' => \A l \in Levels : Done(l)' => Done(l) \/ l = ilevel
      /\ Trying' /\ LevelRejected =>
           pc' = "delayed" /\ ilevel = nlevel - 1 /\ ilevel' = ilevel
  BY <1>1, LevelStep
<1>4. /\ Last' = Last /\ Slices' = Slices /\ nlevel' = nlevel /\ Levels' = Levels
      /\ UseUpdates' = UseUpdates /\ WithNodalAction' = WithNodalAction /\ Careful' = Careful
      /\ Moving' = Moving /\ Sampled' = Sampled
      /\ \A l \in Levels : CheckedSlices(l)' = CheckedSlices(l)
  BY <1>3, Frame, FrameTrial
<1>5. NoneOfMine' <=> NoneOfMine
  BY <1>3, <1>4 DEF NoneOfMine
<1>6. /\ Last \in Nat \ {0} /\ Slices = 0 .. Last
      /\ \A l \in Levels : /\ LevelSlices(l) \subseteq 1 .. Last - 1
                           /\ LevelSlices(l) \subseteq CheckedSlices(l)
                           /\ CheckedSlices(l) \subseteq 1 .. Last
      /\ \A s \in 1 .. Last - 1 : \E l \in 0 .. nlevel - 1 : s \in LevelSlices(l)
      /\ CheckedSlices(nlevel) = {Last}
  BY <1>1, SliceFacts
<1>7. \E s0 \in Slices : \E full \in BOOLEAN :
        Evaluate(MadeMove, s0, full) /\ (LevelAccepted => s0 = Last /\ full = TRUE)
  <2>0. Last \in Slices /\ CheckedSlices(ilevel) \subseteq Slices
    BY <1>3, <1>6
  <2>1. CASE LevelAccepted
    BY <2>0, <2>1 DEF LevelAccepted
  <2>2. CASE ~LevelAccepted
    <3>1. \/ \E s0 \in CheckedSlices(ilevel) : Evaluate(MadeMove, s0, FALSE)
          \/ Evaluate(MadeMove, Last, TRUE)
      BY <2>2 DEF LevelRejected
    <3> QED
      BY <2>0, <2>2, <3>1
  <2> QED
    BY <2>1, <2>2
<1>8. PICK s0 \in Slices : \E full \in BOOLEAN :
        Evaluate(MadeMove, s0, full) /\ (LevelAccepted => s0 = Last /\ full = TRUE)
  BY <1>7
<1>9. PICK full \in BOOLEAN :
        Evaluate(MadeMove, s0, full) /\ (LevelAccepted => s0 = Last /\ full = TRUE)
  BY <1>8
<1>10. SUFFICES ASSUME Careful
               PROVE  Reference' /\ FirstSlice' /\ Inverses' /\ TestedLevels' /\ Finished'
  BY <1>2, <1>4 DEF NodeInv
<1>11. Reference' /\ FirstSlice' /\ Inverses'
  <2>1. /\ newDMValue'[0] = newDMValue[0] /\ newDist'[0] = newDist[0]
        /\ UseUpdates => matrix' = matrix
    BY <1>1, <1>3, <1>9, EvaluateFrame
  <2>2. Reference /\ FirstSlice /\ Inverses
    BY <1>10 DEF NodeInv
  <2>3. \A s : Config(sectionBeads, s)' = Config(sectionBeads, s)
    BY <1>3 DEF Config
  <2> QED
    BY <1>3, <1>4, <2>1, <2>2, <2>3 DEF Reference, FirstSlice, Inverses
<1>12. ASSUME Trying', ~NoneOfMine, NEW l \in Levels, Done(l)', NEW s \in CheckedSlices(l)
       PROVE  Holds(newDMValue', phi', matrix', MadeMove, s)
  <2>1. s \in 1 .. Last /\ s \in Slices
    BY <1>6
  <2>2. CASE LevelAccepted
    <3>1. CASE s \in CheckedSlices(ilevel)
      <4>1. s <= s0
        BY <1>6, <1>9, <2>1, <2>2
      <4> QED
        BY <1>3, <1>9, <1>10, <1>12, <2>1, <3>1, <4>1, EvaluateTests
    <3>2. CASE s \notin CheckedSlices(ilevel)
      <4>1. Done(l)
        BY <1>3, <1>12, <3>2
      <4>2. Tested(s)
        BY <1>3, <1>10, <1>12, <4>1 DEF NodeInv, TestedLevels
      <4>3. s \notin LevelSlices(ilevel)
        BY <1>3, <1>6, <3>2
      <4> QED
        BY <1>3, <1>9, <1>10, <1>12, <2>1, <4>2, <4>3, TestedStays
    <3> QED
      BY <3>1, <3>2
  <2>3. CASE LevelRejected
    <3>1. pc = "level" \/ pc = "delayed"
      BY <1>3
    <3>2. ilevel = nlevel - 1 /\ l > ilevel
      BY <1>3, <1>12, <2>3 DEF Done
    <3>3. l = nlevel /\ s = Last
      BY <1>1, <1>6, <3>2
    <3>4. Tested(s)
      BY <1>3, <1>10, <1>12, <3>2 DEF NodeInv, TestedLevels, Done
    <3>5. s \notin LevelSlices(ilevel)
      BY <1>3, <1>6, <3>3
    <3> QED
      BY <1>3, <1>9, <1>10, <1>12, <2>1, <3>4, <3>5, TestedStays
  <2> QED
    BY <2>2, <2>3
<1>13. TestedLevels'
  <2> SUFFICES ASSUME Trying', ~NoneOfMine, NEW l \in Levels, Done(l)',
                      NEW s \in CheckedSlices(l)
               PROVE  Tested(s)'
    BY <1>4, <1>5 DEF TestedLevels
  <2>1. Holds(newDMValue', phi', matrix', movingBeads', s)
    BY <1>3, <1>12
  <2> QED
    BY <1>3, <2>1, TestedNext
<1>14. Finished'
  <2> SUFFICES ASSUME pc' = "accept"
               PROVE  /\ notMySpecies' <=> NoneOfMine
                      /\ ~NoneOfMine =>
                           /\ UseUpdates => Distances'
                           /\ WithNodalAction =>
                                \A s \in 1 .. Last :
                                  newDist'[s] = Moved(movingBeads, Sampled, s)'
    BY <1>4, <1>5 DEF Finished
  <2>1. notMySpecies' <=> NoneOfMine
    BY <1>1, <1>3, <1>9, EvaluateFrame
  <2>2. LevelAccepted /\ Trying' /\ ilevel = 0
    BY <1>3 DEF Trying, LevelAccepted
  <2>3. Evaluate(MadeMove, Last, TRUE)
    BY <1>9, <2>2
  <2>4. \A s : Moved(movingBeads, Sampled, s)' = Moved(MadeMove, Sampled, s)
    BY <1>3, MovedFrame
  <2>5. ASSUME ~NoneOfMine, NEW s \in 1 .. Last
        PROVE  Holds(newDMValue', phi', matrix', MadeMove, s)
    <3>1. PICK l \in Levels : s \in CheckedSlices(l)
      BY <1>1, EverySliceChecked
    <3>2. Done(l)'
      BY DEF Done
    <3> QED
      BY <1>12, <2>2, <2>5, <3>1, <3>2
  <2>6. ASSUME ~NoneOfMine, UseUpdates
        PROVE  /\ Distances'
               /\ WithNodalAction => \A s \in 1 .. Last :
                    newDist'[s] = Moved(MadeMove, Sampled, s)
    <3>1. isNewMatrixUpdated' <=> WithNodalAction
      BY <2>2, <2>3, <2>6 DEF Evaluate
    <3>2. ASSUME WithNodalAction, NEW s \in 1 .. Last
          PROVE  /\ newMatrix'[s] = Moved(MadeMove, Sampled, s)
                 /\ newDist'[s] = Moved(MadeMove, Sampled, s)
      <4>1. s \in Slices /\ s # 0
        BY <1>6
      <4>2. newMatrix'[s] = Updated(matrix[s], s, phi'[s])
        BY <2>2, <2>3, <2>6, <3>2, <4>1 DEF Evaluate
      <4>3. newDist'[s] = IF newMatrix'[s] = Moved(MadeMove, Sampled, s)
                          THEN Moved(MadeMove, Sampled, s) ELSE Wrong
        BY <2>2, <2>3, <2>6, <3>2, <4>1 DEF Evaluate
      <4>4. phi'[s] = Moved(MadeMove, Sampled, s)
        BY <2>5, <2>6 DEF Holds
      <4>5. matrix[s] = Config(sectionBeads, s)
        BY <1>10, <2>6, <4>1 DEF NodeInv, Inverses
      <4> QED
        BY <4>2, <4>3, <4>4, <4>5 DEF Updated
    <3> QED
      BY <1>4, <2>4, <3>1, <3>2 DEF Distances
  <2>7. ASSUME ~NoneOfMine, ~UseUpdates, WithNodalAction, NEW s \in 1 .. Last
        PROVE  newDist'[s] = Moved(MadeMove, Sampled, s)
    <3>1. s \in Slices /\ s # 0
      BY <1>6
    <3>2. newDist'[s] = IF matrix'[s] = Moved(MadeMove, Sampled, s)
                        THEN Moved(MadeMove, Sampled, s) ELSE Wrong
      BY <2>2, <2>3, <2>7, <3>1 DEF Evaluate
    <3>3. matrix'[s] = Moved(MadeMove, Sampled, s)
      BY <2>5, <2>7 DEF Holds
    <3> QED
      BY <3>2, <3>3
  <2> QED
    BY <2>1, <2>4, <2>6, <2>7
<1> QED
  BY <1>11, <1>13, <1>14

(* When a move is accepted every slice has been tested with the beads the  *)
(* move puts there.                                                        *)
LEMMA AllTested ==
  ASSUME NodeInv, Careful, pc = "accept", ~NoneOfMine, NEW s \in 1 .. Last
  PROVE  Tested(s)
<1>1. PICK l \in Levels : s \in CheckedSlices(l)
  BY EverySliceChecked DEF NodeInv, SInv, Control
<1> QED
  BY <1>1 DEF NodeInv, TestedLevels, Trying, Done

LEMMA NAccept ==
  ASSUME NodeInv, AcceptMove
  PROVE  NodeInv'
<1>1. SInv /\ SInv' /\ setup \in Setups
  BY SAcceptMove DEF NodeInv, SInv, Control
<1>2. /\ UNCHANGED <<setup, newDMValue, newDist>>
      /\ pc = "accept" /\ pc' = "choose" /\ Trying /\ ~Trying'
      /\ AcceptLastMove
      /\ sectionBeads' =
           [x \in Side |-> [s \in Slices |->
              IF x \in Sampled
              THEN With(sectionBeads[x][s], movingIndex[x], movingBeads[x][s])
              ELSE sectionBeads[x][s]]]
  BY DEF AcceptMove, Trying
<1>3. /\ Slices' = Slices /\ Last' = Last /\ Careful' = Careful
      /\ UseUpdates' = UseUpdates /\ WithNodalAction' = WithNodalAction
  BY <1>2, Frame
<1>4. Last \in Nat \ {0} /\ Slices = 0 .. Last
  BY <1>1, SliceFacts
<1>5. ASSUME NEW s \in Slices
      PROVE  Config(sectionBeads', s) = Moved(movingBeads, Sampled, s)
  BY <1>2 DEF Config, Moved
<1>6. SUFFICES ASSUME Careful
               PROVE  Reference' /\ FirstSlice' /\ Inverses' /\ TestedLevels' /\ Finished'
  BY <1>1, <1>3 DEF NodeInv
<1>7. /\ Reference /\ FirstSlice /\ Inverses
      /\ notMySpecies <=> NoneOfMine
      /\ ~NoneOfMine =>
           /\ UseUpdates => Distances
           /\ WithNodalAction =>
                \A s \in 1 .. Last : newDist[s] = Moved(movingBeads, Sampled, s)
  BY <1>2, <1>6 DEF NodeInv, Finished
<1>8. Config(sectionBeads, 0) = Config(sectionBeads', 0)
  <2>1. 0 \in Slices /\ 0 # Last
    BY <1>4
  <2>2. Moved(movingBeads, Sampled, 0) = Config(sectionBeads, 0)
    BY <1>1, <1>2, <2>1, EndsStay
  <2> QED
    BY <1>5, <2>1, <2>2
<1>9. FirstSlice'
  BY <1>2, <1>7, <1>8 DEF FirstSlice, Config
<1>10. TestedLevels' /\ Finished'
  BY <1>2 DEF TestedLevels, Finished
<1>11. ASSUME NEW s \in Slices
       PROVE  /\ dmValue'[s] = Config(sectionBeads', s)
              /\ WithNodalAction => dist'[s] = Config(sectionBeads', s)
              /\ UseUpdates => matrix'[s] = Config(sectionBeads', s)
  <2>1. CASE NoneOfMine
    <3>1. UNCHANGED <<dmValue, dist, matrix>>
      BY <1>2, <1>7, <2>1 DEF AcceptLastMove
    <3>2. Config(sectionBeads', s) = Config(sectionBeads, s)
      BY <1>1, <1>2, <1>5, <1>6, <2>1, NoneMoved
    <3> QED
      BY <1>7, <3>1, <3>2 DEF Reference, Inverses
  <2>2. CASE ~NoneOfMine
    <3>1. dmValue' = newDMValue /\ dist' = newDist /\ AcceptMatrices
      BY <1>2, <1>7, <2>2 DEF AcceptLastMove
    <3>2. s \in 1 .. Last => Tested(s)
      BY <1>2, <1>6, <2>2, AllTested
    <3>3. dmValue'[s] = Config(sectionBeads', s)
          /\ (WithNodalAction => dist'[s] = Config(sectionBeads', s))
      <4>1. CASE s = 0
        BY <1>7, <1>8, <3>1, <4>1 DEF FirstSlice
      <4>2. CASE s # 0
        <5>1. s \in 1 .. Last
          BY <1>4, <4>2
        <5> QED
          BY <1>5, <1>7, <2>2, <3>1, <3>2, <5>1 DEF Tested, Holds
      <4> QED
        BY <4>1, <4>2
    <3>4. ASSUME UseUpdates
          PROVE  matrix'[s] = Config(sectionBeads', s)
      <4>1. matrix'[s] = IF s \notin 1 .. Last - 1 THEN matrix[s]
                         ELSE IF isNewMatrixUpdated THEN newMatrix[s]
                         ELSE Updated(matrix[s], s, phi[s])
        BY <3>1, <3>4 DEF AcceptMatrices
      <4>2. matrix[s] = Config(sectionBeads, s)
        BY <1>7, <3>4 DEF Inverses
      <4>3. CASE s \notin 1 .. Last - 1
        <5>1. s \in {0, Last}
          BY <1>4, <4>3
        <5>2. \A x \in Sampled : permutation[x] = Identity(Moving)
          BY <1>1, <1>2, <1>6, <2>2, <3>4, PlainMoves
        <5>3. Moved(movingBeads, Sampled, s) = Config(sectionBeads, s)
          BY <1>1, <1>2, <5>1, <5>2, EndsStay
        <5> QED
          BY <1>5, <4>1, <4>2, <4>3, <5>3
      <4>4. CASE s \in 1 .. Last - 1
        <5>1. s \in 1 .. Last
          BY <1>4, <4>4
        <5>2. phi[s] = Moved(movingBeads, Sampled, s)
          BY <3>2, <3>4, <5>1 DEF Tested, Holds
        <5>3. isNewMatrixUpdated => newMatrix[s] = Moved(movingBeads, Sampled, s)
          BY <1>7, <2>2, <3>4, <5>1 DEF Distances
        <5> QED
          BY <1>5, <4>1, <4>2, <4>4, <5>2, <5>3 DEF Updated
      <4> QED
        BY <4>3, <4>4
    <3> QED
      BY <3>3, <3>4
  <2> QED
    BY <2>1, <2>2
<1>12. Reference' /\ Inverses'
  BY <1>3, <1>11 DEF Reference, Inverses, Config
<1> QED
  BY <1>9, <1>10, <1>12

(* Between trials, and at their start, nothing is evaluated.               *)
LEMMA NOther ==
  ASSUME NodeInv, Run \/ ChooseFails \/ Choose \/ NextSampler
  PROVE  NodeInv'
<1>1. SInv /\ SInv' /\ setup \in Setups
  BY SChoose, SOther DEF NodeInv, SInv, Control
<1>2. UNCHANGED <<setup, sectionBeads, actionVars>>
      /\ (Trying' => pc' = "level" /\ ilevel' = nlevel)
  BY DEF Run, ChooseFails, Choose, NextSampler, sectionVars, Trying
<1>3. /\ Slices' = Slices /\ Last' = Last /\ Careful' = Careful /\ Levels' = Levels
      /\ UseUpdates' = UseUpdates /\ WithNodalAction' = WithNodalAction
  BY <1>2, Frame
<1>4. \A s : Config(sectionBeads, s)' = Config(sectionBeads, s)
  BY <1>2 DEF Config
<1>5. (Reference /\ FirstSlice /\ Inverses) => (Reference /\ FirstSlice /\ Inverses)'
  BY <1>2, <1>3, <1>4 DEF actionVars, Reference, FirstSlice, Inverses
<1>6. TestedLevels'
  <2>1. Trying' => \A l \in Levels : ~Done(l)'
    BY <1>1, <1>2, SetupFacts DEF Done, Levels
  <2> QED
    BY <1>3, <2>1 DEF TestedLevels
<1>7. Finished'
  BY <1>2 DEF Finished, Trying
<1> QED
  BY <1>1, <1>3, <1>5, <1>6, <1>7 DEF NodeInv

LEMMA NStutter == NodeInv /\ UNCHANGED vars => NodeInv'
<1> SUFFICES ASSUME NodeInv, UNCHANGED vars
             PROVE  NodeInv'
  OBVIOUS
<1> USE DEF vars, sectionVars, movingVars, actionVars
<1>1. SInv /\ SInv'
  BY SStutter DEF NodeInv
<1>2. /\ Slices' = Slices /\ Last' = Last /\ Careful' = Careful /\ Levels' = Levels
      /\ UseUpdates' = UseUpdates /\ WithNodalAction' = WithNodalAction
      /\ Moving' = Moving /\ Sampled' = Sampled
      /\ \A l \in Levels : CheckedSlices(l)' = CheckedSlices(l)
  BY Frame, FrameTrial
<1>3. /\ \A s : Config(sectionBeads, s)' = Config(sectionBeads, s)
      /\ \A s : Moved(movingBeads, Sampled, s)' = Moved(movingBeads, Sampled, s)
      /\ NoneOfMine' <=> NoneOfMine
  BY <1>2, MovedFrame DEF Config, NoneOfMine
<1>4. (Reference /\ FirstSlice /\ Inverses) => (Reference /\ FirstSlice /\ Inverses)'
  BY <1>2, <1>3 DEF Reference, FirstSlice, Inverses
<1>5. \A s : Tested(s)' <=> Tested(s)
  BY <1>2, <1>3 DEF Tested, Holds
<1>6. TestedLevels => TestedLevels'
  BY <1>2, <1>3, <1>5 DEF TestedLevels, Trying, Done
<1>7. Finished => Finished'
  BY <1>2, <1>3 DEF Finished, Distances
<1> QED
  BY <1>1, <1>2, <1>4, <1>6, <1>7 DEF NodeInv

LEMMA NodeNext == NodeInv /\ [Next]_vars => NodeInv'
BY NOther, NLevel, NAccept, NStutter DEF Next

LEMMA NodeInductive == Spec => []NodeInv
BY NodeInit, NodeNext, PTL DEF Spec

(* The fixed node restriction: with a careful input file no move is        *)
(* accepted whose determinants were not tested as they will be.  The runs  *)
(* fixed_node_all and fixed_node_cycles show that the care is needed.      *)
THEOREM MovesAreTested == Spec => [](Careful => AcceptedIsTested)
<1>1. NodeInv => (Careful => AcceptedIsTested)
  <2> SUFFICES ASSUME NodeInv, Careful, pc = "accept", NEW s \in 1 .. Last
               PROVE  (IF notMySpecies THEN dmValue[s] ELSE newDMValue[s])
                        = Moved(movingBeads, Sampled, s)
    BY DEF AcceptedIsTested
  <2>1. notMySpecies <=> NoneOfMine
    BY DEF NodeInv, Finished
  <2>2. s \in Slices
    BY SliceFacts DEF NodeInv, SInv, Control
  <2>3. CASE NoneOfMine
    <3>1. Moved(movingBeads, Sampled, s) = Config(sectionBeads, s)
      BY <2>2, <2>3, NoneMoved DEF NodeInv, Trying
    <3>2. dmValue[s] = Config(sectionBeads, s)
      BY <2>2 DEF NodeInv, Reference
    <3> QED
      BY <2>1, <2>3, <3>1, <3>2
  <2>4. CASE ~NoneOfMine
    BY <2>1, <2>4, AllTested DEF Tested, Holds
  <2> QED
    BY <2>3, <2>4
<1> QED
  BY <1>1, NodeInductive, PTL

(* The determinants and distances FixedNodeAction keeps between trials are *)
(* those of the section.                                                   *)
THEOREM ReferenceCorrect == Spec => [](Careful => ReferenceIsCurrent)
<1>1. NodeInv => (Careful => ReferenceIsCurrent)
  BY DEF NodeInv, Reference, ReferenceIsCurrent
<1> QED
  BY <1>1, NodeInductive, PTL

(* The inverse matrices the updates start from are those of the section.   *)
THEOREM InverseCorrect == Spec => [](Careful => InverseIsCurrent)
<1>1. NodeInv => (Careful => InverseIsCurrent)
  BY DEF NodeInv, Inverses, InverseIsCurrent
<1> QED
  BY <1>1, NodeInductive, PTL
=============================================================================
