------------------------- MODULE Deployments_proofs -------------------------
(***************************************************************************)
(* Proofs about the deployment table (Deployments) for every profile,      *)
(* every set of -vbparams values and every query allowed by the            *)
(* assumptions: the table stays well typed, -vbparams never moves a        *)
(* deployment to another bit, and hence IsValidMNActivation answers as the *)
(* spec's lookup does whenever the time is inside the bit's window.        *)
(***************************************************************************)
EXTENDS Deployments, TLAPS

USE DeploymentsAssumption

\* What a field of a -vbparams value holds once SplitString has run.
Vals == Int \cup {Junk}

\* Every value the command line may carry: 3, 4, 5 or 8 fields, a name first.
LEMMA ArgsShape ==
  ASSUME NEW a \in Args
  PROVE  /\ a \in Seq(Names \cup Vals)
         /\ Len(a) \in {3, 4, 5, 8}
         /\ a[1] \in Names
         /\ \A i \in 2 .. Len(a) : a[i] \in Vals
<1>1. CASE \E n \in Names, x \in StartValues, y \in TimeoutValues : a = <<n, x, y>>
  <2>1. PICK n \in Names, x \in StartValues, y \in TimeoutValues : a = <<n, x, y>>
    BY <1>1
  <2>2. QED
    BY <2>1 DEF Vals
<1>2. CASE \E n \in Names, x \in StartValues, y \in TimeoutValues, z \in StartValues :
             a = <<n, x, y, z>>
  <2>1. PICK n \in Names, x \in StartValues, y \in TimeoutValues, z \in StartValues :
               a = <<n, x, y, z>>
    BY <1>2
  <2>2. QED
    BY <2>1 DEF Vals
<1>3. CASE \E n \in Names, x \in StartValues, y \in TimeoutValues, w \in WindowValues,
             th \in ThresholdValues : a = <<n, x, y, w, th>>
  <2>1. PICK n \in Names, x \in StartValues, y \in TimeoutValues, w \in WindowValues,
               th \in ThresholdValues : a = <<n, x, y, w, th>>
    BY <1>3
  <2>2. QED
    BY <2>1 DEF Vals
<1>4. CASE \E n \in Names, x \in StartValues, y \in TimeoutValues, w \in WindowValues,
             th \in ThresholdValues, mn \in ThresholdValues, f \in ThresholdValues,
             e \in UseEHFValues : a = <<n, x, y, w, th, mn, f, e>>
  <2>1. PICK n \in Names, x \in StartValues, y \in TimeoutValues, w \in WindowValues,
               th \in ThresholdValues, mn \in ThresholdValues, f \in ThresholdValues,
               e \in UseEHFValues : a = <<n, x, y, w, th, mn, f, e>>
    BY <1>4
  <2>2. QED
    BY <2>1 DEF Vals
<1>5. QED
  BY <1>1, <1>2, <1>3, <1>4 DEF Args

\* The timestamps are integers.
LEMMA TimesInt == {Jan2008, Dec2008, Mar2025} \subseteq Int
BY SMT DEF Jan2008, Dec2008, Mar2025

\* The constructors' tables: well typed, with bits 28, 9 and 10.
LEMMA BaseFacts ==
  /\ DOMAIN BaseDeployments(NetworkID) = Pos
  /\ \A d \in Pos : BaseDeployments(NetworkID)[d] \in Entries
  /\ BaseDeployments(NetworkID)[1].bit = 28
  /\ BaseDeployments(NetworkID)[2].bit = 9
  /\ BaseDeployments(NetworkID)[3].bit = 10
<1>1. CASE NetworkID = "main"
  <2> DEFINE D1 == Deployment(28, Jan2008, Dec2008, 0, 0, 0, 0, FALSE)
              D2 == Deployment(9, 0, Mar2025, 4032, 3226, 2420, 5, FALSE)
              D3 == Deployment(10, 0, Mar2025, 4032, 3226, 2420, 5, TRUE)
  <2>1. BaseDeployments(NetworkID) = <<D1, D2, D3>>
    BY <1>1 DEF BaseDeployments
  <2>2. /\ D1 \in Entries /\ D2 \in Entries /\ D3 \in Entries
        /\ D1.bit = 28 /\ D2.bit = 9 /\ D3.bit = 10
    BY TimesInt DEF Deployment, Entries
  <2> HIDE DEF D1, D2, D3
  <2>3. QED
    BY <2>1, <2>2 DEF Pos, Positions
<1>2. CASE NetworkID = "test"
  <2> DEFINE D1 == Deployment(28, Jan2008, Dec2008, 0, 0, 0, 0, FALSE)
              D2 == Deployment(9, 0, NoTimeout, 100, 80, 60, 5, FALSE)
              D3 == Deployment(10, 0, NoTimeout, 100, 80, 60, 5, TRUE)
  <2>1. BaseDeployments(NetworkID) = <<D1, D2, D3>>
    BY <1>2 DEF BaseDeployments
  <2>2. /\ D1 \in Entries /\ D2 \in Entries /\ D3 \in Entries
        /\ D1.bit = 28 /\ D2.bit = 9 /\ D3.bit = 10
    BY TimesInt DEF Deployment, Entries
  <2> HIDE DEF D1, D2, D3
  <2>3. QED
    BY <2>1, <2>2 DEF Pos, Positions
<1>3. CASE NetworkID = "devnet"
  <2> DEFINE D1 == Deployment(28, Jan2008, Dec2008, 0, 0, 0, 0, FALSE)
              D2 == Deployment(9, 0, NoTimeout, 120, 80, 60, 5, FALSE)
              D3 == Deployment(10, 0, NoTimeout, 120, 80, 60, 5, TRUE)
  <2>1. BaseDeployments(NetworkID) = <<D1, D2, D3>>
    BY <1>3 DEF BaseDeployments
  <2>2. /\ D1 \in Entries /\ D2 \in Entries /\ D3 \in Entries
        /\ D1.bit = 28 /\ D2.bit = 9 /\ D3.bit = 10
    BY TimesInt DEF Deployment, Entries
  <2> HIDE DEF D1, D2, D3
  <2>3. QED
    BY <2>1, <2>2 DEF Pos, Positions
<1>4. CASE NetworkID = "regtest"
  <2> DEFINE D1 == Deployment(28, 0, NoTimeout, 0, 0, 0, 0, FALSE)
              D2 == Deployment(9, 0, NoTimeout, 400, 384, 288, 5, FALSE)
              D3 == Deployment(10, 0, NoTimeout, 12, 9, 7, 5, TRUE)
  <2>1. BaseDeployments(NetworkID) = <<D1, D2, D3>>
    BY <1>4 DEF BaseDeployments
  <2>2. /\ D1 \in Entries /\ D2 \in Entries /\ D3 \in Entries
        /\ D1.bit = 28 /\ D2.bit = 9 /\ D3.bit = 10
    BY TimesInt DEF Deployment, Entries
  <2> HIDE DEF D1, D2, D3
  <2>3. QED
    BY <2>1, <2>2 DEF Pos, Positions
<1>5. QED
  BY <1>1, <1>2, <1>3, <1>4

\* The deployment bits never change.
BitsFixed == \A d \in Pos : vDeployments[d].bit = BaseDeployments(NetworkID)[d].bit

\* A startup still parsing has a -vbparams value left.
ParsingHasArgs == startup = "parsing" => argsLeft # << >>

\* The inductive invariant.
IInv == TypeOK /\ BitsFixed /\ ParsingHasArgs

-----------------------------------------------------------------------------

LEMMA InitIInv == Init => IInv
<1> SUFFICES ASSUME Init PROVE IInv
  OBVIOUS
<1>1. argsLeft \in Seq(Args) /\ Len(argsLeft) <= MaxArgs
  <2>1. PICK n \in 0 .. MaxArgs : argsLeft \in [1 .. n -> Args]
    BY DEF Init
  <2>2. QED
    BY <2>1
<1>2. QED
  BY <1>1, BaseFacts DEF Init, IInv, TypeOK, BitsFixed, ParsingHasArgs, Pos, Positions

\* UpdateVersionBitsParameters on a parsed value yields a table entry with the same bit.
LEMMA UpdateType ==
  ASSUME TypeOK, NEW d \in Pos, NEW a \in Args, ~Malformed(a)
  PROVE  /\ UpdateVersionBitsParameters(d, a) \in Entries
         /\ UpdateVersionBitsParameters(d, a).bit = vDeployments[d].bit
<1>1. Len(a) \in {3, 5, 8} /\ \A i \in 2 .. Len(a) : a[i] \in Int
  BY ArgsShape DEF Malformed, Vals
<1>2. \A i \in 2 .. 8 : Field(a, i) \in Int
  BY <1>1 DEF Field
<1>3. vDeployments[d] \in Entries
  BY DEF TypeOK
<1> DEFINE r == vDeployments[d]
<1>4. /\ r.nWindowSize \in Int /\ r.nThresholdStart \in Int
      /\ r.nThresholdMin \in Int /\ r.nFalloffCoeff \in Int
      /\ r.useEHF \in BOOLEAN /\ r.bit \in 0 .. 28
  BY <1>3 DEF Entries
<1>5. /\ a[2] \in Int /\ a[3] \in Int
      /\ Given(a, 4, r.nWindowSize) \in Int
      /\ Given(a, 5, r.nThresholdStart) \in Int
      /\ Given(a, 6, r.nThresholdMin) \in Int
      /\ Given(a, 7, r.nFalloffCoeff) \in Int
  <2>1. a[2] \in Int /\ a[3] \in Int
    BY <1>1
  <2>2. Given(a, 4, r.nWindowSize) \in Int
    BY <1>2, <1>4 DEF Given
  <2>3. Given(a, 5, r.nThresholdStart) \in Int
    BY <1>2, <1>4 DEF Given
  <2>4. Given(a, 6, r.nThresholdMin) \in Int
    BY <1>2, <1>4 DEF Given
  <2>5. Given(a, 7, r.nFalloffCoeff) \in Int
    BY <1>2, <1>4 DEF Given
  <2>6. QED
    BY <2>1, <2>2, <2>3, <2>4, <2>5
<1>6. (IF Field(a, 8) # -1 THEN Field(a, 8) > 0 ELSE r.useEHF) \in BOOLEAN
  <2>1. (Field(a, 8) > 0) \in BOOLEAN
    BY <1>2
  <2>2. QED
    BY <1>4, <2>1
<1>7. QED
  BY <1>4, <1>5, <1>6 DEF UpdateVersionBitsParameters, Entries

LEMMA ApplyArgStep ==
  ASSUME IInv, ApplyArg
  PROVE  IInv'
<1>1. /\ argsLeft # << >> /\ argsLeft \in Seq(Args)
      /\ Head(argsLeft) \in Args
  BY DEF ApplyArg, IInv, TypeOK, ParsingHasArgs
<1> DEFINE a == Head(argsLeft)
<1>2. ~Malformed(a)
  BY DEF ApplyArg
<1>3. PICK d \in Pos : vDeployments' = [vDeployments EXCEPT ![d] = UpdateVersionBitsParameters(d, a)]
  BY Zenon DEF ApplyArg
<1>4. /\ UpdateVersionBitsParameters(d, a) \in Entries
      /\ UpdateVersionBitsParameters(d, a).bit = vDeployments[d].bit
  BY <1>1, <1>2, UpdateType DEF IInv
<1>5. /\ argsLeft' = Tail(argsLeft)
      /\ startup' \in {"parsing", "running"}
  BY DEF ApplyArg
<1>6. argsLeft' \in Seq(Args) /\ Len(argsLeft') <= MaxArgs
  BY <1>1, <1>5 DEF IInv, TypeOK
<1>7. ParsingHasArgs'
  BY DEF ApplyArg, ParsingHasArgs
<1>8. QED
  BY <1>3, <1>4, <1>5, <1>6, <1>7 DEF IInv, TypeOK, BitsFixed

LEMMA IInvStep == IInv /\ [Next]_vars => IInv'
<1> SUFFICES ASSUME IInv, [Next]_vars PROVE IInv'
  OBVIOUS
<1>1. CASE RejectArg
  BY <1>1 DEF RejectArg, IInv, TypeOK, BitsFixed, ParsingHasArgs
<1>2. CASE ApplyArg
  BY <1>2, ApplyArgStep
<1>3. CASE UNCHANGED vars
  BY <1>3 DEF vars, IInv, TypeOK, BitsFixed, ParsingHasArgs
<1>4. QED
  BY <1>1, <1>2, <1>3 DEF Next

-----------------------------------------------------------------------------
(* Theorems *)

\* Startup keeps the table well typed, whatever -vbparams carries.
THEOREM TypeCorrect == Spec => []TypeOK
<1>1. IInv => TypeOK
  BY DEF IInv
<1>2. QED
  BY <1>1, InitIInv, IInvStep, PTL DEF Spec

(***************************************************************************)
(* No two deployments share a bit, so a bit selects at most one entry,     *)
(* and IsValidMNActivation and the spec's lookup agree whenever the time   *)
(* lies in the window of the bit's deployment.                             *)
(***************************************************************************)
LEMMA InWindowAgrees ==
  ASSUME IInv, NEW b \in QueryBits, NEW t \in QueryTimes,
         \A i \in Pos : vDeployments[i].bit = b =>
           vDeployments[i].nStartTime <= t /\ t <= vDeployments[i].nTimeout
  PROVE  IsValidMNActivation(b, t) = SpecActivation(b, t)
<1>1. /\ vDeployments[1].bit = 28 /\ vDeployments[2].bit = 9
      /\ vDeployments[3].bit = 10
      /\ Pos = {1, 2, 3}
      /\ \A i \in Pos : vDeployments[i] \in Entries
  BY BaseFacts DEF IInv, BitsFixed, TypeOK, Pos, Positions
<1> DEFINE hits == {i \in Pos : vDeployments[i].bit = b
                               /\ ~(t > vDeployments[i].nTimeout
                                    \/ t < vDeployments[i].nStartTime)}
<1>2. t \in Int
  OBVIOUS
<1>3. CASE \E i \in Pos : vDeployments[i].bit = b
  <2>1. PICK p \in Pos : vDeployments[p].bit = b
    BY <1>3
  <2>2. \A j \in Pos : vDeployments[j].bit = b => j = p
    BY <1>1, <2>1
  <2>3. hits = {p}
    BY <1>1, <1>2, <2>1, <2>2 DEF Entries
  <2>4. (CHOOSE i \in hits : \A j \in hits : i <= j) = p
    BY <2>3, <1>1
  <2>5. IsValidMNActivation(b, t) = vDeployments[p].useEHF
    <3>1. IsValidMNActivation(b, t) =
            IF hits = {} THEN TRUE
            ELSE vDeployments[CHOOSE i \in hits : \A j \in hits : i <= j].useEHF
      BY Zenon DEF IsValidMNActivation
    <3>2. QED
      BY <2>3, <2>4, <3>1
  <2>6. (CHOOSE i \in Pos : vDeployments[i].bit = b) = p
    BY <2>1, <2>2
  <2>7. SpecActivation(b, t) = vDeployments[p].useEHF
    <3>1. SpecActivation(b, t) =
            LET d == vDeployments[p]
            IN  d.nStartTime <= t /\ t <= d.nTimeout /\ d.useEHF
      BY <1>3, <2>6, Zenon DEF SpecActivation
    <3>2. /\ vDeployments[p].nStartTime <= t /\ t <= vDeployments[p].nTimeout
          /\ vDeployments[p].useEHF \in BOOLEAN
      BY <1>1, <2>1 DEF Entries
    <3>3. QED
      BY <3>1, <3>2
  <2>8. QED
    BY <2>5, <2>7
<1>4. CASE ~\E i \in Pos : vDeployments[i].bit = b
  <2>1. hits = {}
    BY <1>4
  <2>2. IsValidMNActivation(b, t) =
          IF hits = {} THEN TRUE
          ELSE vDeployments[CHOOSE i \in hits : \A j \in hits : i <= j].useEHF
    BY Zenon DEF IsValidMNActivation
  <2>3. SpecActivation(b, t) = TRUE
    BY <1>4, Zenon DEF SpecActivation
  <2>4. QED
    BY <2>1, <2>2, <2>3
<1>5. QED
  BY <1>3, <1>4

(***************************************************************************)
(* IsValidMNActivation agrees with spec section 4.2 on every unknown bit   *)
(* and every in-window time, for every table -vbparams can produce: the    *)
(* disagreement of the run deployments_window is confined to times outside *)
(* the window.                                                             *)
(***************************************************************************)
THEOREM ActivationInWindowProved == Spec => []ActivationInWindowAgreesWithSpec
<1>1. IInv => ActivationInWindowAgreesWithSpec
  BY InWindowAgrees DEF ActivationInWindowAgreesWithSpec
<1>2. QED
  BY <1>1, InitIInv, IInvStep, PTL DEF Spec


\* The step predicate of OverrideKeepsOmittedFields.
KeepsOmitted ==
  startup = "parsing" =>
    LET a == Head(argsLeft)
    IN  \A d \in Pos, i \in Len(a) + 1 .. 8 :
          vDeployments'[d][FieldName[i]] = vDeployments[d][FieldName[i]]

\* UpdateVersionBitsParameters leaves every field past the value's last as it was.
LEMMA UpdateKeepsOmitted ==
  ASSUME TypeOK, NEW d \in Pos, NEW a \in Args, ~Malformed(a),
         NEW k \in 1 .. 8, k > Len(a)
  PROVE  UpdateVersionBitsParameters(d, a)[FieldName[k]] = vDeployments[d][FieldName[k]]
<1>0. a \in Seq(Names \cup Vals) /\ Len(a) \in {3, 4, 5, 8}
  BY ArgsShape
<1>1. Len(a) \in {3, 5, 8} /\ k \in 4 .. 8 /\ Field(a, k) = -1
  <2>1. Len(a) \in {3, 5, 8}
    BY <1>0 DEF Malformed
  <2>2. PICK n \in {3, 5, 8} : n = Len(a)
    BY <2>1
  <2>3. k \in 4 .. 8 /\ ~(k <= Len(a))
    BY <2>2
  <2>4. Field(a, k) = -1
    BY <2>3 DEF Field
  <2>5. QED
    BY <2>1, <2>3, <2>4
<1>3. CASE k = 4
  BY <1>1, <1>3 DEF UpdateVersionBitsParameters, Given, FieldName
<1>4. CASE k = 5
  BY <1>1, <1>4 DEF UpdateVersionBitsParameters, Given, FieldName
<1>5. CASE k = 6
  BY <1>1, <1>5 DEF UpdateVersionBitsParameters, Given, FieldName
<1>6. CASE k = 7
  BY <1>1, <1>6 DEF UpdateVersionBitsParameters, Given, FieldName
<1>7. CASE k = 8
  BY <1>1, <1>7 DEF UpdateVersionBitsParameters, FieldName
<1>8. QED
  BY <1>1, <1>3, <1>4, <1>5, <1>6, <1>7

\* A parsed -vbparams value changes one entry, and only the fields it gives.
LEMMA KeepsOmittedStep == IInv /\ [Next]_vars => [KeepsOmitted]_vars
<1> SUFFICES ASSUME IInv, [Next]_vars PROVE [KeepsOmitted]_vars
  OBVIOUS
<1>1. CASE RejectArg
  BY <1>1 DEF RejectArg, KeepsOmitted
<1>2. CASE ApplyArg
  <2> DEFINE a == Head(argsLeft)
  <2>1. a \in Args /\ ~Malformed(a)
    BY <1>2 DEF ApplyArg, IInv, TypeOK, ParsingHasArgs
  <2>2. PICK d0 \in Pos :
          vDeployments' = [vDeployments EXCEPT ![d0] = UpdateVersionBitsParameters(d0, a)]
    BY <1>2, Zenon DEF ApplyArg
  <2>3. SUFFICES ASSUME NEW d \in Pos, NEW i \in Len(a) + 1 .. 8
                 PROVE  vDeployments'[d][FieldName[i]] = vDeployments[d][FieldName[i]]
    BY DEF KeepsOmitted
  <2>4. DOMAIN vDeployments = Pos
    BY DEF IInv, TypeOK
  <2>5. CASE d = d0
    BY <2>1, <2>2, <2>4, <2>5, UpdateKeepsOmitted, SMTT(20) DEF IInv
  <2>6. CASE d # d0
    BY <2>2, <2>4, <2>6
  <2>7. QED
    BY <2>5, <2>6
<1>3. CASE UNCHANGED vars
  BY <1>3 DEF vars
<1>4. QED
  BY <1>1, <1>2, <1>3 DEF Next

(***************************************************************************)
(* For every profile and every -vbparams value of 3, 5 or 8 fields,        *)
(* UpdateVersionBitsParameters (lines 980-1017) writes no field the value  *)
(* does not give: the -1 default of line 993 never reaches the table.      *)
(***************************************************************************)
THEOREM OverrideKeepsOmittedProved == Spec => OverrideKeepsOmittedFields
<1>1. IInv /\ [Next]_vars => [KeepsOmitted]_vars
  BY KeepsOmittedStep
<1>2. QED
  BY <1>1, InitIInv, IInvStep, PTL DEF Spec, OverrideKeepsOmittedFields, KeepsOmitted

=============================================================================
