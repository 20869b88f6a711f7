---------------------------- MODULE Deployments ----------------------------
(***************************************************************************)
(* The deployment table consensus.vDeployments of src/src/chainparams.cpp: *)
(* the values each profile's constructor writes, the regtest override      *)
(* -vbparams (CRegTestParams::UpdateActivationParametersFromArgs, lines    *)
(* 982-1034, and UpdateVersionBitsParameters, lines 905-925), and the      *)
(* query CChainParams::IsValidMNActivation (lines 109-130).                *)
(*                                                                         *)
(* A -vbparams value is SplitString(value, ':'): a tuple whose first field *)
(* is a deployment name and whose other fields are integers or the model   *)
(* value Junk, a string ParseInt64 rejects.  The regtest constructor       *)
(* handles the values one after the other (line 986); the first that       *)
(* throws aborts the construction, and with it the startup.                *)
(***************************************************************************)
EXTENDS Integers, Sequences

CONSTANTS
  NetworkID,      \* "main", "test", "devnet" or "regtest"
  NoTimeout,      \* Consensus::BIP9Deployment::NO_TIMEOUT (int64 max)
  Junk,           \* a field ParseInt64 cannot parse
  Names,          \* deployment names given on the command line
  StartValues,    \* what the <start> field may hold
  TimeoutValues,  \* what the <end> field may hold
  WindowValues,   \* what the <window> field may hold
  ThresholdValues,\* what <threshold...> and <falloffcoeff> may hold
  UseEHFValues,   \* what the <useehf> field may hold
  MaxArgs,        \* number of -vbparams values explored
  QueryBits,      \* bits IsValidMNActivation is asked about
  QueryTimes      \* median times past it is asked about

ASSUME DeploymentsAssumption ==
  /\ NetworkID \in {"main", "test", "devnet", "regtest"}
  /\ NoTimeout \in Int
  /\ MaxArgs \in Nat
  /\ QueryBits \subseteq 0 .. 28   \* assert(nBit < VERSIONBITS_NUM_BITS)
  /\ QueryTimes \subseteq Int
  \* ParseInt64 yields an integer or fails
  /\ StartValues \cup TimeoutValues \cup WindowValues \cup ThresholdValues
       \cup UseEHFValues \subseteq Int \cup {Junk}

VARIABLES
  vDeployments,  \* consensus.vDeployments
  argsLeft,      \* -vbparams values not handled yet
  startup        \* "parsing", "running" or "failed" (a runtime_error escaped)

vars == <<vDeployments, argsLeft, startup>>

\* VersionBitsDeploymentInfo[pos].name, in the order of DeploymentPos.
Positions == <<"testdummy", "v20", "mn_rr">>
Pos == DOMAIN Positions

\* A BIP9Deployment; fields a constructor leaves alone keep their defaults.
Deployment(bit, start, timeout, window, thStart, thMin, falloff, ehf) ==
  [bit |-> bit, nStartTime |-> start, nTimeout |-> timeout,
   nWindowSize |-> window, nThresholdStart |-> thStart,
   nThresholdMin |-> thMin, nFalloffCoeff |-> falloff, useEHF |-> ehf]

\* The constructors' timestamps: January 1 2008, December 31 2008, March 1 2025.
Jan2008 == 1199145601
Dec2008 == 1230767999
Mar2025 == 1740787200

\* The tables of the four constructors.
BaseDeployments(net) ==
  IF net = "main" THEN
         << Deployment(28, Jan2008, Dec2008, 0, 0, 0, 0, FALSE),
            Deployment(9, 0, Mar2025, 4032, 3226, 2420, 5, FALSE),
            Deployment(10, 0, Mar2025, 4032, 3226, 2420, 5, TRUE) >>
  ELSE IF net = "test" THEN
         << Deployment(28, Jan2008, Dec2008, 0, 0, 0, 0, FALSE),
            Deployment(9, 0, NoTimeout, 100, 80, 60, 5, FALSE),
            Deployment(10, 0, NoTimeout, 100, 80, 60, 5, TRUE) >>
  ELSE IF net = "devnet" THEN
         << Deployment(28, Jan2008, Dec2008, 0, 0, 0, 0, FALSE),
            Deployment(9, 0, NoTimeout, 120, 80, 60, 5, FALSE),
            Deployment(10, 0, NoTimeout, 120, 80, 60, 5, TRUE) >>
  ELSE
         << Deployment(28, 0, NoTimeout, 0, 0, 0, 0, FALSE),
            Deployment(9, 0, NoTimeout, 400, 384, 288, 5, FALSE),
            Deployment(10, 0, NoTimeout, 12, 9, 7, 5, TRUE) >>

\* consensus.nSuperblockMaturityWindow of each constructor.
SuperblockMaturityWindow(net) ==
  IF net = "main" THEN 1200 * 3 ELSE IF net = "test" THEN 10
  ELSE IF net = "devnet" THEN 8 ELSE 120

\* The -vbparams values: 3, 5 or 8 fields are accepted, 4 stands for the rest.
Args ==
  {<<n, s, t>> : n \in Names, s \in StartValues, t \in TimeoutValues}
  \cup {<<n, s, t, x>> : n \in Names, s \in StartValues, t \in TimeoutValues,
                         x \in StartValues}
  \cup {<<n, s, t, w, th>> : n \in Names, s \in StartValues, t \in TimeoutValues,
                             w \in WindowValues, th \in ThresholdValues}
  \cup {<<n, s, t, w, th, mn, f, e>> :
         n \in Names, s \in StartValues, t \in TimeoutValues, w \in WindowValues,
         th \in ThresholdValues, mn \in ThresholdValues, f \in ThresholdValues,
         e \in UseEHFValues}

\* ParseInt64 of field i; -1 stands for "not given" (line 993).
Field(a, i) == IF i <= Len(a) THEN a[i] ELSE -1

\* The value a field takes from field i of a: written unless it is -1.
Given(a, i, old) == IF Field(a, i) # -1 THEN Field(a, i) ELSE old

\* Mutant: the window is written even when it was not given.
UpdateWindowAlways(d, a) ==
  LET r == vDeployments[d]
  IN  [bit |-> r.bit, nStartTime |-> a[2], nTimeout |-> a[3],
       nWindowSize |-> Field(a, 4),
       nThresholdStart |-> Given(a, 5, r.nThresholdStart),
       nThresholdMin |-> Given(a, 6, r.nThresholdMin),
       nFalloffCoeff |-> Given(a, 7, r.nFalloffCoeff),
       useEHF |-> IF Field(a, 8) # -1 THEN Field(a, 8) > 0 ELSE r.useEHF]

\* UpdateVersionBitsParameters: start and timeout always, the rest if # -1.
UpdateVersionBitsParameters(d, a) ==
  LET r == vDeployments[d]
  IN  [bit |-> r.bit, nStartTime |-> a[2], nTimeout |-> a[3],
       nWindowSize |-> Given(a, 4, r.nWindowSize),
       nThresholdStart |-> Given(a, 5, r.nThresholdStart),
       nThresholdMin |-> Given(a, 6, r.nThresholdMin),
       nFalloffCoeff |-> Given(a, 7, r.nFalloffCoeff),
       useEHF |-> IF Field(a, 8) # -1 THEN Field(a, 8) > 0 ELSE r.useEHF]

\* Mutant: the fields' ParseInt64 results are not checked.
MalformedCountOnly(a) == Len(a) \notin {3, 5, 8}

\* The checks of lines 988-1017 that throw before any lookup.
Malformed(a) ==
  \/ Len(a) \notin {3, 5, 8}
  \/ \E i \in 2 .. Len(a) : a[i] = Junk

\* Mutant: a query at the timeout itself is out of the window (>= for >).
ActivationTimeoutOffByOne(nBit, timePast) ==
  LET hits == {i \in Pos : vDeployments[i].bit = nBit
                           /\ ~(timePast >= vDeployments[i].nTimeout
                                \/ timePast < vDeployments[i].nStartTime)}
      first == CHOOSE i \in hits : \A j \in hits : i <= j
  IN  IF hits = {} THEN TRUE ELSE vDeployments[first].useEHF

(***************************************************************************)
(* IsValidMNActivation: the first deployment of the bit whose window holds *)
(* timePast decides by its useEHF flag; a deployment of the bit that is    *)
(* out of range is passed over (continue, line 118); when none decides,    *)
(* the bit is "unknown" and the answer is true (line 129).                 *)
(***************************************************************************)
IsValidMNActivation(nBit, timePast) ==
  LET hits == {i \in Pos : vDeployments[i].bit = nBit
                           /\ ~(timePast > vDeployments[i].nTimeout
                                \/ timePast < vDeployments[i].nStartTime)}
      first == CHOOSE i \in hits : \A j \in hits : i <= j
  IN  IF hits = {} THEN TRUE ELSE vDeployments[first].useEHF

-----------------------------------------------------------------------------
(* Actions *)

Init ==
  /\ vDeployments = BaseDeployments(NetworkID)
  /\ argsLeft \in UNION {[1 .. n -> Args] : n \in 0 .. MaxArgs}
  /\ startup = IF NetworkID = "regtest" /\ argsLeft # << >> THEN "parsing" ELSE "running"

\* One -vbparams value that throws: wrong field count, junk, unknown name.
RejectArg ==
  /\ startup = "parsing"
  /\ LET a == Head(argsLeft)
     IN  Malformed(a) \/ a[1] \notin {Positions[d] : d \in Pos}
  /\ startup' = "failed"
  /\ UNCHANGED <<vDeployments, argsLeft>>

\* One -vbparams value that names a deployment and parses.
ApplyArg ==
  /\ startup = "parsing"
  /\ LET a == Head(argsLeft)
     IN  /\ ~Malformed(a)
         /\ \E d \in Pos :
              /\ Positions[d] = a[1]
              /\ vDeployments' = [vDeployments EXCEPT ![d] = UpdateVersionBitsParameters(d, a)]
  /\ argsLeft' = Tail(argsLeft)
  /\ startup' = IF argsLeft' = << >> THEN "running" ELSE "parsing"

Next == RejectArg \/ ApplyArg

Spec == Init /\ [][Next]_vars

-----------------------------------------------------------------------------
(* Properties *)

Entries == [bit : 0 .. 28, nStartTime : Int, nTimeout : Int,
            nWindowSize : Int, nThresholdStart : Int, nThresholdMin : Int,
            nFalloffCoeff : Int, useEHF : BOOLEAN]

TypeOK ==
  /\ \A d \in Pos : vDeployments[d] \in Entries
  /\ DOMAIN vDeployments = Pos
  /\ argsLeft \in Seq(Args) /\ Len(argsLeft) <= MaxArgs
  /\ startup \in {"parsing", "running", "failed"}

\* The field of a BIP9Deployment that field i of a -vbparams value sets.
FieldName == <<"name", "nStartTime", "nTimeout", "nWindowSize",
               "nThresholdStart", "nThresholdMin", "nFalloffCoeff", "useEHF">>

(***************************************************************************)
(* Spec section 4.2: the deployment of the bit is looked up; if there is   *)
(* one, the answer is whether timePast is within [startTime, timeout] and  *)
(* its useEHF flag is set; for a bit no deployment has, the answer is      *)
(* true (an unknown, forward-compatible bit).                              *)
(***************************************************************************)
SpecActivation(nBit, timePast) ==
  IF \E i \in Pos : vDeployments[i].bit = nBit
  THEN LET d == vDeployments[CHOOSE i \in Pos : vDeployments[i].bit = nBit]
       IN  d.nStartTime <= timePast /\ timePast <= d.nTimeout /\ d.useEHF
  ELSE TRUE

(***************************************************************************)
(* Once startup has built the table, IsValidMNActivation agrees with the   *)
(* lookup of spec section 4.2 on every unknown bit and on every time       *)
(* inside the window of the bit's deployment, whatever -vbparams moved the *)
(* window to: the boundaries startTime and timeout are both in the window. *)
(***************************************************************************)
ActivationInWindowAgreesWithSpec ==
  startup = "running" =>
    \A b \in QueryBits, t \in QueryTimes :
      (\A i \in Pos : vDeployments[i].bit = b =>
          vDeployments[i].nStartTime <= t /\ t <= vDeployments[i].nTimeout)
        => IsValidMNActivation(b, t) = SpecActivation(b, t)

(***************************************************************************)
(* Spec section 8: a query for a deployment's bit at a time outside its    *)
(* window (time=150 after timeout=100, or time=-1 before startTime=0) is   *)
(* false.  The code's continue at line 118 falls through to the "unknown   *)
(* bit" answer, true.                                                      *)
(***************************************************************************)
ActivationAgreesWithSpec ==
  startup = "running" =>
    \A b \in QueryBits, t \in QueryTimes :
      IsValidMNActivation(b, t) = SpecActivation(b, t)

(***************************************************************************)
(* A -vbparams value of 3 or 5 fields leaves the fields it does not give   *)
(* (window and thresholds, or threshold-min, falloff and useEHF) as the    *)
(* constructor set them, for every deployment: the -1 "not given" default  *)
(* of line 993 is never written to the table.                              *)
(***************************************************************************)
OverrideKeepsOmittedFields ==
  [][startup = "parsing" =>
       LET a == Head(argsLeft)
       IN  \A d \in Pos, i \in Len(a) + 1 .. 8 :
             vDeployments'[d][FieldName[i]] = vDeployments[d][FieldName[i]]]_vars

(***************************************************************************)
(* The note at line 204: MN_RR's nWindowSize must be at least              *)
(* nSuperblockMaturityWindow for CSuperblock::GetPaymentsLimit() to work.  *)
(* Regtest sets 12 (line 787) against a maturity window of 120 (line 743), *)
(* and -vbparams may set any window.                                       *)
(***************************************************************************)
MnRRWindowCoversMaturity ==
  startup = "running" =>
    vDeployments[3].nWindowSize >= SuperblockMaturityWindow(NetworkID)

=============================================================================
