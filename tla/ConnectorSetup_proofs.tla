------------------------ MODULE ConnectorSetup_proofs ------------------------
(***************************************************************************)
(* What saving the connector's settings preserves, for any services,       *)
(* submissions and number of overlapping PUTs, and that calls for media    *)
(* beside it are made with settings that belong together.                  *)
(***************************************************************************)
EXTENDS MediaRequests, TLAPS

\* No secret of a service that is switched off.
Clean(c) == \A s \in Services : c.url[s] = None => c.token[s] = None

\* What a PUT holds from its merge on.
Savable(c) == c \in Settings /\ Clean(c) /\ Valid(c)

\* A PUT that is under way holds savable settings; once it has renamed them into
\* place, or any PUT has been answered, the file was written by some PUT.  The
\* settings in use were too as long as no restart came in between.
IInv ==
    /\ TypeOK
    /\ \A r \in Requests : phase[r] # "none" => Savable(cfg[r])
    /\ \A r \in Requests : phase[r] = "apply" => Savable(disk)
    /\ \A r \in Requests : phase[r] # "none" => memory # None
    /\ answered => Savable(disk) /\ Savable(memory)

-----------------------------------------------------------------------------
(* The operators on settings *)

\* normalizedConnectorMediaConfig leaves no padding, and changes neither which
\* services are on, nor the secrets, nor what validation says.
LEMMA NormalizedSettings ==
    ASSUME NEW c \in Config
    PROVE  /\ Normalized(c) \in Settings
           /\ Normalized(c).token = c.token
           /\ \A s \in Services : Normalized(c).url[s] = None <=> c.url[s] = None
           /\ Valid(Normalized(c)) <=> Valid(c)
<1> DEFINE n == Normalized(c)
<1>1. /\ n.token = c.token /\ n.npub = c.npub /\ n.addr = c.addr
      /\ n = [url |-> n.url, token |-> n.token, npub |-> n.npub, addr |-> n.addr]
      /\ n.url = [s \in Services |->
            IF c.url[s] = None THEN None ELSE [host |-> c.url[s].host, padded |-> FALSE]]
  BY DEF Config, Normalized
<1>2. ASSUME NEW s \in Services
      PROVE  /\ n.url[s] \in Url
             /\ n.url[s] = None <=> c.url[s] = None
             /\ n.url[s] # None => ~n.url[s].padded /\ n.url[s].host = c.url[s].host
  <2>1. c.url[s] \in Url
    BY DEF Config
  <2>2. n.url[s] = IF c.url[s] = None THEN None ELSE [host |-> c.url[s].host, padded |-> FALSE]
    BY <1>1
  <2>3. CASE c.url[s] = None
    BY <2>2, <2>3 DEF Url
  <2>4. CASE c.url[s] # None
    <3>1. c.url[s] \in Link
      BY <2>1, <2>4 DEF Url
    <3>2. /\ n.url[s] \in Link
          /\ n.url[s].padded = FALSE /\ n.url[s].host = c.url[s].host
      BY <2>2, <2>4, <3>1 DEF Link
    <3>3. n.url[s] # None
      BY <3>2, NoneAssumption
    <3> QED
      BY <2>4, <3>2, <3>3 DEF Url
  <2> QED
    BY <2>3, <2>4
<1>3. n.url \in [Services -> Url]
  BY <1>1, <1>2
<1>4. n \in Config
  BY <1>1, <1>3 DEF Config
<1>5. n \in Settings
  BY <1>2, <1>4 DEF Settings
<1>6. Valid(n) <=> Valid(c)
  BY <1>1, <1>2 DEF Valid
<1> QED
  BY <1>1, <1>2, <1>5, <1>6

\* mergeWithExistingSecrets makes settings without padding, and without a secret
\* of a service that is switched off, whatever is in use and whatever is sent.
LEMMA MergeSettings ==
    ASSUME NEW existing \in Config, NEW c \in Config
    PROVE  Merge(existing, c) \in Settings /\ Clean(Merge(existing, c))
<1> DEFINE m == Merge(existing, c)
<1>1. /\ m = [url |-> m.url, token |-> m.token, npub |-> c.npub, addr |-> c.addr]
      /\ m.url = Normalized(c).url
      /\ m.token = [s \in Services |->
             IF c.url[s] = None THEN None
             ELSE IF c.token[s] = None THEN existing.token[s]
             ELSE c.token[s]]
  BY DEF Merge
<1>2. m.token \in [Services -> Tokens \cup {None}]
  BY <1>1 DEF Config
<1>3. /\ m.url \in [Services -> Url]
      /\ \A s \in Services : m.url[s] # None => ~m.url[s].padded
  BY <1>1, NormalizedSettings DEF Settings, Config
<1>4. m \in Settings
  BY <1>1, <1>2, <1>3 DEF Settings, Config
<1>5. Clean(m)
  BY <1>1, NormalizedSettings DEF Clean
<1> QED
  BY <1>4, <1>5

\* LoadConnectorMediaConfig and main give settings without padding, whatever the
\* file holds.
LEMMA LoadedSettings ==
    ASSUME NEW file \in Config \cup {NoFile, BadFile}
    PROVE  Loaded(file) \in Settings
<1> DEFINE base == IF file \in {NoFile, BadFile} THEN Env ELSE Normalized(file)
<1>1. base \in Config
  BY NormalizedSettings, SetupAssumption DEF Settings
<1>2. WithPeerOf(base, Env) \in Config
  BY <1>1, SetupAssumption DEF WithPeerOf, Config
<1> QED
  BY <1>2, NormalizedSettings DEF Loaded

\* Savable settings stay savable when they are normalized once more, as
\* SaveConnectorMediaConfig and SetMediaConfig do.
LEMMA NormalizedSavable ==
    ASSUME NEW c, Savable(c)
    PROVE  Savable(Normalized(c))
BY NormalizedSettings DEF Savable, Settings, Clean

-----------------------------------------------------------------------------
(* The inductive invariant *)

LEMMA InitIInv == Init => IInv
<1> SUFFICES ASSUME Init PROVE IInv
  OBVIOUS
<1>1. disk \in Config \cup {NoFile, BadFile}
  BY SetupAssumption DEF Init
<1>2. memory \in Settings
  BY <1>1, LoadedSettings DEF Init
<1> QED
  BY <1>1, <1>2 DEF Init, IInv, TypeOK, Phases

\* One step per action.  The settings of a PUT are savable from the merge on, by
\* MergeSettings and the validation; a rename and SetMediaConfig pass them on;
\* a crash forgets every PUT and that any was answered.
LEMMA NextIInv == IInv /\ [Next]_vars => IInv'
<1> SUFFICES ASSUME IInv, [Next]_vars PROVE IInv'
  OBVIOUS
<1> USE DEF IInv
<1>1. ASSUME NEW r \in Requests, NEW body \in Bodies, ReceivePut(r, body)
      PROVE  IInv'
  <2>1. memory \in Config /\ body \in Config
    BY <1>1, SetupAssumption DEF ReceivePut, TypeOK, Settings
  <2>2. Savable(Merge(memory, body))
    BY <1>1, <2>1, MergeSettings DEF ReceivePut, Savable
  <2>3. TypeOK'
    BY <1>1, <2>2 DEF ReceivePut, Goto, TypeOK, Phases, Savable
  <2> QED
    BY <1>1, <2>2, <2>3 DEF ReceivePut, Goto, TypeOK
<1>2. ASSUME NEW r \in Requests, CreateTemp(r) \/ WriteTemp(r)
      PROVE  IInv'
  <2>1. TypeOK'
    BY <1>2 DEF CreateTemp, WriteTemp, Goto, TypeOK, Phases
  <2> QED
    BY <1>2, <2>1 DEF CreateTemp, WriteTemp, Goto, TypeOK
<1>3. ASSUME NEW r \in Requests, RenameTemp(r)
      PROVE  IInv'
  <2>1. Savable(disk')
    BY <1>3, NormalizedSavable DEF RenameTemp
  <2>2. TypeOK'
    BY <1>3, <2>1 DEF RenameTemp, Goto, TypeOK, Phases, Savable, Settings
  <2> QED
    BY <1>3, <2>1, <2>2 DEF RenameTemp, Goto, TypeOK
<1>4. ASSUME NEW r \in Requests, SaveFails(r)
      PROVE  IInv'
  <2>1. TypeOK'
    BY <1>4 DEF SaveFails, Return, Goto, TypeOK, Phases
  <2> QED
    BY <1>4, <2>1 DEF SaveFails, Return, Goto, TypeOK
<1>5. ASSUME NEW r \in Requests, Apply(r)
      PROVE  IInv'
  <2>1. Savable(memory') /\ Savable(disk')
    BY <1>5, NormalizedSavable DEF Apply
  <2>2. memory' # None
    BY <2>1, SetupAssumption DEF Savable, Settings
  <2>3. TypeOK'
    BY <1>5, <2>1 DEF Apply, Return, Goto, TypeOK, Phases, Savable
  <2> QED
    BY <1>5, <2>1, <2>2, <2>3 DEF Apply, Return, Goto, TypeOK
<1>6. ASSUME Stop
      PROVE  IInv'
  BY <1>6 DEF Stop, TypeOK, Phases
<1>7. ASSUME Start
      PROVE  IInv'
  <2>1. memory' \in Settings
    BY <1>7, LoadedSettings DEF Start, TypeOK
  <2>2. ~answered /\ \A r \in Requests : phase[r] = "none"
    BY <1>7, SetupAssumption DEF Start, Savable, Settings
  <2> QED
    BY <1>7, <2>1, <2>2 DEF Start, TypeOK
<1>8. ASSUME UNCHANGED vars
      PROVE  IInv'
  BY <1>8 DEF vars, TypeOK
<1> QED
  BY <1>1, <1>2, <1>3, <1>4, <1>5, <1>6, <1>7, <1>8 DEF Next, SetupStep

-----------------------------------------------------------------------------
(* Theorems *)

\* However many PUTs overlap, fail or die with the process, each holds normalized,
\* valid settings without stray secrets, and the file and the connector only ever
\* receive such settings (SetupHandler.config).
THEOREM SetupInvariant == Spec => []IInv
<1>1. Init => IInv
  BY InitIInv
<1>2. IInv /\ [Next]_vars => IInv'
  BY NextIInv
<1> QED
  BY <1>1, <1>2, PTL DEF Spec

\* What is in use, in the file or on its way there is always of the kind its
\* declaration says (ConnectorMediaConfig).
THEOREM TypeCorrect == Spec => []TypeOK
<1>1. IInv => TypeOK
  BY DEF IInv
<1> QED
  BY <1>1, SetupInvariant, PTL

\* Switching a service off drops its secret for good: no overlapping save that
\* keeps the secret in use brings it back (mergeWithExistingSecrets).
THEOREM SecretsFollowServices == Spec => []NoSecretWithoutService
<1>1. IInv => NoSecretWithoutService
  BY DEF IInv, Savable, Clean, NoSecretWithoutService
<1> QED
  BY <1>1, SetupInvariant, PTL

\* The file, once whole and valid, is so after every step (SaveConnectorMediaConfig
\* renames a finished temporary file over it).
THEOREM FileIsNeverBroken == Spec => FileStaysWhole
<1>1. IInv /\ [Next]_vars => (Whole(disk) => Whole(disk'))
  <2> SUFFICES ASSUME IInv, [Next]_vars, Whole(disk) PROVE Whole(disk')
    OBVIOUS
  <2>1. ASSUME NEW r \in Requests, RenameTemp(r)
        PROVE  Whole(disk')
    <3>1. Savable(disk')
      BY <2>1, NormalizedSavable DEF RenameTemp, IInv
    <3> QED
      BY <3>1, SetupAssumption DEF Savable, Settings, Whole
  <2>2. ASSUME UNCHANGED disk
        PROVE  Whole(disk')
    BY <2>2
  <2> QED
    BY <2>1, <2>2 DEF Next, SetupStep, ReceivePut, CreateTemp, WriteTemp, SaveFails, Apply, Stop, Start, vars
<1>2. IInv /\ [Next]_vars => [Whole(disk) => Whole(disk')]_vars
  BY <1>1
<1> QED
  BY <1>2, SetupInvariant, PTL DEF Spec, FileStaysWhole

-----------------------------------------------------------------------------
(* One PUT at a time implements the contract *)

\* Settings without padding are what they are normalized to.
LEMMA NormalizedOnce ==
    ASSUME NEW c \in Settings
    PROVE  Normalized(c) = c
<1>1. c \in Config
  BY DEF Settings
<1>2. ASSUME NEW s \in Services
      PROVE  Normalized(c).url[s] = c.url[s]
  <2>1. CASE c.url[s] = None
    BY <2>1 DEF Normalized
  <2>2. CASE c.url[s] # None
    <3>1. c.url[s] \in Link /\ c.url[s].padded = FALSE
      BY <1>1, <2>2 DEF Settings, Config, Url, Link
    <3>2. c.url[s] = [host |-> c.url[s].host, padded |-> FALSE]
      BY <3>1 DEF Link
    <3> QED
      BY <2>2, <3>2 DEF Normalized
  <2> QED
    BY <2>1, <2>2
<1>3. Normalized(c).url = c.url
  BY <1>1, <1>2, NormalizedSettings DEF Config, Settings
<1> QED
  BY <1>1, <1>3 DEF Normalized, Config

\* While a single PUT saves, the settings in use are still those it was merged
\* into.
MergedIntoMemory ==
    \A r \in Requests : phase[r] \in {"save", "temp", "written"} =>
        \E body \in Bodies : cfg[r] = Merge(memory, body)

LEMMA SingleApplied ==
    ASSUME NEW one, Requests = {one}
    PROVE  /\ Applied = IF phase[one] = "apply" THEN Normalized(cfg[one]) ELSE memory
           /\ Applied' = IF phase'[one] = "apply" THEN Normalized(cfg'[one]) ELSE memory'
<1>1. ASSUME phase[one] = "apply"
      PROVE  (CHOOSE r \in Requests : phase[r] = "apply") = one
  BY <1>1
<1>2. ASSUME phase'[one] = "apply"
      PROVE  (CHOOSE r \in Requests : phase'[r] = "apply") = one
  BY <1>2
<1> QED
  BY <1>1, <1>2 DEF Applied

LEMMA MergedInit == Init => MergedIntoMemory
BY DEF Init, MergedIntoMemory

LEMMA MergedNext ==
    ASSUME NEW one, Requests = {one}, IInv, MergedIntoMemory, [Next]_vars
    PROVE  MergedIntoMemory'
<1> USE DEF MergedIntoMemory, IInv, TypeOK
<1>1. ASSUME NEW body \in Bodies, ReceivePut(one, body)
      PROVE  MergedIntoMemory'
  BY <1>1, SetupAssumption DEF ReceivePut, Goto
<1>2. ASSUME CreateTemp(one) \/ WriteTemp(one)
      PROVE  MergedIntoMemory'
  BY <1>2 DEF CreateTemp, WriteTemp, Goto
<1>3. ASSUME RenameTemp(one) \/ SaveFails(one) \/ Apply(one)
      PROVE  MergedIntoMemory'
  BY <1>3 DEF RenameTemp, SaveFails, Apply, Return, Goto
<1>4. ASSUME Stop
      PROVE  MergedIntoMemory'
  BY <1>4 DEF Stop
<1>5. ASSUME Start
      PROVE  MergedIntoMemory'
  BY <1>5 DEF Start
<1>6. ASSUME UNCHANGED vars
      PROVE  MergedIntoMemory'
  BY <1>6 DEF vars
<1> QED
  BY <1>1, <1>2, <1>3, <1>4, <1>5, <1>6 DEF Next, SetupStep

LEMMA SingleStep ==
    ASSUME NEW one, Requests = {one}, IInv, MergedIntoMemory, [Next]_vars
    PROVE  [Contract!Next]_<<disk, Applied>>
<1> DEFINE Applied1 == IF phase[one] = "apply" THEN Normalized(cfg[one]) ELSE memory
<1>0. /\ Applied = Applied1
      /\ Applied' = IF phase'[one] = "apply" THEN Normalized(cfg'[one]) ELSE memory'
  BY SingleApplied
<1>1. ASSUME NEW body \in Bodies, ReceivePut(one, body)
      PROVE  UNCHANGED <<disk, Applied>>
  BY <1>0, <1>1 DEF ReceivePut, Goto, IInv, TypeOK
<1>2. ASSUME CreateTemp(one) \/ WriteTemp(one) \/ SaveFails(one)
      PROVE  UNCHANGED <<disk, Applied>>
  BY <1>0, <1>2 DEF CreateTemp, WriteTemp, SaveFails, Return, Goto, IInv, TypeOK
<1>3. ASSUME RenameTemp(one)
      PROVE  Contract!Next
  <2>1. PICK body \in Bodies : cfg[one] = Merge(memory, body)
    BY <1>3 DEF RenameTemp, MergedIntoMemory
  <2>2. /\ Normalized(cfg[one]) = cfg[one]
        /\ Valid(cfg[one])
        /\ memory # None
    BY <1>3, NormalizedOnce DEF RenameTemp, IInv, Savable
  <2>3. Applied = memory /\ Applied' = cfg[one] /\ disk' = cfg[one]
    BY <1>0, <1>3, <2>2 DEF RenameTemp, Goto, IInv, TypeOK
  <2>4. Contract!Save(body)
    BY <2>1, <2>2, <2>3 DEF Contract!Save, Contract!Valid, Contract!Merge, Contract!Normalized,
        Valid, Merge, Normalized
  <2> QED
    BY <2>4 DEF Contract!Next
<1>4. ASSUME Apply(one)
      PROVE  UNCHANGED <<disk, Applied>>
  BY <1>0, <1>4 DEF Apply, Return, Goto, IInv, TypeOK
<1>5. ASSUME Stop
      PROVE  Contract!Next
  BY <1>0, <1>5 DEF Stop, Contract!Next, Contract!Stop
<1>6. ASSUME Start
      PROVE  Contract!Next
  <2>1. phase[one] = "none"
    BY <1>6, SetupAssumption DEF Start, IInv, TypeOK
  <2>2. Applied = None /\ Applied' = Loaded(disk) /\ disk' = disk
    BY <1>0, <1>6, <2>1 DEF Start
  <2> QED
    BY <2>2 DEF Contract!Next, Contract!Start, Contract!Loaded, Contract!Normalized,
        Contract!WithPeerOf, Loaded, Normalized, WithPeerOf
<1>7. ASSUME UNCHANGED vars
      PROVE  UNCHANGED <<disk, Applied>>
  BY <1>0, <1>7 DEF vars
<1> QED
  BY <1>1, <1>2, <1>3, <1>4, <1>5, <1>6, <1>7 DEF Next, SetupStep

\* For any services, settings and submissions: PUTs that do not overlap are atomic
\* over the file and the running connector, whatever fails and wherever the
\* process dies (SetupHandler.config, SaveConnectorMediaConfig, main).
THEOREM SavesImplementContract ==
    ASSUME NEW one, Requests = {one}
    PROVE  Spec => SavesAreAtomic
<1>1. Init => Contract!Init
  <2> SUFFICES ASSUME Init PROVE Contract!Init
    OBVIOUS
  <2>1. Applied = Loaded(disk)
    BY SingleApplied DEF Init
  <2> QED
    BY <2>1, SetupAssumption DEF Init, Contract!Init, Contract!Loaded, Contract!Normalized,
        Contract!WithPeerOf, Loaded, Normalized, WithPeerOf, Contract!Config, Contract!Url,
        Contract!Link, Contract!Peer, Config, Url, Link, Peer
<1>2. MergedIntoMemory /\ IInv /\ [Next]_vars => MergedIntoMemory'
  BY MergedNext
<1>3. MergedIntoMemory /\ IInv /\ [Next]_vars => [Contract!Next]_(Contract!vars)
  BY SingleStep DEF Contract!vars
<1> QED
  BY <1>1, <1>2, <1>3, MergedInit, SetupInvariant, PTL DEF Spec, SavesAreAtomic, Contract!Spec

-----------------------------------------------------------------------------
(* Calls for media beside the saving *)

\* Calls for media never disturb the saving of settings: beside any number of them
\* it goes as it does alone, so that what is proved of it above holds here too.
THEOREM CallsLeaveSettingsAlone == MediaSpec => Spec
<1>1. MediaInit => Init
  BY DEF MediaInit
<1>2. [MediaNext]_allVars => [Next]_vars
  <2> SUFFICES ASSUME [MediaNext]_allVars PROVE [Next]_vars
    OBVIOUS
  <2>1. ASSUME NEW m \in Calls, NEW q \in Asks, GatewayCalls(m, q) \/ SetupCalls(m, q)
        PROVE  UNCHANGED vars
    BY <2>1 DEF GatewayCalls, SetupCalls
  <2>2. ASSUME NEW m \in Calls, CallStep(m) \/ GatewayGivesUp(m)
        PROVE  UNCHANGED vars
    BY <2>2 DEF CallStep, ConnectorServes, AskMedia, MediaAnswers, Retry, GatewayGivesUp, Answer
  <2>3. CASE SettingsChange \/ ConnectorDies
    BY <2>3 DEF SettingsChange, ConnectorDies, Next
  <2>4. CASE UNCHANGED allVars
    BY <2>4 DEF allVars
  <2> QED
    BY <2>1, <2>2, <2>3, <2>4 DEF MediaNext
<1> QED
  BY <1>1, <1>2, PTL DEF MediaSpec, Spec

\* Host and secret in settings c for the service of a call.
Pair(c, q) ==
    [host |-> IF c.url[q.service] = None THEN None ELSE c.url[q.service].host,
     token |-> c.token[q.service]]

CallDomains ==
    /\ DOMAIN stage = Calls /\ DOMAIN ask = Calls /\ DOMAIN using = Calls
    /\ DOMAIN retries = Calls /\ DOMAIN asked = Calls /\ DOMAIN during = Calls

\* What is known of one call: one from the gateway brings no candidate; the
\* settings in use now, those it took, and those it asked with all give a pair that
\* has been seen since it came in.
CallOK(m) ==
    /\ stage[m] \in {"none", "connector", "build", "media"}
    /\ stage[m] = "none" => asked[m] = None
    /\ stage[m] # "none" => Given(memory, ask[m]) \in during[m]
    /\ stage[m] = "connector" => ask[m].candidate = None
    /\ stage[m] \in {"build", "media"} => Pair(using[m], ask[m]) \in during[m]
    /\ asked[m] # None => asked[m] \in during[m]

CallsOK == CallDomains /\ \A m \in Calls : CallOK(m)

LEMMA GivenPair == \A c, q : Given(c, q) = Pair(SettingsFor(q, c), q)
  BY DEF Given, Pair

\* A step of one call m leaves the others and the settings alone.
CallFrame(m) ==
    /\ CallDomains'
    /\ UNCHANGED memory
    /\ \A k \in Calls \ {m} :
          /\ stage'[k] = stage[k] /\ ask'[k] = ask[k] /\ using'[k] = using[k]
          /\ asked'[k] = asked[k] /\ during'[k] = during[k]

LEMMA OneCall ==
    ASSUME NEW m \in Calls, CallsOK, CallFrame(m), CallOK(m)'
    PROVE  CallsOK'
<1>1. ASSUME NEW k \in Calls \ {m} PROVE CallOK(k)'
  <2>1. CallOK(k)
    BY DEF CallsOK
  <2> QED
    BY <2>1 DEF CallFrame, CallOK
<1> QED
  BY <1>1 DEF CallsOK, CallFrame

LEMMA AnswerKept ==
    ASSUME NEW m \in Calls, CallsOK, Answer(m)
    PROVE  CallsOK'
<1>1. CallFrame(m)
  BY DEF Answer, CallsOK, CallDomains, CallFrame, vars
<1>2. CallOK(m)'
  BY DEF Answer, CallsOK, CallDomains, CallOK
<1> QED
  BY <1>1, <1>2, OneCall

LEMMA CallsKept == CallsOK /\ [MediaNext]_allVars => CallsOK'
<1> SUFFICES ASSUME CallsOK, [MediaNext]_allVars PROVE CallsOK'
  OBVIOUS
<1>a. CallDomains /\ \A m \in Calls : CallOK(m)
  BY DEF CallsOK
<1>1. ASSUME NEW m \in Calls, NEW q \in Asks, GatewayCalls(m, q)
      PROVE  CallsOK'
  <2>1. CallFrame(m)
    BY <1>1, <1>a DEF GatewayCalls, Proceed, CallDomains, CallFrame, vars
  <2>2. /\ stage'[m] = "connector" /\ ask'[m] = q /\ during'[m] = {Given(memory, q)}
        /\ asked'[m] = asked[m] /\ asked[m] = None /\ UNCHANGED memory
    BY <1>1, <1>a DEF GatewayCalls, Proceed, CallDomains, CallOK, vars
  <2>3. q.candidate = None
    BY <1>1, AsksAssumption DEF GatewayCalls
  <2>4. CallOK(m)'
    BY <2>2, <2>3 DEF CallOK, Given, SettingsFor
  <2> QED
    BY <2>1, <2>4, OneCall
<1>2. ASSUME NEW m \in Calls, NEW q \in Asks, SetupCalls(m, q)
      PROVE  CallsOK'
  <2>1. CallFrame(m)
    BY <1>2, <1>a DEF SetupCalls, Proceed, CallDomains, CallFrame, vars
  <2>2. /\ stage'[m] = "build" /\ ask'[m] = q /\ during'[m] = {Given(memory, q)}
        /\ using'[m] = SettingsFor(q, memory)
        /\ asked'[m] = asked[m] /\ asked[m] = None /\ UNCHANGED memory
    BY <1>2, <1>a DEF SetupCalls, Proceed, CallDomains, CallOK, vars
  <2>3. Pair(using'[m], q) = Given(memory, q)
    BY <2>2, GivenPair
  <2>4. CallOK(m)'
    BY <2>2, <2>3 DEF CallOK, Given, SettingsFor, Pair
  <2> QED
    BY <2>1, <2>4, OneCall
<1>3. ASSUME NEW m \in Calls, ConnectorServes(m)
      PROVE  CallsOK'
  <2>1. CASE Answer(m)
    BY <2>1, AnswerKept
  <2>2. CASE ~Answer(m)
    <3>1. /\ stage[m] = "connector" /\ Proceed(m, "build", memory)
          /\ UNCHANGED <<vars, trusted, ask, retries, asked, during>>
      BY <1>3, <2>2 DEF ConnectorServes
    <3>2. CallFrame(m)
      BY <3>1, <1>a DEF Proceed, CallDomains, CallFrame, vars
    <3>3. /\ stage'[m] = "build" /\ using'[m] = memory
          /\ UNCHANGED <<ask, asked, during, memory>>
      BY <3>1, <1>a DEF Proceed, CallDomains, vars
    <3>4. CallOK(m) /\ ask[m].candidate = None
      BY <3>1, <1>a DEF CallOK
    <3>5. Pair(memory, ask[m]) = Given(memory, ask[m])
      BY <3>4, GivenPair DEF SettingsFor
    <3>6. CallOK(m)'
      BY <3>1, <3>3, <3>4, <3>5 DEF CallOK, Given, SettingsFor, Pair
    <3> QED
      BY <3>2, <3>6, OneCall
  <2> QED
    BY <2>1, <2>2
<1>4. ASSUME NEW m \in Calls, AskMedia(m)
      PROVE  CallsOK'
  <2>1. CASE Answer(m)
    BY <2>1, AnswerKept
  <2>2. CASE ~Answer(m)
    <3>1. /\ stage[m] = "build" /\ Buildable(ask[m], using[m])
          /\ asked' = [asked EXCEPT ![m] = Credentials(m)]
          /\ Proceed(m, "media", using[m])
          /\ UNCHANGED <<vars, trusted, ask, retries, during>>
      BY <1>4, <2>2 DEF AskMedia
    <3>2. CallFrame(m)
      BY <3>1, <1>a DEF Proceed, CallDomains, CallFrame, vars
    <3>3. /\ stage'[m] = "media" /\ using'[m] = using[m] /\ asked'[m] = Credentials(m)
          /\ UNCHANGED <<ask, during, memory>>
      BY <3>1, <1>a DEF Proceed, CallDomains, vars
    <3>4. Credentials(m) = Pair(using[m], ask[m])
      BY <3>1 DEF Credentials, Pair, Buildable
    <3>5. CallOK(m)
      BY <1>a
    <3>6. CallOK(m)'
      BY <3>1, <3>3, <3>4, <3>5 DEF CallOK, Given, SettingsFor, Pair
    <3> QED
      BY <3>2, <3>6, OneCall
  <2> QED
    BY <2>1, <2>2
<1>5. ASSUME NEW m \in Calls, NEW outcome, MediaAnswers(m, outcome)
      PROVE  CallsOK'
  <2>1. CASE Answer(m)
    BY <2>1, AnswerKept
  <2>2. CASE ~Answer(m)
    <3>1. stage[m] = "media" /\ Retry(m)
      BY <1>5, <2>2 DEF MediaAnswers
    <3>2. CallFrame(m)
      BY <3>1, <1>a DEF Retry, Proceed, CallDomains, CallFrame, vars
    <3>3. /\ stage'[m] = "build" /\ using'[m] = using[m]
          /\ UNCHANGED <<ask, asked, during, memory>>
      BY <3>1, <1>a DEF Retry, Proceed, CallDomains, vars
    <3>4. CallOK(m)
      BY <1>a
    <3>5. CallOK(m)'
      BY <3>1, <3>3, <3>4 DEF CallOK, Given, SettingsFor, Pair
    <3> QED
      BY <3>2, <3>5, OneCall
  <2> QED
    BY <2>1, <2>2
<1>6. ASSUME NEW m \in Calls, GatewayGivesUp(m)
      PROVE  CallsOK'
  BY <1>6, AnswerKept DEF GatewayGivesUp
<1>7. CASE SettingsChange
  <2>1. CallDomains' /\ UNCHANGED <<stage, ask, using, asked>>
    BY <1>7, <1>a DEF SettingsChange, CallDomains
  <2>2. ASSUME NEW m \in Calls PROVE CallOK(m)'
    <3>1. during'[m] = IF stage[m] = "none" THEN {} ELSE during[m] \cup {Given(memory', ask[m])}
      BY <1>7 DEF SettingsChange
    <3>2. CallOK(m)
      BY <1>a
    <3>3. stage[m] # "none" => Given(memory', ask'[m]) \in during'[m]
      BY <2>1, <3>1
    <3>4. Pair(using'[m], ask'[m]) = Pair(using[m], ask[m])
      BY <2>1
    <3> QED
      BY <2>1, <3>1, <3>2, <3>3, <3>4 DEF CallOK
  <2> QED
    BY <2>1, <2>2 DEF CallsOK
<1>8. CASE ConnectorDies
  BY <1>8 DEF ConnectorDies, CallsOK, CallDomains, CallOK
<1>9. CASE UNCHANGED allVars
  BY <1>9, <1>a DEF allVars, callVars, vars, CallsOK, CallDomains, CallOK, Given, SettingsFor, Pair
<1> QED
  BY <1>1, <1>2, <1>3, <1>4, <1>5, <1>6, <1>7, <1>8, <1>9 DEF MediaNext, CallStep

\* However saves, retries, timeouts and crashes fall between the steps of a call, a
\* media server is asked with a host and a secret that were in use together at one
\* moment since it came in (Connector.ServeHTTP, SetupHandler, mediaConfig).
THEOREM CallsUseOneSetting == MediaSpec => []AskedWithOneSetting
<1>1. MediaInit => CallsOK
  BY DEF MediaInit, CallsOK, CallDomains, CallOK
<1>2. CallsOK => AskedWithOneSetting
  BY DEF CallsOK, CallOK, AskedWithOneSetting
<1> QED
  BY <1>1, <1>2, CallsKept, PTL DEF MediaSpec
============================================================================
