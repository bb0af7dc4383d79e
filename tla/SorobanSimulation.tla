------------------------- MODULE SorobanSimulation --------------------------
(***************************************************************************)
(* Simulation of a contract call before it is signed, in two parts: how a  *)
(* revert is decoded, and the services that simulate and estimate.         *)
(***************************************************************************)
EXTENDS Naturals, FiniteSets, RiskEngine, Sequences

-----------------------------------------------------------------------------
(***************************************************************************)
(* Decoding of contract reverts                                            *)
(* (src/common/exceptions/contract-revert.decoder.ts).  A payload reaches   *)
(* the API as bytes, as text, as an Error or as an object, one wrapped in   *)
(* another.  A text is its shape (blank, hex, base64, a host error, other)  *)
(* and a message its subject: which of the three patterns it matches.       *)
(***************************************************************************)

CONSTANT ErrorAbis   \* selectors of registerContractErrorAbi -> the subject of the description

Nothing == [t |-> "nothing"]

\* Bytes: fewer than four, or a selector and arguments that may be cut short.
Bytes(selector, whole, subject) ==
  [t |-> "bytes", selector |-> selector, whole |-> whole, subject |-> subject]

Blank == [t |-> "text", shape |-> "blank"]
Encoded(how, bytes) == [t |-> "text", shape |-> how, bytes |-> bytes]
HostError(type) == [t |-> "text", shape |-> "host", type |-> type]
BrokenHex == [t |-> "text", shape |-> "brokenHex"]
Words(subject) == [t |-> "text", shape |-> "words", subject |-> subject]

Err(payload, message) == [t |-> "error", payload |-> payload, message |-> message]

Object(contract, error, code, payload, message) ==
  [t |-> "object", contract |-> contract, error |-> error, code |-> code,
   payload |-> payload, message |-> message]

Number == [t |-> "number"]

-----------------------------------------------------------------------------
Decoded(kind, subject) ==
  [kind |-> kind, subject |-> subject, contract |-> "", coded |-> FALSE,
   host |-> "", signed |-> FALSE]

UnknownRevert == Decoded("unknown", "other")

DecodeBytes(b) ==
  CASE b.selector = "short" -> UnknownRevert
    [] b.selector = "Error(string)" ->
         [Decoded("message", IF b.whole THEN b.subject ELSE "other") EXCEPT !.signed = TRUE]
    [] b.selector = "Panic(uint256)" -> [Decoded("panic", "other") EXCEPT !.signed = TRUE]
    [] b.selector \in DOMAIN ErrorAbis ->
         [Decoded("custom", ErrorAbis[b.selector]) EXCEPT !.signed = TRUE]
    [] OTHER -> UnknownRevert

ParseHostError(s) == [Decoded("contract", "other") EXCEPT !.host = s.type]

DecodeString(s) ==
  CASE s.shape \in {"blank", "brokenHex"} -> UnknownRevert
    [] s.shape \in {"hex", "base64"} -> DecodeBytes(s.bytes)
    [] s.shape = "host" -> ParseHostError(s)
    [] OTHER -> Decoded("message", s.subject)

WithContext(decoded, contract, coded) ==
  IF decoded.kind = "unknown" THEN decoded
  ELSE [decoded EXCEPT !.contract = IF @ = "" THEN contract ELSE @, !.coded = @ \/ coded]

RECURSIVE DecodeInput(_)

DecodeError_MessageOnly(e) == DecodeString(e.message)

DecodeError(e) == IF e.payload # Nothing THEN DecodeInput(e.payload) ELSE DecodeString(e.message)

RECURSIVE DecodeObject(_)
DecodeObject(o) ==
  CASE o.error.t = "object" -> WithContext(DecodeObject(o.error), o.contract, FALSE)
    [] o.error.t # "object" /\ o.payload.t \in {"text", "bytes"} ->
         WithContext(DecodeInput(o.payload), o.contract, o.code)
    [] o.error.t = "error" /\ o.payload.t \notin {"text", "bytes"} ->
         WithContext(DecodeError(o.error), o.contract, o.code)
    [] o.error.t = "text" /\ o.payload.t \notin {"text", "bytes"} ->
         WithContext(DecodeString(o.error), o.contract, o.code)
    [] o.error = Nothing /\ o.payload.t \notin {"text", "bytes"} /\ o.message # Nothing ->
         WithContext(DecodeString(o.message), o.contract, o.code)
    [] o.error = Nothing /\ o.payload.t \notin {"text", "bytes"} /\ o.message = Nothing /\ o.code ->
         [Decoded("contract", "other") EXCEPT !.contract = o.contract, !.coded = TRUE]
    [] OTHER -> UnknownRevert

DecodeInput(i) ==
  CASE i.t = "error"  -> DecodeError(i)
    [] i.t = "bytes"  -> DecodeBytes(i)
    [] i.t = "text"   -> DecodeString(i)
    [] i.t = "object" -> DecodeObject(i)
    [] OTHER          -> UnknownRevert

IsRecognisedContractRevert(d) == d.kind \in {"contract", "custom", "panic"} \/ d.signed

ToContractRevertException(d) ==
  CASE d.kind = "panic" -> "CONTRACT_PANIC"
    [] d.kind # "panic" /\ d.subject = "funds" -> "INSUFFICIENT_FUNDS"
    [] d.kind # "panic" /\ d.subject # "funds" /\ (d.host = "Auth" \/ d.subject = "auth") -> "FORBIDDEN"
    [] d.kind # "panic" /\ d.subject = "conflict" -> "CONFLICT"
    [] OTHER -> "CONTRACT_REVERTED"

-----------------------------------------------------------------------------
(***************************************************************************)
(* Simulation of a Soroban transaction before it is submitted: the two     *)
(* simulation services, StellarService.simulateTransaction and the gas     *)
(* estimator (modules/transactions/services, modules/stellar/services).    *)
(* They validate the envelope, call the RPC through a circuit breaker,     *)
(* decode a revert however the client hands it over, buffer and cap the    *)
(* fee and score the risk.  The breaker is CircuitBreaker's subject: here  *)
(* it is an RPC call that may fail fast.  Percentages are whole numbers.   *)
(***************************************************************************)

CONSTANTS Payloads,         \* bare revert payloads: texts and bytes
          Fees, Instructions,
          EventLogs,        \* sequences of "valid" and "malformed" logs
          Buffers,          \* configured safety buffers
          BufferOverrides, GasLimits,
          MaxGasLimit, FallbackGasLimit, FallbackFee,
          MaxSafeInteger

VARIABLE simulation   \* one call: who was asked, with what, and what it answered

simulationVars == <<simulation>>

Services == {"soroban", "stellar", "gateway"}

\* The ways in which an RPC client passes a payload on.
Wrappings(p) ==
  LET text == p.t = "text"
  IN  {Err(p, Words("other")), Object("c1", Nothing, FALSE, p, Nothing),
       Object("c1", Object("", Nothing, TRUE, p, Words("other")), FALSE, Nothing, Nothing),
       Object("", Err(p, Blank), TRUE, Nothing, Words("other")),
       Err(Object("c1", Nothing, TRUE, p, Nothing), Blank)}
      \cup (IF text THEN {Err(Nothing, p), Object("c1", p, FALSE, Nothing, Nothing),
                          Object("", Nothing, TRUE, Nothing, p)} ELSE {})

\* What the RPC client does with a call.
Replies ==
  {[how |-> "circuitOpen"]}
  \cup UNION {{[how |-> "throws", bare |-> p, with |-> w] : w \in Wrappings(p)} : p \in Payloads}
  \cup UNION {{[how |-> "fails", bare |-> p, with |-> w] : w \in {x \in Wrappings(p) : x.t = "object"}}
                : p \in Payloads}
  \cup {[how |-> "fails", bare |-> Words("other"), with |-> Object("", Nothing, FALSE, Nothing, Words("other"))]}
  \cup {[how |-> "ok", warned |-> x, fee |-> f, cpu |-> n, writes |-> w, events |-> e, hour |-> h] :
          x \in BOOLEAN, f \in Fees, n \in Instructions, w \in BOOLEAN, e \in EventLogs, h \in {3, 12}}

\* A result may report success and carry an error all the same.
Warning == Object("", Nothing, FALSE, Nothing, Words("other"))

-----------------------------------------------------------------------------
PositiveOr(value, fallback) == IF value > 0 THEN value ELSE fallback

SafetyBuffer(configured) == PositiveOr(configured, 25)

Smaller(x, y) == IF x < y THEN x ELSE y

Absent == -1

ResolveBuffer(override, configured) ==
  CASE override = Absent -> Smaller(SafetyBuffer(configured), 100)
    [] override # Absent /\ override < 0 -> SafetyBuffer(configured)
    [] override >= 0 -> Smaller(override, 100)

ResolveBlockLimit(override) ==
  IF override > 0 /\ override < MaxGasLimit THEN override ELSE MaxGasLimit

\* Mutant: rounded down.
ApplySafetyBuffer_Floor(value, percent) ==
  IF percent <= 0 THEN value
  ELSE IF value > MaxSafeInteger \div (100 + percent) THEN MaxSafeInteger
  ELSE (value * (100 + percent)) \div 100

ApplySafetyBuffer(value, percent) ==
  IF percent <= 0 THEN value
  ELSE IF value > MaxSafeInteger \div (100 + percent) THEN MaxSafeInteger
  ELSE (value * (100 + percent) + 99) \div 100

Estimate(fee, cpu, source, percent, limit) ==
  [fee |-> ApplySafetyBuffer(fee, percent), gas |-> Smaller(ApplySafetyBuffer(cpu, percent), limit),
   source |-> source, capped |-> ApplySafetyBuffer(cpu, percent) > limit, percent |-> percent]

\* A result without a usable instruction count falls back to static limits.
FromSimulation(reply, configured, override, limit) ==
  LET percent == ResolveBuffer(override, configured)
  IN  IF reply.how = "ok" /\ ~reply.warned /\ reply.cpu # 0
      THEN Estimate(reply.fee, reply.cpu, "simulated", percent, ResolveBlockLimit(limit))
      ELSE Estimate(FallbackFee, FallbackGasLimit, "fallback", percent, ResolveBlockLimit(limit))

-----------------------------------------------------------------------------
ValidateEventLog(log) == log = "valid"

ParseContractEventLogs(logs) == SelectSeq(logs, ValidateEventLog)

\* Risk factors when the caller gives none: the fee stands for the amount.
BuildDefaultRiskFactors(reply) ==
  [amount |-> (IF reply.fee > 10000000 THEN 10000000 ELSE reply.fee) \div 1000,
   amountBaseline |-> 0, knownRecipient |-> ~reply.writes,
   destinationPaymentCount |-> 0, destinationFailureCount |-> 0,
   recentTransactionCount |-> Len(ParseContractEventLogs(reply.events)), recentTransactionAmount |-> 0,
   walletAgeDays |-> 90, policyViolations |-> 0, hourUtc |-> reply.hour]

GivenRiskFactors ==
  [amount |-> 10000, amountBaseline |-> 1, knownRecipient |-> FALSE,
   destinationPaymentCount |-> 5, destinationFailureCount |-> 5,
   recentTransactionCount |-> 20, recentTransactionAmount |-> 20000,
   walletAgeDays |-> 0, policyViolations |-> 2, hourUtc |-> 0]

Thrown(e) ==
  LET d == DecodeInput(e)
  IN  IF IsRecognisedContractRevert(d) THEN ToContractRevertException(d) ELSE "STELLAR_ERROR"

RiskVerdict(reply, given, maxRiskScore) ==
  LET risk == Assess(IF given THEN GivenRiskFactors ELSE BuildDefaultRiskFactors(reply), <<>>)
  IN  IF risk.score > maxRiskScore THEN "RISK_TOO_HIGH"
      ELSE IF risk.score > 20 \/ risk.band # "LOW" THEN "approval" ELSE "ok"

ValidateXdr(xdr) ==
  CASE xdr = "empty" -> "VALIDATION_ERROR"
    [] xdr = "malformed" -> "INVALID_STELLAR_TRANSACTION"
    [] xdr = "valid" -> "ok"

\* simulate() of the two simulation services: XDR, RPC, decoding, gas, risk.
ServiceAnswer(xdr, reply, given, maxRiskScore) ==
  IF ValidateXdr(xdr) # "ok" THEN ValidateXdr(xdr)
  ELSE CASE reply.how = "circuitOpen" -> "CIRCUIT_OPEN"
         [] reply.how = "throws" -> Thrown(reply.with)
         [] reply.how = "fails" -> ToContractRevertException(DecodeInput(reply.with))
         [] reply.how = "ok" -> RiskVerdict(reply, given, maxRiskScore)

\* StellarService.simulateTransaction: no base64 test, no risk.
GatewayAnswer(xdr, reply) ==
  CASE xdr = "empty" -> "INVALID_STELLAR_TRANSACTION"
    [] xdr # "empty" /\ reply.how = "circuitOpen" -> "CIRCUIT_OPEN"
    [] xdr # "empty" /\ reply.how = "throws" -> Thrown(reply.with)
    [] xdr # "empty" /\ reply.how = "fails" -> ToContractRevertException(DecodeInput(reply.with))
    [] xdr # "empty" /\ reply.how = "ok" ->
         IF reply.warned THEN ToContractRevertException(DecodeInput(Warning)) ELSE "ok"

Xdrs == {"empty", "malformed", "valid"}

SimulationInit == simulation = [asked |-> "none"]

Asked(service, xdr, reply, given, most, answer) ==
  /\ simulation.asked = "none"
  /\ xdr # "valid" => reply.how = "circuitOpen"
  /\ simulation' =
       [asked |-> service, xdr |-> xdr, reply |-> reply, given |-> given, most |-> most,
        limit |-> 0, answer |-> answer, gas |-> FromSimulation(reply, 0, Absent, 0)]

SorobanSimulate ==
  \E xdr \in Xdrs, reply \in Replies, given \in BOOLEAN, most \in {0, 80} :
    Asked("soroban", xdr, reply, given, most, ServiceAnswer(xdr, reply, given, most))

\* simulateWithDefaults
StellarSimulate ==
  \E xdr \in Xdrs, reply \in Replies, given \in BOOLEAN :
    Asked("stellar", xdr, reply, given, 80, ServiceAnswer(xdr, reply, given, 80))

GatewaySimulate ==
  \E xdr \in Xdrs, reply \in Replies :
    Asked("gateway", xdr, reply, FALSE, 80, GatewayAnswer(xdr, reply))

\* estimate(): no failure propagates.
EstimateGas ==
  /\ simulation.asked = "none"
  /\ \E reply \in Replies, configured \in Buffers, override \in BufferOverrides, limit \in GasLimits :
       /\ reply.how \in {"throws", "fails"} => reply.bare = (CHOOSE p \in Payloads : TRUE)
       /\ simulation' =
            [asked |-> "gas", reply |-> reply, limit |-> limit,
             gas |-> FromSimulation(reply, configured, override, limit)]

SimulationNext == SorobanSimulate \/ StellarSimulate \/ GatewaySimulate \/ EstimateGas

SimulationSpec == SimulationInit /\ [][SimulationNext]_simulationVars

-----------------------------------------------------------------------------
(* A revert reads the same however the RPC client hands it over: the        *)
(* payload in an Error, in a field of an object, nested, as a message, or   *)
(* in a failed result gives the error code of the bare payload.  And what   *)
(* the client throws without such a payload is an outage, never a revert.   *)
(* Risk alone refuses a simulation only when the caller gave factors or a   *)
(* lower maximum.                                                           *)
RevertIsNotAnOutage ==
  simulation.asked \in Services /\ simulation.xdr = "valid" =>
    LET reply == simulation.reply
    IN  /\ reply.how \in {"throws", "fails"} =>
             LET d == DecodeInput(reply.bare)
             IN  simulation.answer =
                   IF reply.how = "throws" /\ ~IsRecognisedContractRevert(d) THEN "STELLAR_ERROR"
                   ELSE ToContractRevertException(d)
        /\ simulation.answer = "RISK_TOO_HIGH" => simulation.given \/ simulation.most < 80

(* The gas limit never passes the smaller of the network's ceiling and the  *)
(* caller's; unless it is lowered to that, or the product leaves the safe   *)
(* integers, it covers the simulated instructions with the whole buffer,    *)
(* rounded in the caller's favour, and so does the fee.                     *)
GasEnvelope ==
  simulation.asked = "gas" \/ (simulation.asked # "none" /\ simulation.answer \in {"ok", "approval"}) =>
    LET g == simulation.gas
        r == simulation.reply
    IN  /\ g.gas <= MaxGasLimit
        /\ simulation.limit > 0 => g.gas <= simulation.limit
        /\ g.source = "simulated" =>
             /\ ~g.capped => g.gas = MaxSafeInteger \/ 100 * g.gas >= r.cpu * (100 + g.percent)
             /\ g.fee = MaxSafeInteger \/ 100 * g.fee >= r.fee * (100 + g.percent)
        /\ g.source = "fallback" => r.how # "ok" \/ r.warned \/ r.cpu = 0
=============================================================================
