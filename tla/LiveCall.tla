------------------------------ MODULE LiveCall ------------------------------
(***************************************************************************)
(* One paid request, as scripts/gate-h/live-smoke.mjs makes it: the        *)
(* authorization gate (live-gate.ts), a reservation for a pessimistic cost *)
(* (openai-cost.ts), one submission (openai-transport.ts), and a receipt   *)
(* of what is known of it.  The provider and the network between are not   *)
(* part of the code: whether it charged is what the script cannot see.     *)
(* Dollars are whole units.                                                *)
(***************************************************************************)
EXTENDS BudgetGuard, Sequences, FiniteSets

CONSTANTS
  Rates,           \* the evidence: tier -> class of tokens -> price
  Threshold,       \* LONG_CONTEXT_THRESHOLD_TOKENS
  PromptEstimates, \* tokens the prompt may be taken for
  MaxOutputTokens,
  Usages,          \* what the provider may have metered: class -> tokens
  NoUsage          \* nothing metered, nothing charged

Tiers == {"short", "long"}
Classes == {"input", "cached", "write", "output"}
Signals == {"OPENAI_API_KEY", "OML_LIVE_APPROVED", "OML_LIVE_BUDGET_USD"}

\* Cached input is a part of the input; the long tier is the dearer one.
ASSUME RatesAssumption ==
  /\ Rates \in [Tiers -> [Classes -> Nat]]
  /\ \A t \in Tiers : Rates[t].cached <= Rates[t].input
  /\ \A c \in Classes : Rates["short"][c] <= Rates["long"][c]
  /\ Threshold \in Nat /\ MaxOutputTokens \in Nat /\ PromptEstimates \subseteq Nat
  /\ Usages \subseteq [Classes -> Nat] /\ \A u \in Usages : u.cached <= u.input
  /\ NoUsage \notin [Classes -> Nat]

VARIABLES
  callPc,       \* "gate", "reserve", "send", "failed", "answered", "write", "ended"
  signals,      \* the signals set, and set to what counts
  promptTokens, \* the estimate of the prompt
  event,        \* what became of the request on its way
  metered,      \* what the provider charged for
  reported,     \* the classes of tokens its answer tells
  identified,   \* its answer has an id
  liveReceipt,  \* the receipt in memory
  onDisk,       \* it is in .oml-runs/live-smoke
  callExit

liveVars ==
  <<callPc, signals, promptTokens, event, metered, reported, identified, liveReceipt, onDisk, callExit>>

-----------------------------------------------------------------------------
(***************************************************************************)
(* openai-cost.ts                                                          *)
(***************************************************************************)
TierOf(usage) == IF usage.input > Threshold THEN "long" ELSE "short"

\* Seeded fault: only the cached part of the input is charged for.
CostOfCachedOnly(usage) ==
  LET rate == Rates[TierOf(usage)]
  IN  usage.cached * rate.cached + usage.write * rate.write + usage.output * rate.output
ComputeTokenCost(usage) ==
  LET rate == Rates[TierOf(usage)]
      uncached == IF usage.input > usage.cached THEN usage.input - usage.cached ELSE 0
  IN  uncached * rate.input + usage.cached * rate.cached
        + usage.write * rate.write + usage.output * rate.output

EstimateRequestCost(prompt) ==
  ComputeTokenCost([input |-> prompt, cached |-> 0, write |-> 0, output |-> MaxOutputTokens])

\* What the provider makes of it: every token at the price of its class.
Bill == IF metered = NoUsage THEN 0
        ELSE LET price == Rates[IF metered.input <= Threshold THEN "short" ELSE "long"]
             IN  (metered.input - metered.cached) * price.input + metered.cached * price.cached
                   + metered.write * price.write + metered.output * price.output

-----------------------------------------------------------------------------
(***************************************************************************)
(* openai-transport.ts: the error is the first class of the chain that it  *)
(* is an instance of; a subclass is an instance of what it extends.  The   *)
(* spending limit is a code of the rate limit, given here as a class.      *)
(***************************************************************************)
InstanceOf ==
  [refused |-> {"APIConnectionError", "APIError"},
   reset |-> {"APIConnectionError", "APIError"},
   timeout |-> {"APIConnectionTimeoutError", "APIConnectionError", "APIError"},
   unauthorized |-> {"AuthenticationError", "APIError"},
   forbidden |-> {"PermissionDeniedError", "APIError"},
   throttled |-> {"RateLimitError", "APIError"},
   out_of_quota |-> {"SpendingLimitError", "RateLimitError", "APIError"},
   malformed |-> {"BadRequestError", "APIError"},
   server_error |-> {"InternalServerError", "APIError"},
   other_status |-> {"APIError"},
   unreadable |-> {}]

Failures == DOMAIN InstanceOf
\* Of these the provider may have done, and charged for, the work.
Ambiguous == {"reset", "timeout", "server_error", "unreadable"}

Chain == <<"APIConnectionTimeoutError", "APIConnectionError", "AuthenticationError",
           "PermissionDeniedError", "SpendingLimitError", "RateLimitError",
           "BadRequestError", "InternalServerError", "APIError">>

FirstOf(chain, classes) ==
  LET at == {i \in DOMAIN chain : chain[i] \in classes}
  IN  IF at = {} THEN "UnknownError" ELSE chain[CHOOSE i \in at : \A j \in at : i <= j]

Verdict(class) ==
  LET unknown == class \in {"APIConnectionTimeoutError", "UnknownError"}
  IN  [error_class |-> class,
       retryable |-> class \in {"APIConnectionError", "RateLimitError", "InternalServerError"},
       outcome |-> IF unknown THEN "unknown" ELSE "failed",
       billing |-> IF unknown THEN "possibly_incurred" ELSE "not_incurred"]

\* Seeded fault: connection errors are asked for before their timeouts.
ClassifyByFamily(failure) ==
  Verdict(FirstOf(<<"APIConnectionError">> \o Chain, InstanceOf[failure]))
ClassifyError(failure) == Verdict(FirstOf(Chain, InstanceOf[failure]))

-----------------------------------------------------------------------------
(***************************************************************************)
(* live-smoke.mjs, and the provider between "send" and what comes of it.   *)
(***************************************************************************)
NoReceipt == [billing |-> "none"]

Exits(code) == callPc' = "ended" /\ callExit' = code

CheckLiveAuthorization ==
  /\ callPc = "gate"
  /\ IF signals = Signals THEN callPc' = "reserve" /\ UNCHANGED callExit ELSE Exits(20)
  /\ UNCHANGED <<signals, promptTokens, event, metered, reported, identified, liveReceipt, onDisk, guardVars>>

ReserveCall ==
  /\ callPc = "reserve"
  /\ LET estimate == EstimateRequestCost(promptTokens)
     IN  \/ Reserve(estimate) /\ callPc' = "send" /\ UNCHANGED callExit
         \/ ~Admits(estimate) /\ Exits(21) /\ UNCHANGED guardVars
  /\ UNCHANGED <<signals, promptTokens, event, metered, reported, identified, liveReceipt, onDisk>>

RequestFails ==
  /\ callPc = "send"
  /\ \E failure \in Failures :
       /\ event' = failure
       /\ metered' \in {NoUsage} \cup (IF failure \in Ambiguous THEN Usages ELSE {})
  /\ callPc' = "failed"
  /\ UNCHANGED <<signals, promptTokens, reported, identified, liveReceipt, onDisk, callExit, guardVars>>

RequestAnswered ==
  /\ callPc = "send"
  /\ event' = "answered"
  /\ metered' \in Usages
  /\ reported' \in SUBSET Classes /\ identified' \in BOOLEAN
  /\ callPc' = "answered"
  /\ UNCHANGED <<signals, promptTokens, liveReceipt, onDisk, callExit, guardVars>>

\* An absent count is null in the receipt and 0 in the cost.
RecordAnswer ==
  /\ callPc = "answered"
  /\ LET told == [c \in Classes |-> IF c \in reported THEN metered[c] ELSE 0]
     IN  /\ Settle(EstimateRequestCost(promptTokens), ComputeTokenCost(told))
         /\ liveReceipt' = [billing |-> "incurred", outcome |-> "completed", retryable |-> FALSE,
                        cost |-> ComputeTokenCost(told),
                        accuracy |-> IF "write" \in reported THEN "reconstructed" ELSE "estimated",
                        transport_valid |-> identified /\ {"input", "output"} \subseteq reported]
  /\ callPc' = "write"
  /\ UNCHANGED <<signals, promptTokens, event, metered, reported, identified, onDisk, callExit>>

\* The reservation stays: the script ends here.
RecordFailure ==
  /\ callPc = "failed"
  /\ LET f == ClassifyError(event)
     IN  liveReceipt' = [billing |-> f.billing, outcome |-> f.outcome, retryable |-> f.retryable,
                     cost |-> 0, accuracy |-> "none", transport_valid |-> FALSE]
  /\ callPc' = "write"
  /\ UNCHANGED <<signals, promptTokens, event, metered, reported, identified, onDisk, callExit, guardVars>>

\* mkdir and writeFile may fail, and the receipt was only in memory.
WriteLiveReceipt ==
  /\ callPc = "write"
  /\ \E written \in BOOLEAN :
       /\ onDisk' = written
       /\ Exits(IF ~written THEN 1 ELSE IF liveReceipt.transport_valid THEN 0 ELSE 22)
  /\ UNCHANGED <<signals, promptTokens, event, metered, reported, identified, liveReceipt, guardVars>>

\* The exit the shell reads when the process was killed.
Killed == 137

KillCall ==
  /\ callPc # "ended"
  /\ Exits(Killed)
  /\ metered' \in {metered} \cup (IF callPc = "send" THEN Usages ELSE {})
  /\ UNCHANGED <<signals, promptTokens, event, reported, identified, liveReceipt, onDisk, guardVars>>

LiveInit ==
  /\ GuardInit
  /\ callPc = "gate" /\ signals \in SUBSET Signals /\ promptTokens \in PromptEstimates
  /\ event = "none" /\ metered = NoUsage /\ reported = {} /\ identified = FALSE
  /\ liveReceipt = NoReceipt /\ onDisk = FALSE /\ callExit = -1

LiveNext ==
  \/ CheckLiveAuthorization \/ ReserveCall \/ RequestFails \/ RequestAnswered
  \/ RecordAnswer \/ RecordFailure \/ WriteLiveReceipt \/ KillCall

LiveSpec == LiveInit /\ [][LiveNext]_<<liveVars, guardVars>>

-----------------------------------------------------------------------------
(***************************************************************************)
(* A request that was charged is called "not_incurred" or "retryable" in   *)
(* two cases only: the connection broke, or the server failed, after the   *)
(* work was done.  A timeout, an answer that cannot be read and every      *)
(* refusal tell the truth (openai-transport.ts:119-154).  The two cases    *)
(* are against the code's own rule: see AmbiguousIsNotRetryable.           *)
(***************************************************************************)
UncertainIsNotRetried ==
  liveReceipt # NoReceipt /\ Bill > 0 /\ (liveReceipt.billing = "not_incurred" \/ liveReceipt.retryable) =>
    event \in {"reset", "server_error"}

(***************************************************************************)
(* "Anything ambiguous about whether the provider actually received the    *)
(* request is deliberately NOT retryable" (openai-transport.ts:108-110): a *)
(* request that it received and metered is not.                            *)
(***************************************************************************)
AmbiguousIsNotRetryable ==
  liveReceipt # NoReceipt /\ metered # NoUsage => ~liveReceipt.retryable

(***************************************************************************)
(* The cost of a valid receipt is never below what was charged when it is  *)
(* called reconstructed, also when cached input went unreported and was    *)
(* taken for uncached, which openai-cost.ts:33-37 would call estimated; it *)
(* is what was charged when all counts were told; and it is below by no    *)
(* more than the cache writes nobody reported (openai-cost.ts:51-85).      *)
(***************************************************************************)
CostIsReconstructed ==
  liveReceipt # NoReceipt /\ liveReceipt.transport_valid =>
    /\ liveReceipt.accuracy = "reconstructed" => liveReceipt.cost >= Bill
    /\ reported = Classes => liveReceipt.cost = Bill
    /\ liveReceipt.cost >= Bill - metered.write * Rates["long"].write

(***************************************************************************)
(* The reservation covers the charge of a request no longer than taken for *)
(* and without cache writes (openai-cost.ts:90-92).                        *)
(***************************************************************************)
EstimateIsPessimistic ==
  metered # NoUsage /\ metered.write = 0 /\ metered.input <= promptTokens
    /\ metered.output <= MaxOutputTokens => Bill <= EstimateRequestCost(promptTokens)

(***************************************************************************)
(* What a paid request leaves is true of it, but for the two cases named   *)
(* above: who reads the receipt learns that money may be gone, how much    *)
(* when that is known, and the operator's limit held for it.  A charged    *)
(* request goes without a receipt only when the disk refused it or the     *)
(* process was killed, and a receipt is called valid only for an answer    *)
(* with an id and both counts (live-smoke.mjs:91-223).                     *)
(***************************************************************************)
LiveReceiptIsTrue ==
  /\ UncertainIsNotRetried
  /\ CostIsReconstructed
  /\ EstimateIsPessimistic
  /\ callPc = "ended" /\ Bill > 0 => callExit \in {1, Killed} \/ onDisk
  /\ callExit = 0 => onDisk /\ event = "answered" /\ identified /\ {"input", "output"} \subseteq reported
  /\ Bill > 0 => signals = Signals /\ requests = 1 /\ EstimateRequestCost(promptTokens) <= MaxTotal
=============================================================================
