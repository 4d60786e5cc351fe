----------------------------- MODULE TradingGate -----------------------------
(***************************************************************************)
(* internal/risk/safe_stop.go: the scoped safe stop.  Every method holds   *)
(* the gate's mutex and is one action.  The emergency stop it composes     *)
(* with (emergency_stop.go) appears as its flag.                           *)
(*                                                                         *)
(* A reason is "auto" or "human" (RequiresHuman), "none" when absent; its  *)
(* Since and Details are left out, as are globalRecoveryEpoch and          *)
(* knownPositions, which no decision reads.                                *)
(*                                                                         *)
(* The callers are external.  They name reason codes, report health, count *)
(* reconciliation cycles and offer a cycle they have seen as the epoch of  *)
(* MarkReconciled and TryRecoverSymbol.                                    *)
(***************************************************************************)
EXTENDS Naturals

CONSTANTS
    Symbols,
    Codes,          \* reason codes
    SharedCodes,    \* the codes of the shared dependencies
    MaxEpoch        \* bound on reconciliation cycles

ASSUME TradingGateAssumption ==
    /\ SharedCodes \subseteq Codes
    /\ MaxEpoch \in Nat

VARIABLES
    active,         \* symbolStates[s].Active
    reasons,        \* symbolStates[s].Reasons
    epoch,          \* symbolStates[s].RecoveryEpoch
    globalReasons,  \* globalReasons
    health,         \* sharedHealth
    emergency,      \* EmergencyStopManager.emergencyStopActive
    cycle,          \* external: reconciliation cycles completed so far
    since,          \* external: the cycle count at the symbol's last failure
    confirmed       \* external: codes whose clearing a human has confirmed

gateVars == <<active, reasons, epoch, globalReasons, health, emergency, cycle, since, confirmed>>

Kinds == {"none", "auto", "human"}
Epochs == 0..MaxEpoch
Classes == {"risk-increasing", "risk-reducing", "reconciliation", "confirmed-buy-cancellation"}

GateTypeOK ==
    /\ active \in [Symbols -> BOOLEAN]
    /\ reasons \in [Symbols -> [Codes -> Kinds]]
    /\ epoch \in [Symbols -> Epochs]
    /\ globalReasons \in [Codes -> Kinds]
    /\ health \in [SharedCodes -> BOOLEAN]
    /\ emergency \in BOOLEAN
    /\ cycle \in Epochs
    /\ since \in [Symbols -> Epochs]
    /\ confirmed \subseteq Codes

NoReasons == [c \in Codes |-> "none"]

\* NewTradingGate: no reason, and a zero health snapshot (all unhealthy).
GateInit ==
    /\ active = [s \in Symbols |-> FALSE]
    /\ reasons = [s \in Symbols |-> NoReasons]
    /\ epoch = [s \in Symbols |-> 0]
    /\ globalReasons = NoReasons
    /\ health = [c \in SharedCodes |-> FALSE]
    /\ emergency = FALSE
    /\ cycle = 0
    /\ since = [s \in Symbols |-> 0]
    /\ confirmed = {}

-----------------------------------------------------------------------------
\* Decisions.

GlobalStop == globalReasons # NoReasons
SymbolStop(s) == active[s] /\ reasons[s] # NoReasons
AllHealthy == \A c \in SharedCodes : health[c]

\* Authorize(s, class).Allowed
Authorize(s, class) ==
    \/ class \in {"reconciliation", "confirmed-buy-cancellation"}
    \/ ~emergency /\ (class = "risk-increasing" => ~GlobalStop /\ ~SymbolStop(s))

\* ClassifyOperation; any other side or purpose is risk-increasing.
ClassifyOperation(side, purpose) ==
    CASE purpose \in {"reconciliation", "query", "status-check"} -> "reconciliation"
      [] purpose = "confirmed-buy-cancel" -> "confirmed-buy-cancellation"
      [] side = "sell" /\ purpose \in {"counter-sell", "risk-reducing-sell", "grid-sell"}
            -> "risk-reducing"
      [] OTHER -> "risk-increasing"

-----------------------------------------------------------------------------
\* The methods of TradingGate.

\* EnterSymbolSafeStop ("auto") and EnterSymbolSafeStopRequireHuman ("human")
\* overwrite an entry with the same code.
EnterSymbolSafeStop(s, c, kind) ==
    /\ active' = [active EXCEPT ![s] = TRUE]
    /\ reasons' = [reasons EXCEPT ![s][c] = kind]
    /\ since' = [since EXCEPT ![s] = cycle]
    /\ UNCHANGED <<epoch, globalReasons, health, emergency, cycle, confirmed>>

EnterGlobalSafeStop(c, kind) ==
    /\ globalReasons' = [globalReasons EXCEPT ![c] = kind]
    /\ UNCHANGED <<active, reasons, epoch, health, emergency, cycle, since, confirmed>>

MayClear(kind, humanConfirmed) ==
    kind = "auto" \/ (kind = "human" /\ humanConfirmed)

\* Mutant: the flag is dropped with the first reason.
ActiveAfterFirst(s, left) == FALSE

\* Active after a reason was deleted.
ActiveAfter(s, left) == IF left = NoReasons THEN FALSE ELSE active[s]

ClearSymbolReason(s, c, humanConfirmed) ==
    /\ humanConfirmed => c \in confirmed
    /\ MayClear(reasons[s][c], humanConfirmed)
    /\ reasons' = [reasons EXCEPT ![s][c] = "none"]
    /\ active' = [active EXCEPT ![s] = ActiveAfter(s, [reasons[s] EXCEPT ![c] = "none"])]
    /\ UNCHANGED <<epoch, globalReasons, health, emergency, cycle, since, confirmed>>

ClearGlobalReason(c, humanConfirmed) ==
    /\ humanConfirmed => c \in confirmed
    /\ MayClear(globalReasons[c], humanConfirmed)
    /\ globalReasons' = [globalReasons EXCEPT ![c] = "none"]
    /\ UNCHANGED <<active, reasons, epoch, health, emergency, cycle, since, confirmed>>

\* MarkReconciled stores whatever epoch it is given.
MarkReconciled(s, e) ==
    /\ e <= cycle
    /\ epoch' = [epoch EXCEPT ![s] = e]
    /\ UNCHANGED <<active, reasons, globalReasons, health, emergency, cycle, since, confirmed>>

\* Mutant: the reasons that need a human are skipped over.
RecoverableUnasked(s, e) ==
    ~GlobalStop /\ active[s] /\ e >= epoch[s] /\ AllHealthy

\* The conditions of TryRecoverSymbol.
Recoverable(s, e) ==
    /\ ~GlobalStop
    /\ active[s]
    /\ \A c \in Codes : reasons[s][c] # "human"
    /\ e >= epoch[s]
    /\ AllHealthy

\* Mutant: the reasons of every symbol are dropped.
RecoveredAll(s) == [t \in Symbols |-> NoReasons]

Recovered(s) == [reasons EXCEPT ![s] = NoReasons]

TryRecoverSymbol(s, e) ==
    /\ e <= cycle
    /\ Recoverable(s, e)
    /\ reasons' = Recovered(s)
    /\ active' = [active EXCEPT ![s] = FALSE]
    /\ epoch' = [epoch EXCEPT ![s] = e]
    /\ UNCHANGED <<globalReasons, health, emergency, cycle, since, confirmed>>

\* syncHealthReason for one shared dependency.
SyncHealthReason(c, healthy) ==
    IF healthy THEN "none"
    ELSE IF globalReasons[c] = "none" THEN "auto" ELSE globalReasons[c]

UpdateSharedHealth(h) ==
    /\ health' = h
    /\ globalReasons' = [c \in Codes |->
                            IF c \in SharedCodes THEN SyncHealthReason(c, h[c])
                            ELSE globalReasons[c]]
    /\ UNCHANGED <<active, reasons, epoch, emergency, cycle, since, confirmed>>

\* EmergencyStop and ResumeFromEmergencyStop, as far as the gate sees them.
SetEmergency(on) ==
    /\ emergency # on
    /\ emergency' = on
    /\ UNCHANGED <<active, reasons, epoch, globalReasons, health, cycle, since, confirmed>>

\* A human confirms a code or takes the confirmation back.
HumanDecides(c) ==
    /\ confirmed' = IF c \in confirmed THEN confirmed \ {c} ELSE confirmed \cup {c}
    /\ UNCHANGED <<active, reasons, epoch, globalReasons, health, emergency, cycle, since>>

\* A reconciliation cycle completes.  Bound: MaxEpoch.
CycleCompletes ==
    /\ cycle < MaxEpoch
    /\ cycle' = cycle + 1
    /\ UNCHANGED <<active, reasons, epoch, globalReasons, health, emergency, since, confirmed>>

SymbolStep(s) ==
    \/ \E c \in Codes, kind \in {"auto", "human"} : EnterSymbolSafeStop(s, c, kind)
    \/ \E c \in Codes, human \in BOOLEAN : ClearSymbolReason(s, c, human)
    \/ \E e \in Epochs : MarkReconciled(s, e) \/ TryRecoverSymbol(s, e)

GlobalStep ==
    \/ \E c \in Codes, kind \in {"auto", "human"} : EnterGlobalSafeStop(c, kind)
    \/ \E c \in Codes, human \in BOOLEAN : ClearGlobalReason(c, human)
    \/ \E h \in [SharedCodes -> BOOLEAN] : UpdateSharedHealth(h)
    \/ \E on \in BOOLEAN : SetEmergency(on)
    \/ \E c \in Codes : HumanDecides(c)
    \/ CycleCompletes

GateNext == (\E s \in Symbols : SymbolStep(s)) \/ GlobalStep

GateSpec == GateInit /\ [][GateNext]_gateVars

-----------------------------------------------------------------------------
\* Authorize reads the cached Active flag as well as the reasons: a symbol
\* with any reason left is never let through because the flag was dropped,
\* neither for a BUY order nor for a SELL of unknown purpose.
ReasonsBlock ==
    \A s \in Symbols, side \in {"buy", "sell"} :
        reasons[s] # NoReasons => ~Authorize(s, ClassifyOperation(side, "unknown"))

\* A symbol-local failure or recovery never changes what another symbol may
\* do: two decisions change together only with the global scope.
LocalFailuresStayLocal ==
    [][\A s, t \in Symbols :
          /\ Authorize(s, "risk-increasing")' # Authorize(s, "risk-increasing")
          /\ Authorize(t, "risk-increasing")' # Authorize(t, "risk-increasing")
          /\ s # t
          => GlobalStop' # GlobalStop \/ emergency' # emergency]_gateVars

\* A reason that requires a human does not vanish unasked.  As long as nobody
\* confirmed it, it can only be overwritten by an entry under its code
\* (EnterSymbolSafeStop, EnterGlobalSafeStop) or, if global, be deleted by a
\* report that its dependency is healthy (syncHealthReason); no recovery, of
\* whatever epoch, takes it along.
HumanReasonsDoNotVanish ==
    [][\A c \in Codes : c \notin confirmed =>
          /\ \A s \in Symbols : reasons[s][c] = "human" => reasons'[s][c] # "none"
          /\ globalReasons[c] = "human" /\ globalReasons'[c] = "none"
                => c \in SharedCodes /\ health'[c]]_gateVars

-----------------------------------------------------------------------------
\* What the documentation says and the code does not do: these do not hold,
\* and TLC shows why (README, section 6).

\* "Requires human confirmation to clear": a later entry without RequiresHuman
\* under the same code makes the reason one that recovery clears.
HumanReasonsStay ==
    [][\A c \in Codes :
          \/ \E s \in Symbols : reasons[s][c] = "human" /\ reasons'[s][c] # "human"
          \/ globalReasons[c] = "human" /\ globalReasons'[c] # "human"
          => c \in confirmed]_gateVars

\* TryRecoverSymbol clears a symbol only on evidence of a reconciliation that
\* completed after its last failure ("proving fresh reconciliation").
RecoveryIsFresh ==
    [][\A s \in Symbols, e \in Epochs : TryRecoverSymbol(s, e) => e > since[s]]_gateVars
=============================================================================
