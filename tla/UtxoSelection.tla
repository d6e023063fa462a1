---------------------------- MODULE UtxoSelection ----------------------------
(***************************************************************************)
(* Which outputs a proposal of a UTXO coin spends: selectTxInputs with the *)
(* checks of checkTx, and getWalletSendMaxInfo, against what a payment     *)
(* needs.  The outputs and their locks are read once, at the beginning;    *)
(* TxProposals is about what happens to them meanwhile.                    *)
(*                                                                         *)
(* Amounts are in satoshis.  Fees are sizes times a rate and have          *)
(* fractions: they count in units of 1 / Unit satoshi.                     *)
(***************************************************************************)
EXTENDS Integers, FiniteSets, FiniteSetsExt

CONSTANTS
    Wallets,     \* the outputs a wallet may have, each a set of them
    Amounts,     \* amounts to be paid
    Unit,        \* fractions of a satoshi
    Rate,        \* feePerKb / 1000, in units
    BaseSize,    \* size of a transaction without inputs
    InputSize,   \* size of an input
    InputMargin, \* inputSizeEstimationMargin
    MaxSize,     \* MAX_TX_SIZE_IN_KB_BTC
    MinOutput,   \* MIN_OUTPUT_AMOUNT, the dust threshold of a change
    Dust,        \* DUST_AMOUNT, below which no output is relayed
    MaxFee,      \* MAX_TX_FEE of the coin
    BigFactor,   \* UTXO_SELECTION_MAX_SINGLE_UTXO_FACTOR
    MinShare,    \* 1 / UTXO_SELECTION_MIN_TX_AMOUNT_VS_UTXO_FACTOR
    FeeShare,    \* 1 / UTXO_SELECTION_MAX_FEE_VS_TX_AMOUNT_FACTOR
    SingleFactor,\* UTXO_SELECTION_MAX_FEE_VS_SINGLE_UTXO_FEE_FACTOR
    Nothing      \* no error, no number of candidates

ASSUME UnitAssumption ==
    /\ {Unit, Rate, BaseSize, InputSize} \subseteq Nat \ {0}
    /\ {InputMargin, MinShare, FeeShare, SingleFactor} \subseteq Nat

\* A single input fits; checkDust wants every output to be worth one, a big
\* input brings twice the amount.
ASSUME ThresholdAssumption ==
    /\ {Dust, MinOutput, MaxSize, MaxFee, BigFactor} \subseteq Nat
    /\ Dust <= MinOutput /\ 0 < MinOutput /\ 1 < BigFactor
    /\ BaseSize + 1 + InputSize + InputMargin <= MaxSize
    /\ \A a \in Amounts : a \in Nat /\ MinOutput <= a

\* Numbers order the outputs of the same value.
ASSUME OutputsAssumption ==
    \A W \in Wallets :
        /\ IsFiniteSet(W)
        /\ \A u \in W : /\ {u.id, u.satoshis, u.confirmations} \subseteq Nat
                        /\ u.status \in {"free", "locked", "excluded"}
        /\ \A u, v \in W : u.id = v.id => u = v

Errors == {"INSUFFICIENT_FUNDS", "LOCKED_FUNDS", "INSUFFICIENT_FUNDS_FOR_FEE",
           "TX_MAX_SIZE_EXCEEDED", "fee-too-high", "DUST_AMOUNT"}

ASSUME NothingAssumption == Nothing \notin Nat \cup Errors

VARIABLES
    utxos,     \* the outputs of the wallet
    amount,    \* the total of the proposal's outputs
    confirmed, \* excludeUnconfirmedUtxos
    payPro,    \* payProUrl: the sizes are estimated with a margin
    groups,    \* confirmations asked for, the groups still to be explored
    explored,  \* candidates of the last group
    inputs,    \* the inputs selected
    fee,       \* the fee of the selection, in satoshis
    error,     \* why there is none
    stage      \* where the request is

selectionVars == <<utxos, amount, confirmed, payPro, groups, explored, inputs, fee,
                   error, stage>>

request == <<utxos, amount, confirmed, payPro>>

\* The groups in which the outputs are tried.
Groups == IF confirmed THEN {6, 1} ELSE {6, 1, 0}

SelectionTypeOK ==
    /\ \A u \in utxos : /\ {u.satoshis, u.confirmations} \subseteq Nat
                        /\ u.status \in {"free", "locked", "excluded"}
    /\ amount \in Amounts
    /\ confirmed \in BOOLEAN
    /\ payPro \in BOOLEAN
    /\ groups \subseteq {6, 1, 0}
    /\ explored \in 0 .. Cardinality(utxos) \cup {Nothing}
    /\ inputs \subseteq utxos
    /\ fee \in Nat
    /\ error \in Errors \cup {Nothing}
    /\ stage \in {"balance", "select", "check", "done", "max"}

SelectionInit ==
    /\ utxos \in Wallets
    /\ amount \in Amounts
    /\ confirmed \in BOOLEAN
    /\ payPro \in BOOLEAN
    /\ groups = Groups
    /\ explored = Nothing
    /\ inputs = {}
    /\ fee = 0
    /\ error = Nothing
    /\ stage = "balance"

-----------------------------------------------------------------------------
(* Sizes and fees                                                          *)

Value(S) == MapThenSumSet(LAMBDA u : u.satoshis, S)

\* getEstimatedSize: a conservative one is rounded up once and has a margin for
\* each input.
BaseOf(conservative) == BaseSize + (IF conservative THEN 1 ELSE 0)
PerInput(conservative) == InputSize + (IF conservative THEN InputMargin ELSE 0)
Size(n, conservative) == BaseOf(conservative) + n * PerInput(conservative)

\* The fee of n inputs in units, and as it is paid.
ExactFee(n, conservative) == Size(n, conservative) * Rate
Round(units) == (2 * units + Unit) \div (2 * Unit)

InputFee(conservative) == PerInput(conservative) * Rate

\* Mutant: the smallest first.
After(u, v) == \/ u.satoshis < v.satoshis
               \/ u.satoshis = v.satoshis /\ u.id < v.id

\* The greatest outputs first; outputs of the same value are all the same.
Before(u, v) == \/ u.satoshis > v.satoshis
                \/ u.satoshis = v.satoshis /\ u.id < v.id

Greatest(S, n) == {u \in S : Cardinality({v \in S : Before(v, u)}) < n}

Smallest(S) == {u \in S : \A v \in S \ {u} : Before(v, u)}

-----------------------------------------------------------------------------
(* select: the inputs out of one group                                     *)

\* Outputs that bring more than their fee.
Economic(S) == {u \in S : u.satoshis * Unit > InputFee(payPro)}

Big(S) == {u \in S : u.satoshis * Unit >
                     amount * BigFactor * Unit + ExactFee(1, payPro)}

NetTotal(S) == Value(S) * Unit - ExactFee(Cardinality(S), payPro)

Reaches(S) == NetTotal(S) >= amount * Unit

TooLarge(n) == Size(n, payPro) > MaxSize

\* With a big input at hand: the n-th input is too small, or there are so many
\* that their fee is both significant and a multiple of a single input's.
TooSmall(u) == (u.satoshis * Unit - InputFee(payPro)) * MinShare < amount * Unit
TooExpensive(n) ==
    /\ Round(ExactFee(n, payPro)) * FeeShare > amount
    /\ Round(ExactFee(n, payPro)) * Unit > ExactFee(1, payPro) * SingleFactor

\* Where the loop over the small inputs gives up, and where it ends.
GivesUp(small, big, n) ==
    \/ TooLarge(n)
    \/ /\ big # {}
       /\ \/ \E u \in Smallest(Greatest(small, n)) : TooSmall(u)
          \/ TooExpensive(n)

Ends(small, big) ==
    Min({n \in 1 .. Cardinality(small) :
            GivesUp(small, big, n) \/ Reaches(Greatest(small, n))}
        \cup {Cardinality(small)})

\* A change that is not worth an output becomes part of the fee.
FeeOf(S) ==
    LET paid == Round(ExactFee(Cardinality(S), payPro))
        change == Value(S) - amount - paid
    IN  IF change \in 1 .. MinOutput THEN paid + change ELSE paid

Selected(S, paid) == [error |-> Nothing, inputs |-> S, fee |-> paid]

Failed(why) == [error |-> why, inputs |-> {}, fee |-> 0]

\* Mutant: no big input helps.
UseNone(big, why) == Failed(why)

\* The smallest of the big inputs if the small ones do not reach the amount.
UseBig(big, why) ==
    IF big = {} THEN Failed(why)
    ELSE Selected(Smallest(big), Round(ExactFee(1, payPro)))

SelectSmall(small, big) ==
    LET n == Ends(small, big)
        S == Greatest(small, n)
        up == n > 0 /\ GivesUp(small, big, n)
    IN  CASE n > 0 /\ Reaches(S) -> Selected(S, IF up
                                       THEN Round(ExactFee(n, payPro)) ELSE FeeOf(S))
          [] OTHER -> UseBig(big, IF n > 0 /\ TooLarge(n) THEN "TX_MAX_SIZE_EXCEEDED"
                                  ELSE "INSUFFICIENT_FUNDS_FOR_FEE")

\* The fee of the inputs is added where it should be subtracted: the loop finds
\* out what the second condition lets through.
Select(S) ==
    LET worthy == Economic(S)
        net == Value(worthy) * Unit - BaseOf(payPro) * Rate
                 + Cardinality(worthy) * InputFee(payPro)
    IN  IF Value(S) < amount THEN Failed("INSUFFICIENT_FUNDS")
        ELSE IF net < amount * Unit THEN Failed("INSUFFICIENT_FUNDS_FOR_FEE")
        ELSE SelectSmall(worthy \ Big(worthy), Big(worthy))

-----------------------------------------------------------------------------
(* selectTxInputs                                                          *)

Unspendable(u) == confirmed /\ u.confirmations = 0

\* totalizeUtxos: INSUFFICIENT_FUNDS and LOCKED_FUNDS.
CheckFunds ==
    LET total == {u \in utxos : ~Unspendable(u)}
        available == {u \in total : u.status # "locked"}
    IN  /\ stage = "balance"
        /\ error' = IF Value(total) < amount THEN "INSUFFICIENT_FUNDS"
                    ELSE IF Value(available) < amount THEN "LOCKED_FUNDS" ELSE Nothing
        /\ stage' = IF error' = Nothing THEN "select" ELSE "done"
        /\ UNCHANGED <<request, groups, explored, inputs, fee>>

\* sanitizeUtxos, with utxosToExclude
Sanitized == {u \in utxos : u.status = "free" /\ ~Unspendable(u)}

\* Mutant: all outputs at once.
AnyConfirmations(group) == Sanitized

Candidates(group) == {u \in Sanitized : u.confirmations >= group}

\* The best confirmed outputs first.  A group without new candidates is skipped.
ExploreGroup ==
    LET group == Max(groups)
        S == Candidates(group)
        result == Select(S)
    IN  /\ stage = "select"
        /\ groups # {} /\ inputs = {}
        /\ groups' = groups \ {group}
        /\ explored' = Cardinality(S)
        /\ IF explored = Cardinality(S) THEN UNCHANGED <<inputs, fee, error>>
           ELSE /\ inputs' = result.inputs
                /\ fee' = result.fee
                /\ error' = result.error
        /\ UNCHANGED <<request, stage>>

EndGroups ==
    /\ stage = "select"
    /\ groups = {} \/ inputs # {}
    /\ stage' = IF error = Nothing THEN "check" ELSE "done"
    /\ UNCHANGED <<request, groups, explored, inputs, fee, error>>

Change == Value(inputs) - amount - fee

\* checkTx: the size is estimated again, with the margin; getBitcoreTx throws
\* when the fee passes the limit of the coin; no output may be dust.
Refusal ==
    IF Size(Cardinality(inputs), TRUE) > MaxSize THEN "TX_MAX_SIZE_EXCEEDED"
    ELSE IF fee > MaxFee THEN "fee-too-high"
    ELSE IF Change \in 1 .. Dust - 1 THEN "DUST_AMOUNT" ELSE Nothing

\* Mutant: the size is not checked again.
CheckFeeAndDust ==
    /\ stage = "check"
    /\ stage' = "done"
    /\ error' = IF Refusal = "TX_MAX_SIZE_EXCEEDED" THEN Nothing ELSE Refusal
    /\ UNCHANGED <<request, groups, explored, inputs, fee>>

CheckTx ==
    /\ stage = "check"
    /\ stage' = "done"
    /\ error' = Refusal
    /\ UNCHANGED <<request, groups, explored, inputs, fee>>

-----------------------------------------------------------------------------
(* getWalletSendMaxInfo                                                    *)

\* Mutant: the smallest outputs are dropped even if they fit.
FittingLess(S) == {u \in S : Size(Cardinality({v \in S : Before(v, u)}) + 2, TRUE) <= MaxSize}

\* The greatest outputs that fit into a transaction.
Fitting(S) == {u \in S : Size(Cardinality({v \in S : Before(v, u)}) + 1, TRUE) <= MaxSize}

\* Outputs that utxosToExclude names are not left out.
SendMax ==
    LET S == {u \in utxos : u.status # "locked" /\ ~Unspendable(u)}
        max == Fitting({u \in S : u.satoshis * Unit > InputFee(TRUE)})
        paid == Round(ExactFee(Cardinality(max), TRUE))
    IN  /\ stage = "balance"
        /\ IF max = {} \/ Value(max) - paid < MinOutput
           THEN UNCHANGED <<inputs, fee>>
           ELSE inputs' = max /\ fee' = paid
        /\ stage' = "max"
        /\ UNCHANGED <<request, groups, explored, error>>

-----------------------------------------------------------------------------

SelectionNext == CheckFunds \/ ExploreGroup \/ EndGroups \/ CheckTx \/ SendMax

SelectionSpec == SelectionInit /\ [][SelectionNext]_selectionVars

-----------------------------------------------------------------------------
(* Properties                                                              *)

Selects == stage = "done" /\ error = Nothing

\* Reference: what S pays for, and whether some of the outputs in S can pay.
Pays(S) == NetTotal(S) >= amount * Unit
CanPay(S) == \E T \in SUBSET S : Pays(T) /\ ~TooLarge(Cardinality(T))

\* The loop gave up at an input with which it had reached the amount: the
\* selection goes on without a look at its size and its change.
GaveUpTooLate ==
    LET S == Economic(Candidates(Min(Groups \ groups)))
        small == S \ Big(S)
        n == Ends(small, Big(S))
    IN  n > 0 /\ GivesUp(small, Big(S), n) /\ Reaches(Greatest(small, n))

\* A selection pays the amount and the whole fee out of outputs that are free
\* and confirmed as asked for, in a transaction of an allowed size and fee.  A
\* change is worth an output, or there is none: unless the loop gave up too late.
PaysInFull ==
    Selects =>
        /\ inputs \subseteq Sanitized
        /\ Value(inputs) >= amount + fee
        /\ fee >= Round(ExactFee(Cardinality(inputs), payPro))
        /\ fee <= MaxFee
        /\ Size(Cardinality(inputs), TRUE) <= MaxSize
        /\ Change = 0 \/ Change >= MinOutput \/ GaveUpTooLate

\* Without any of its inputs a selection would not pay: nothing is spent, and
\* nothing locked, for no use.
NoneSuperfluous == Selects => \A u \in inputs : ~Pays(inputs \ {u})

\* A request is refused only if no outputs can pay, with three exceptions: the
\* loop gave up too late, the size passes the limit by the margin of the second
\* estimation, or the fee of what was selected passes MAX_TX_FEE.  The code does
\* not look for other inputs then, though a big one may pay a smaller fee.  So
\* every break of the loop has the big input to fall back on, and the wrong sign
\* in the fee of all outputs refuses nothing.
PaysIfItCan ==
    stage = "done" /\ error # Nothing =>
        \/ ~CanPay(Sanitized)
        \/ inputs # {} /\ GaveUpTooLate
        \/ inputs # {} /\ error = "TX_MAX_SIZE_EXCEEDED" /\ ~payPro
        \/ inputs # {} /\ fee > MaxFee

\* Less confirmed outputs are spent only if better ones cannot pay.
BestConfirmed ==
    Selects => \A group \in {6, 1} :
        (\E u \in inputs : u.confirmations < group) => ~CanPay(Candidates(group))

\* What getWalletSendMaxInfo offers is the most that any outputs can send, in a
\* transaction of a size that checkTx lets pass; its fee is not looked at.
SendsMost ==
    LET S == {u \in utxos : u.status # "locked" /\ ~Unspendable(u)}
        Sends(T) == Value(T) - Round(ExactFee(Cardinality(T), TRUE))
        most == Max({0} \cup {Sends(T) : T \in
                    {T \in SUBSET S : Size(Cardinality(T), TRUE) <= MaxSize}})
    IN  stage = "max" =>
            IF most < MinOutput THEN inputs = {}
            ELSE Sends(inputs) = most /\ Size(Cardinality(inputs), TRUE) <= MaxSize

=============================================================================
