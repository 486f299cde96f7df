------------------------- MODULE LiquidityHandler ---------------------------
(***************************************************************************)
(* The off-chain liquidity pool endpoints (backend/handlers/liquidity.go): *)
(* one pool, its providers, swaps in both directions.  The pool row is     *)
(* read before the transaction that saves it; the positions are read       *)
(* inside it, except by RemoveLiquidity.                                   *)
(***************************************************************************)
EXTENDS Rows, FiniteSetsExt, Functions

CONSTANTS
    Providers, Reqs, None,
    Deposits,          \* pairs <<amount_a, amount_b>>
    Tokens, Inputs, MinOutputs, Fees,
    FeeUnit,           \* 10000 in the code
    MaxReserve

VARIABLES
    pool,              \* [a, b, lp, fee], or None
    position,          \* position[p] = [lp, fees], or None
    req,
    charged,           \* history: fees the swaps have charged
    lost               \* history: a save has replaced another request's

vars == <<pool, position, req, charged, lost>>

TokensOf == [p \in Providers |-> IF position[p] = None THEN 0 ELSE position[p].lp]

FeesOf == [p \in Providers |-> IF position[p] = None THEN 0 ELSE position[p].fees]

\* Where saves overlap the pool's token total may fall below zero, a
\* position's never does.
PoolRow == [a : 0..MaxReserve, b : 0..MaxReserve, lp : Int, fee : 0..FeeUnit]
PositionRow == [lp : Nat, fees : Nat]

TypeOK ==
    /\ pool \in PoolRow \cup {None}
    /\ position \in [Providers -> PositionRow \cup {None}]
    /\ charged \in Nat /\ lost \in BOOLEAN

Init ==
    /\ pool = None
    /\ position = [p \in Providers |-> None]
    /\ req = [r \in Reqs |-> New]
    /\ charged = 0
    /\ lost = FALSE

CreatePool(fee) ==
    /\ pool = None
    /\ pool' = [a |-> 0, b |-> 0, lp |-> 0, fee |-> fee]
    /\ UNCHANGED <<position, req, charged, lost>>

\* A request has read the pool row (and its position) and computed its effect.
Begin(r, op, p, save, n) ==
    /\ req[r] = New
    /\ save.a <= MaxReserve /\ save.b <= MaxReserve
    /\ req' = [req EXCEPT ![r] = [pc |-> "commit", op |-> op, by |-> p, read |-> pool, save |-> save, n |-> n,
                                  own |-> position[p]]]
    /\ UNCHANGED <<pool, position, charged, lost>>

Sqrt(n) == CHOOSE s \in 0..n : s * s <= n /\ (s + 1) * (s + 1) > n

LPTokensFor_Larger(d) ==
    IF pool.lp = 0 THEN Sqrt(d[1] * d[2])
    ELSE Max({(d[1] * pool.lp) \div pool.a, (d[2] * pool.lp) \div pool.b})

LPTokensFor(d) ==
    IF pool.lp = 0 THEN Sqrt(d[1] * d[2])
    ELSE Min({(d[1] * pool.lp) \div pool.a, (d[2] * pool.lp) \div pool.b})

\* With tokens out and an empty reserve the division panics.
AddLiquidity(r, p, d) ==
    /\ pool # None
    /\ pool.lp = 0 \/ (pool.a > 0 /\ pool.b > 0)
    /\ LPTokensFor(d) > 0
    /\ Begin(r, "add", p, [pool EXCEPT !.a = @ + d[1], !.b = @ + d[2], !.lp = @ + LPTokensFor(d)],
             LPTokensFor(d))

\* A division of the code drops the fraction, whatever the sign.
Quotient(n, d) == IF d > 0 THEN n \div d ELSE -(n \div (-d))

\* What is left of a reserve, or zero.
LeftOf(reserve, t) == Max({0, reserve - Quotient(t * reserve, pool.lp)})

RemoveLiquidity(r, p, t) ==
    /\ pool # None /\ position[p] # None
    /\ t <= position[p].lp
    /\ pool.lp # 0
    /\ Begin(r, "remove", p,
             [pool EXCEPT !.a = LeftOf(@, t), !.b = LeftOf(@, t), !.lp = @ - t], t)

AfterFee(x) == (x * (FeeUnit - pool.fee)) \div FeeUnit

OutputFor(x, in, out) == (AfterFee(x) * out) \div (in + AfterFee(x))

\* The trader's own amounts are outside; p only names the request's caller.
Swap(r, p, x, least, aToB) ==
    LET in == IF aToB THEN pool.a ELSE pool.b
        out == IF aToB THEN pool.b ELSE pool.a
        y == OutputFor(x, in, out)
    IN  /\ pool # None
        /\ in # 0 /\ out # 0
        /\ y > 0
        /\ least > 0 => y >= least
        /\ Begin(r, "swap", p, IF aToB THEN [pool EXCEPT !.a = @ + x, !.b = @ - y]
                                       ELSE [pool EXCEPT !.b = @ + x, !.a = @ - y], x - AfterFee(x))

Share_Up(p, fee, total) == (position[p].lp * fee + total - 1) \div total

\* distributeFeeToProviders: each share rounded down.
Share(p, fee, total) == (position[p].lp * fee) \div total

Credited(fee) ==
    LET holders == {p \in Providers : TokensOf[p] > 0}
        total == SumFunctionOnSet(TokensOf, holders)
    IN  [p \in Providers |-> IF p \in holders
                             THEN [position[p] EXCEPT !.fees = @ + Share(p, fee, total)] ELSE position[p]]

\* A provider's position after a deposit; the first one creates it.
Increased(own, n) == IF own = None THEN [lp |-> n, fees |-> 0] ELSE [own EXCEPT !.lp = @ + n]

Commit(r) ==
    LET q == req[r] IN
    /\ q.pc = "commit"
    /\ pool' = q.save
    /\ position' = CASE q.op = "add" -> [position EXCEPT ![q.by] = Increased(@, q.n)]
                     [] q.op = "remove" -> [position EXCEPT ![q.by] = [q.own EXCEPT !.lp = @ - q.n]]
                     [] q.op = "swap" -> Credited(q.n)
    /\ charged' = IF q.op = "swap" THEN charged + q.n ELSE charged
    /\ lost' = (lost \/ pool # q.read \/ (q.op = "remove" /\ position[q.by] # q.own))
    /\ req' = [req EXCEPT ![r] = Done]

Abort(r) ==
    /\ req[r].pc = "commit"
    /\ req' = [req EXCEPT ![r] = Done]
    /\ UNCHANGED <<pool, position, charged, lost>>

Next ==
    \/ \E fee \in Fees : CreatePool(fee)
    \/ \E r \in Reqs, p \in Providers :
        \/ \E d \in Deposits : AddLiquidity(r, p, d)
        \/ \E t \in Tokens : RemoveLiquidity(r, p, t)
        \/ \E x \in Inputs, m \in MinOutputs, dir \in BOOLEAN : Swap(r, p, x, m, dir)
    \/ \E r \in Reqs : Commit(r) \/ Abort(r)

-----------------------------------------------------------------------------
\* As long as no save has replaced another's, the pool's token total is the sum
\* of the positions and the providers are credited no more fees than the swaps
\* charged.  The reserves never go below zero.
PoolIsBacked ==
    pool # None =>
        /\ ~lost => pool.lp = SumFunction(TokensOf)
        /\ ~lost => SumFunction(FeesOf) <= charged
        /\ pool.a >= 0 /\ pool.b >= 0

\* A deposit, a withdrawal and a swap never take value from the remaining
\* providers: the product of the reserves per squared token does not fall.
ShareValueStep ==
    (pool # None /\ ~lost' /\ pool.lp > 0 /\ pool'.lp > 0) =>
        pool'.a * pool'.b * pool.lp * pool.lp >= pool.a * pool.b * pool'.lp * pool'.lp

Spec == Init /\ [][Next]_vars

ShareValueNeverFalls == [][ShareValueStep]_vars
=============================================================================
