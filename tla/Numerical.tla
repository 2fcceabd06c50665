------------------------------- MODULE Numerical -------------------------------
(***************************************************************************)
(* simulation::simpson and simulation::rk4, one turn of their loops at a   *)
(* time, in exact arithmetic; lengths are whole numbers, and so is half of *)
(* a dt.  The integrands are powers of their argument; the right-hand      *)
(* sides f(t, y) are those, and the ones proportional to y.  Each step of  *)
(* rk4 divides by 6: y is kept as the numerator over that power of 6.      *)
(***************************************************************************)
EXTENDS Integers, Sequences, Arithmetic

CONSTANTS
  Powers,  \* the exponents of the integrands
  Rates,   \* what f(t, y) = rate * y grows with; 0: f is a power of t
  Starts,  \* a, or t0; y0
  Lengths, \* b - a, or t_end - t0, or its negative
  Halves   \* the numbers of intervals, or half of the dt, that are asked for

ASSUME NumericalAssumption ==
  /\ Powers \subseteq Nat \ {0} /\ Rates \cup Starts \cup Lengths \subseteq Int
  /\ Halves \subseteq Nat

VARIABLES
  method,  \* "simpson", "rk4" or "none"
  args,    \* power, first, last, n or half of dt; of rk4 also rate and y0
  turn,    \* i of simpson, t of rk4
  total,   \* sum of simpson, y * Scale of rk4
  times    \* rk4: the times in the result

numericalVars == <<method, args, turn, total, times>>

NumericalInit ==
  /\ method = "none"
  /\ args = [power |-> 1, first |-> 0, last |-> 0, n |-> 2, rate |-> 0, y0 |-> 0]
  /\ turn = 0 /\ total = 0 /\ times = <<>>

MakeEven(n) == IF n % 2 # 0 THEN n + 1 ELSE n

\* The integrand, and f(t, y) of rk4 when that does not depend on y.
f(x) == Power(x, args.power)

\* The width of an interval, a whole number by the choice of the arguments.
Width == (args.last - args.first) \div args.n

CallSimpson(power, first, length, n) ==
  /\ n # 0
  /\ length % MakeEven(n) = 0
  /\ method' = "simpson"
  /\ args' = [power |-> power, first |-> first, last |-> first + length, n |-> MakeEven(n),
              rate |-> 0, y0 |-> 0]
  /\ turn' = 1
  /\ total' = Power(first, power) + Power(first + length, power)
  /\ times' = <<>>

SimpsonTurn ==
  /\ method = "simpson"
  /\ turn < args.n
  /\ total' = total + f(args.first + turn * Width) * (IF turn % 2 = 0 THEN 2 ELSE 4)
  /\ turn' = turn + 1
  /\ UNCHANGED <<method, args, times>>

\* n is half of dt; a step that is not positive throws.
CallRk4(power, rate, y0, first, length, half) ==
  /\ half > 0
  /\ method' = "rk4"
  /\ args' = [power |-> power, first |-> first, last |-> first + length, n |-> half,
              rate |-> rate, y0 |-> y0]
  /\ turn' = first
  /\ total' = y0
  /\ times' = <<first>>

MoreSteps == turn < args.last - args.n

Steps == Len(times) - 1

Scale == Power(6, Steps)

\* f(t, y) of rk4, of a y kept as its numerator over Scale, as one over Scale.
rhs(t, y) == IF args.rate = 0 THEN Scale * f(t) ELSE args.rate * y

(* Mutant: the third stage starts from the first again. *)
Rk4TurnStale ==
  LET dt == 2 * args.n
      k1 == dt * rhs(turn, total)
      k2 == dt * rhs(turn + args.n, total + k1 \div 2)
      k3 == dt * rhs(turn + args.n, total + k1 \div 2)
      k4 == dt * rhs(turn + dt, total + k3) IN
  /\ method = "rk4"
  /\ MoreSteps
  /\ total' = 6 * total + k1 + 2 * k2 + 2 * k3 + k4
  /\ turn' = turn + dt
  /\ times' = Append(times, turn')
  /\ UNCHANGED <<method, args>>

Rk4Turn ==
  LET dt == 2 * args.n
      k1 == dt * rhs(turn, total)
      k2 == dt * rhs(turn + args.n, total + k1 \div 2)
      k3 == dt * rhs(turn + args.n, total + k2 \div 2)
      k4 == dt * rhs(turn + dt, total + k3) IN
  /\ method = "rk4"
  /\ MoreSteps
  /\ total' = 6 * total + k1 + 2 * k2 + 2 * k3 + k4
  /\ turn' = turn + dt
  /\ times' = Append(times, turn')
  /\ UNCHANGED <<method, args>>

Over == CASE method = "simpson" -> turn >= args.n
          [] method = "rk4"     -> ~MoreSteps
          [] OTHER              -> TRUE

Calls ==
  \E power \in Powers, first \in Starts, length \in Lengths, n \in Halves :
    \/ CallSimpson(power, first, length, n)
    \/ \E rate \in Rates, y0 \in Starts : CallRk4(power, rate, y0, first, length, n)

NumericalNext == (Over /\ Calls) \/ SimpsonTurn \/ Rk4Turn

NumericalSpec == NumericalInit /\ [][NumericalNext]_numericalVars

-----------------------------------------------------------------------------
\* (power + 1) times the integral of f from x to y
Integral(x, y) == Power(y, args.power + 1) - Power(x, args.power + 1)

\* 6 * (1 + z + z^2 / 2 + z^3 / 6 + z^4 / 24) for z = 2 * w
Growth(w) == 6 + 12 * w + 12 * w * w + 8 * w * w * w + 4 * w * w * w * w

(* Both are of fourth order: a polynomial of degree 3 is integrated exactly, in
   either direction, also for an odd number of intervals; and a step of rk4 for
   y' = rate * y multiplies y by the exponential's Taylor polynomial of degree
   4, which it does only if each stage is taken where the one before leads. *)
OrderFour ==
  Over =>
    CASE method = "simpson" ->
           args.power <= 3 =>
             (args.power + 1) * Width * total = 3 * Integral(args.first, args.last)
      [] method = "rk4" ->
           IF args.rate = 0
           THEN args.power <= 3 =>
                  (args.power + 1) * (total - Scale * args.y0)
                    = Scale * Integral(args.first, turn)
           ELSE total = args.y0 * Power(Growth(args.n * args.rate), Steps)
      [] OTHER -> TRUE

(* The solution has a point per step, and ends at the point that is nearest to
   the end asked for, whether or not that is a whole number of steps away. *)
EndsNearest ==
  method = "rk4" =>
    /\ \A k \in DOMAIN times : times[k] = args.first + (k - 1) * 2 * args.n
    /\ Over /\ args.last >= args.first =>
         args.last - turn \in -args.n..args.n
=============================================================================
