---------------------------- MODULE CommandWords ----------------------------
(***************************************************************************)
(* What is made of a command before it is sent: js/commands.js.  A command *)
(* is the sequence of its words, the first without its slash.              *)
(***************************************************************************)
EXTENDS Naturals, Sequences, FiniteSets

Rewrite == [close |-> <<"part">>, cs |-> <<"quote", "chanserv">>, ns |-> <<"quote", "nickserv">>,
            ms |-> <<"quote", "memoserv">>, hs |-> <<"quote", "hotserv">>,
            bs |-> <<"quote", "botserv">>, os |-> <<"quote", "operserv">>,
            j |-> <<"join">>, raw |-> <<"quote">>]

\* filter(p => p.length): what is left, in its order.
NonEmpty(parts) ==
  LET kept == {i \in DOMAIN parts : parts[i] # ""}
      Nth(n) == CHOOSE i \in kept : Cardinality({j \in kept : j <= i}) = n
  IN [n \in 1 .. Cardinality(kept) |-> parts[Nth(n)]]

NormalizeCommand(parts) ==
  CASE Head(parts) = "shrug" -> <<"say">> \o Append(Tail(parts), "shrug")
    [] Head(parts) \in DOMAIN Rewrite -> NonEmpty(Rewrite[Head(parts)] \o Tail(parts))
    [] OTHER -> parts

=============================================================================
