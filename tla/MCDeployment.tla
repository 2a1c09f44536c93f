---------------------------- MODULE MCDeployment ----------------------------
(* Deployment with small constants, and bodies of the kinds of the Node API. *)
EXTENDS Deployment, TLC

MCSeqs == 1 .. 2
MCLengths == {1}
\* Half of what the link carries in a tick, beside a user of another node, and
\* more than all of it.
MCBodies == {("u" :> <<1, 1>>) @@ ("foreign" :> <<1, 2>>), "u" :> <<3, 2>>}
MCComposition == {"u"}

MCSids == 1 .. 2
MCLinks == 1 .. 3
MCSlots == 0 .. 2
MCPlacements == 1 .. 7

\* A report is a model (9) of a UUID, of lines of a UUID and two numbers and of an optional
\* counter, without text; then come a model of lists (15), the result of a command (18), which
\* may have an error in free text, a model of a list that is always empty (20), a heartbeat of
\* a version, a moment and a number (24), and the metrics (25): a moment, a fraction and numbers
\* that are strict and that are not.
MCTypes ==
    <<Scalar(2), UpTo(999), UpTo(12), Struct(<<1, 2, 3>>), ListOf(4, 2), UpTo(99), Flag,
      AnyOf({6, 7}), Struct(<<1, 5, 8>>),
      UpTo(120), ListOf(10, 3), Struct(<<7>>), ListOf(12, 2), AnyOf({13, 7}),
      Struct(<<11, 14>>),
      FreeText(3), AnyOf({16, 7}), Struct(<<1, 17>>),
      ListOf(1, 0), Struct(<<19>>),
      Plain, Scalar(8), LaxUpTo(12), Struct(<<21, 22, 23>>), Struct(<<22, 22, 2, 23>>)>>
MCModels == {9, 15, 18, 20, 24, 25}

\* Payloads whose neighbours are alike, near, 16 apart and far.
MCPayloads == {<<0, 0, 16, 1, 31, 15, 7>>, <<5, 21, 20, 3, 3, 19, 30>>,
               <<31, 30, 29, 13, 12, 28, 11>>}
=============================================================================
