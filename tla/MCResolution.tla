----------------------------- MODULE MCResolution -----------------------------
(***************************************************************************)
(* Four letters, of which h is a multiplier, three words, so that a cycle  *)
(* has nine blocks.  Two authors and three anchors: two of one author, two *)
(* in one block.  Every text of each ID is asked for, with and without a   *)
(* name, and the bare name.  DNN block 0 is not among the IDs: "n0" is no  *)
(* valid number of a block; names do not begin with n or b, which are read *)
(* as IDs.                                                                 *)
(***************************************************************************)
EXTENDS Resolution

CONSTANTS p1, p2

MCLetters == <<"a", "b", "h", "n">>
MCWordlist == << <<"a", "n">>, <<"h">>, <<"b", "a">> >>
MCMultipliers == [c \in {"h"} |-> 100]

MCAuthors == {p1, p2}
Anchor(block, pos, author) == [block |-> block, pos |-> pos, by |-> author]
MCAnchors == {Anchor(12, 1, p1), Anchor(3, 5, p2), Anchor(3, 1, p1)}

Main == <<"a">>
Other == <<"h", "a">>
MCNames == {Main, Other}
MCContents == {[n \in {Main} |-> NoOne], [n \in MCNames |-> IF n = Main THEN p2 ELSE NoOne]}

\* Everything stored in one version, whatever the connection events say.
MCDatabases ==
    {[anchors |-> MCAnchors, names |-> [a \in MCAuthors |-> <<Main>>],
      contents |-> [a \in MCAuthors |-> <<c>>], blocked |-> {}] : c \in MCContents}

Ask(protocol, parts, id) == [protocol |-> protocol, parts |-> parts, means |-> id]

Bitcoin(block) == <<"b">> \o Decimal(Genesis + block)

MCRequests ==
    {Ask(p, <<Main>>, Nothing) : p \in {"resolve", "verify"}}
    \union UNION {{Ask(p, Encoded(id), id), Ask(p, <<Main>> \o Encoded(id), id),
                   Ask(p, <<Other>> \o Encoded(id), id)} : p \in {"resolve", "dns"}, id \in IDs}
    \union UNION {{Ask("resolve", Numeric(id), id), Ask("verify", <<Main>> \o Numeric(id), id)} :
                    id \in IDs}
    \union {Ask("resolve", NumericBitcoin(id), id) : id \in IDs}
    \union {Ask("dns", << <<"n", "a">> >>, Nothing), Ask("resolve", <<Bitcoin(-1)>>, Nothing),
            Ask("resolve", << <<"n", "2", "h">>, <<"1">> >>, Nothing)}
=============================================================================
