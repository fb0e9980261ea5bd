--------------------------- MODULE MCReplication ---------------------------
EXTENDS Paths
MkID(src, seq) == [src |-> src, seq |-> seq]
El(lit, src, seq, val) == [lit |-> lit, id |-> MkID(src, seq), val |-> val]
I(src, seq, v) == El("I", src, seq, v)
P(src, seq, v) == El("P", src, seq, v)
E(src, seq, v) == El("E", src, seq, v)
X(src, seq, v) == El("X", src, seq, v)

L(src, seq, v) == El("L", src, seq, v)
T(src, seq, v) == El("T", src, seq, v)

\* a map, a version vector, a list and a tuple
DocDrafts ==
  << {<<E(0, 0, <<P(0, 0, <<T(0, 0, 2), I(0, 0, 5)>>), I(1, 4, 1), I(0, 0, 1)>>),
        X(0, 0, <<I(2, 4, 7), I(1, 4, 7), I(1, 6, 6)>>)>>,
      <<E(0, 0, <<>>), X(0, 0, <<>>), L(1, 4, <<T(0, 4, 0), T(0, 20, 1)>>)>>},
     {<<E(0, 0, <<P(0, 0, <<T(0, 0, 2), E(0, 0, <<I(0, 0, 7), I(0, 0, 6)>>)>>),
                  P(2, 4, <<T(0, 0, 1), I(0, 0, 4)>>)>>),
        X(0, 0, <<I(2, 6, 3)>>),
        L(1, 4, <<T(0, 8, 0), T(2, 8, 1)>>),
        P(0, 0, <<I(2, 4, 1), I(2, 4, 2)>>)>>} >>

\* one element of each container
DocPlaces == {<<1, 2>>, <<2, 1>>, <<3, 1>>, <<4, 1>>}

\* each replica stamps an entry of its own under the same key
EntryDrafts ==
  << {<<E(0, 0, <<P(1, 4, <<I(0, 0, 1), I(0, 0, 1)>>)>>)>>},
     {<<E(0, 0, <<P(2, 4, <<I(0, 0, 1), I(0, 0, 2)>>)>>)>>} >>
EntryPlaces == {<<1, 1>>, <<1, 2>>}
============================================================================
