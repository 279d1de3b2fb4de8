--------------------------- MODULE MCChannelStats ---------------------------
(***************************************************************************)
(* A small instance of ChannelStats: histories of up to three posts, in    *)
(* every order of views, and graphs with up to three languages.            *)
(***************************************************************************)
EXTENDS ChannelStats

MCPosts(n) ==
    {Post(n, TRUE, 0, 0), Post(n, FALSE, 0, 0), Post(n, FALSE, 1, 3), Post(n, FALSE, 4, 0)}
MCHistories ==
    {<<>>} \union {<<p>> : p \in MCPosts(1)}
    \union {<<p, q, r>> : p \in MCPosts(1) \ {Post(1, FALSE, 0, 0)}, q \in MCPosts(2), r \in MCPosts(3)}

MCColumn(total) == [wellFormed |-> TRUE, total |-> total]
MCShort == [wellFormed |-> FALSE, total |-> 0]
MCColumns ==
    {<<MCColumn(7)>> \o s : s \in {<<>>, <<MCShort>>, <<MCColumn(0)>>, <<MCColumn(1), MCColumn(2)>>,
                                   <<MCColumn(1), MCShort, MCColumn(1), MCColumn(1)>>}}
=============================================================================
