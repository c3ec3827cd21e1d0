--------------------------- MODULE MCDeferredSession ---------------------------
(* One session; the SOCKS5_SYN of its first stream comes in two fragments. *)
EXTENDS DeferredSession, TLC

CONSTANTS frag1, frag2, syn, stream1, stream2, session

TwoStreams == (stream1 :> session) @@ (stream2 :> session)
Fragments == (frag1 :> stream1) @@ (frag2 :> stream1) @@ (syn :> stream2)

\* Nothing tells the workers apart, nor the two fragments.
Symmetry == Permutations(Workers) \union Permutations({frag1, frag2})
================================================================================
