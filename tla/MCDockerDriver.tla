--------------------------- MODULE MCDockerDriver ---------------------------
(* Two cookies over two images that together fill the cache, one of which    *)
(* is refused for its volume, one pool container, one network.               *)
EXTENDS DockerDriver
CONSTANTS i1, i2
MCSize == (i1 :> 1) @@ (i2 :> 1)
=============================================================================
