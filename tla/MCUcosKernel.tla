---------------------------- MODULE MCUcosKernel ----------------------------
(* Instances of UcosKernel and of its refinement for TLC. *)
EXTENDS UcosKernelRefines

\* Two rows of the bitmap, one of them with two priorities, besides idle.
MCPrios == {1, 9, 10}

\* The partition is configured with the idle task and two others.
MCBootPrios == <<63, 1, 9>>
=============================================================================
