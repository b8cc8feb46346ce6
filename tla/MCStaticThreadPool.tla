-------------------------- MODULE MCStaticThreadPool --------------------------
(* An instance of StaticThreadPool for TLC.                                *)
EXTENDS StaticThreadPool

===============================================================================
