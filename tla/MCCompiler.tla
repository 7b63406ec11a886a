----------------------------- MODULE MCCompiler -----------------------------
EXTENDS Compiler

MCEmits == {{"registries", "graph"}}

MCUnparsed == {<<0, 1>>, <<2, 0>>}
MCGated == {<<1, 0>>}
=============================================================================
