---------------------------- MODULE MC_ConfigDist ----------------------------
\* Two distributions, one without the exported tree, and the retirement of
\* both, with the driver Stack named and not.
EXTENDS ConfigDist, TLC

CONSTANTS h1, h2

MCDesires ==
    {[hash |-> h1, named |-> TRUE], [hash |-> h2, named |-> TRUE],
     [hash |-> Nothing, named |-> FALSE], [hash |-> h2, named |-> FALSE]}
=============================================================================
