---------------------------- MODULE MC_StackForms ----------------------------
\* Two specs and one without a run image; every form of one spec up, one more
\* spec per form where a change of spec alone is a case, and the ways to be
\* down.
EXTENDS StackForms, TLC

CONSTANTS f1, f2, f3

Is(form, spec, up) == [form |-> form, spec |-> spec, up |-> up]

MCFingerprint == {f1, f2, f3}
MCDesires ==
    {Absent, Is("process", f1, TRUE), Is("process", f2, TRUE),
     Is("image", f1, TRUE), Is("compose", f1, TRUE), Is("compose", f2, TRUE),
     Is("compose", f1, FALSE), Is("process", f3, TRUE)}
=============================================================================
