----------------------------- MODULE MCFrontEnd -----------------------------
EXTENDS FrontEnd

\* Both front ends, every kind of frame the peer may send, in lockstep and paced by
\* one period.
MCFrontEnds == {TRUE, FALSE}
MCKinds == {"whole", "bare", "malformed", "garbled", "beam"}
MCGaps == {0, 1}
=============================================================================
