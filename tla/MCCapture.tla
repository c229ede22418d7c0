----------------------------- MODULE MCCapture -----------------------------
\* One clock, and a detector's clock ahead of or behind the runner's; lists and single
\* detections; both sources of candidates.
EXTENDS Capture

Deployment(s, k, c) == [skew |-> s, keep |-> k, source |-> c]

MCDeployments ==
  {Deployment(0, 2, "candidates"), Deployment(1, 2, "detections"), Deployment(-1, 1, "detections"),
   Deployment(2, 1, "candidates")}

MCContents == {<<"other">>, <<"match", "match">>, <<"match", "other", "unusable">>}

MCAges == {0, 1}
=============================================================================
