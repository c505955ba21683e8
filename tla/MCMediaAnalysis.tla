--------------------------- MODULE MCMediaAnalysis ---------------------------
(* Instances of MediaAnalysis for the model checker. *)
EXTENDS MediaAnalysis

CONSTANTS s1, r1

\* two findings at most, and a model of another kind that is refused
ScanAsked == {[model |-> "onnx", maxFindings |-> 2], [model |-> "other", maxFindings |-> 2]}

\* both ways to the input of the renderer, and an offset that only "manual" may have
RenderAsked ==
    {[layout |-> "default", alignment |-> "gpx_timestamps", offset |-> 0],
     [layout |-> "default", alignment |-> "manual", offset |-> -60],
     [layout |-> "default", alignment |-> "auto", offset |-> 60]}

Printed(count, boxes) ==
    [status |-> "complete", sameInputs |-> TRUE, count |-> count,
     review |-> boxes # <<>>, boxes |-> boxes]

\* two findings, none, a wrong count, too many, a box outside of its frame, another source
Answers ==
    {Printed(2, <<"inside", "inside">>), Printed(0, <<>>), Printed(1, <<"inside", "inside">>),
     Printed(3, <<"inside", "inside", "inside">>), Printed(1, <<"outside">>),
     [Printed(0, <<>>) EXCEPT !.sameInputs = FALSE]}
=============================================================================
