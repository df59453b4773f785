------------------------ MODULE MCInventoryPipeline ------------------------
(* One host that may be in either of two states, and two requests at a time; *)
(* the correlation engine over the inputs of CorrelationChecks.              *)
EXTENDS InventoryPipeline, CorrelationChecks

\* pipeline_sink.go: what is imported is what Correlate says of the inventory. While a handler imports,
\* the engine that it asks gives every host the findings that its advisories mean for it, and no other.
ImportsAreExact == (\E h \in Handlers : handlers[h].at = "import") => NotusIsExact /\ WindowsIsExact
============================================================================
