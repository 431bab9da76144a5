----------------------------- MODULE MCJsWorker -----------------------------
\* Instances of JsWorker; the constants are numbers given in the cfg files.
EXTENDS JsWorker
=============================================================================
