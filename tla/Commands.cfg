\* Commands that select from or report on a file, and change documents: small
\* files of a few blobs, documents of a few elements.
SPECIFICATION Spec
INVARIANTS ExtractIsTrue SelectionIsTrue ReportIsTrue ChangesApplyTrue
