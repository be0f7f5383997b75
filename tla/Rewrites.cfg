\* Commands that rewrite whole files, on small files of two or three blobs; the
\* geocode index of small maps; frame readers on short files; blocks of up to
\* three elements and their malformed variants.
SPECIFICATION Spec
INVARIANTS MergeIsTrue  GeocodeIsTrue
