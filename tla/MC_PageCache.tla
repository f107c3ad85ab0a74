----------------------------- MODULE MC_PageCache -----------------------------
\* Capacity 2 gives 4 buckets; pages 1 and 5 share bucket 1.
EXTENDS PageCache

=============================================================================
