--------------------------- MODULE MCRecordsData ---------------------------
\* RecordsData for TLC.
EXTENDS RecordsData, TLC

\* Identifiers are only compared with one another, so that the safety runs may
\* treat rows as interchangeable.
RowIdSymmetry == Permutations(RowIds)
=============================================================================
