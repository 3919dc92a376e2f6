----------------------- MODULE MCProspectiveRecorder -----------------------
EXTENDS ProspectiveRecorder

MCKickoff == [r \in Record |-> r]
=============================================================================
