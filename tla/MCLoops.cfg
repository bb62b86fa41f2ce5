SPECIFICATION Spec
INVARIANTS MeaningKept FlatAgrees MembersRunPerTrip
