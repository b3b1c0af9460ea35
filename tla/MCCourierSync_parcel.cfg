\* One parcel, booked by two handlers at once; one handler dies, or an answer, a save or
\* the courier's memory of the parcel is lost.
SPECIFICATION FairSpec
CONSTANTS
  Docs = {1, 2}
  Waybills = {1}
  None = None
  Workers = {"app", "hook"}
  Serves <- Apart
  MaxFault = 1
INVARIANTS TypeOK EndFollowsParcel
PROPERTIES CancelStopsParcel OrderFollowsParcel
CHECK_DEADLOCK FALSE
