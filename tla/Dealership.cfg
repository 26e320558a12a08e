CONSTANTS
  DayLen = 8
  Week = 3
  Step = 2
  DaysAhead = 2
  MaxSlots = 3
  r1 = r1
  r2 = r2
  Reps = {r1, r2}
  HoursOf <- MCHoursOf
  Appointments <- MCAppointments
  NoForm = NoForm
  MaxOpen = 2
  MaxWrites = 3
SPECIFICATION Spec
INVARIANTS TypeOK StoredIsKept OfferedIsOpen
CHECK_DEADLOCK FALSE
