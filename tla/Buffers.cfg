SPECIFICATION SpecOfBoth
CONSTANTS
  Width = 4
  Rooms = {0, 3, 5, 17, 20000, 40000, 65539}
  Lengths = {0, 1, 5, 40000}
  Leading = {1}
  Characters = {65, 2047, 2048, 65536, 2097152}
  Longest = 2
  Capacities = {0, 1, 2, 3, 16384, 16385}
INVARIANTS
  InsideTheBuffers
  WholeTextRead
  TextHanded
  LengthReported
