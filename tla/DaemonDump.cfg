SPECIFICATION Spec
CONSTANTS
  MaxScans = 3
  None = None
  Partial = Partial
PROPERTY MeshWrittenBeforeExit
