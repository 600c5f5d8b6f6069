SPECIFICATION Spec
CONSTANTS
  MaxRequests = 3
  MaxFiles = 1
PROPERTY BuildOnParsedFiles
