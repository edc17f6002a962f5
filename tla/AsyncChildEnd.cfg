SPECIFICATION Spec
CONSTANTS
  Stream = {stdout, stderr}
  MaxLine = 1
INVARIANT EndMeansDrained
